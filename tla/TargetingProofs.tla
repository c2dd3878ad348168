--------------------------- MODULE TargetingProofs ---------------------------
(***************************************************************************)
(* The operator acts on what the spec selects, and on nothing else.  Inv   *)
(* is inductive; the lemmas about the resolver say that a workload that is *)
(* in the cache is listed exactly when the spec selects it.                *)
(***************************************************************************)
EXTENDS TargetingInvariant, InformerProofs, FiniteSetTheorems

-----------------------------------------------------------------------------
(* The resolver.                                                           *)

\* Where a namespace is listed that names the workload's own.
Naming(s, w) == {i \in DOMAIN s.target.namespaces : Names(s.target.namespaces[i], w)}

\* There are finitely many.
LEMMA NamingTypes ==
  ASSUME NEW s \in Proposals, NEW w
  PROVE  /\ IsFiniteSet(Naming(s, w))
         /\ Cardinality(Naming(s, w)) \in Nat
         /\ Cardinality(Naming(s, w)) <= Len(s.target.namespaces)
         /\ Cardinality(Naming(s, w)) = 0 <=> Naming(s, w) = {}
<1>1. PICK ns \in Seq(STRING) : ns = s.target.namespaces
  BY SpecAssumption
<1>2. IsFiniteSet(1 .. Len(ns)) /\ Cardinality(1 .. Len(ns)) = Len(ns)
  <2>1. PICK n \in Nat : n = Len(ns)
    BY <1>1
  <2>2. IsFiniteSet(1 .. n) /\ Cardinality(1 .. n) = IF 1 > n THEN 0 ELSE n - 1 + 1
    BY FS_Interval
  <2> QED
    BY <2>1, <2>2
<1>3. Naming(s, w) \in SUBSET (1 .. Len(ns))
  BY <1>1 DEF Naming
<1>4. /\ IsFiniteSet(Naming(s, w))
      /\ Cardinality(Naming(s, w)) <= Len(ns)
  BY <1>2, <1>3, FS_Subset
<1>5. /\ Cardinality(Naming(s, w)) \in Nat
      /\ Cardinality(Naming(s, w)) = 0 <=> Naming(s, w) = {}
  BY <1>4, FS_CardinalityType, FS_EmptySet
<1> QED
  BY <1>1, <1>4, <1>5

\* listKind returns a workload a finite number of times.
LEMMA listKindBounds ==
  ASSUME NEW s \in Proposals, NEW w
  PROVE  /\ listKind(s.target, w) \in Nat
         /\ listKind(s.target, w) <= Len(s.target.namespaces) + 1
<1>1. Len(s.target.namespaces) \in Nat /\ s.target.mode \in {"namespaces", "labels"}
  BY SpecAssumption
<1>2. listKind(s.target, w) \in {0, 1, Cardinality(Naming(s, w))}
  BY <1>1 DEF listKind, Naming
<1> QED
  BY <1>1, <1>2, NamingTypes

\* Resolve lists each of them a bounded number of times.
LEMMA ResolveTypes ==
  ASSUME NEW s \in Proposals
  PROVE  /\ Resolve(s) \in [Workloads -> Nat]
         /\ \A w \in Workloads : Resolve(s)[w] <= Len(s.target.namespaces) + 1
<1>1. Len(s.target.namespaces) \in Nat
  BY SpecAssumption
<1> QED
  BY <1>1, listKindBounds DEF Resolve

\* isExcluded is what the guide says of exclusions.
LEMMA ExcludedIsListed ==
  ASSUME NEW s \in Proposals, NEW w \in Workloads
  PROVE  isExcluded(s.excludeRefs, w) <=>
           \E x \in s.excludeRefs : /\ x.kind = w.kind /\ x.name = w.name
                                    /\ x.namespace \in {"", w.namespace}
<1>1. PICK k \in STRING, ns \in STRING \ {""}, n \in STRING :
        w = [kind |-> k, namespace |-> ns, name |-> n]
  <2>1. PICK R : R = [kind : STRING, namespace : STRING \ {""}, name : STRING]
    OBVIOUS
  <2>2. Refs \in Seq(R)
    BY <2>1, TargetingAssumption
  <2>3. w \in R
    BY <2>2 DEF Workloads, Range
  <2> QED
    BY <2>1, <2>3
<1>2. [w EXCEPT !.namespace = ""] = [kind |-> k, namespace |-> "", name |-> n]
  <2>1. PICK v : v = [w EXCEPT !.namespace = ""]
    OBVIOUS
  <2>2. v = [kind |-> k, namespace |-> "", name |-> n]
    BY <1>1, <2>1
  <2> QED
    BY <2>1, <2>2
<1>3. \A x \in s.excludeRefs :
        x = [kind |-> x.kind, namespace |-> x.namespace, name |-> x.name]
  <2>1. s.excludeRefs \subseteq [kind : STRING, namespace : STRING, name : STRING]
    BY SpecAssumption
  <2> SUFFICES ASSUME NEW x \in s.excludeRefs
               PROVE  x = [kind |-> x.kind, namespace |-> x.namespace, name |-> x.name]
    OBVIOUS
  <2>2. PICK a \in STRING, b \in STRING, c \in STRING :
          x = [kind |-> a, namespace |-> b, name |-> c]
    BY <2>1
  <2> QED
    BY <2>2
<1>4. isExcluded(s.excludeRefs, w) <=>
        \E x \in s.excludeRefs : /\ x.kind = k /\ x.name = n
                                 /\ x.namespace \in {"", ns}
  <2>1. isExcluded(s.excludeRefs, w) <=>
          \/ [kind |-> k, namespace |-> ns, name |-> n] \in s.excludeRefs
          \/ [kind |-> k, namespace |-> "", name |-> n] \in s.excludeRefs
    BY <1>1, <1>2, Zenon DEF isExcluded
  <2>2. ASSUME NEW x \in s.excludeRefs, x.kind = k, x.name = n, x.namespace \in {"", ns}
        PROVE  x = [kind |-> k, namespace |-> ns, name |-> n]
               \/ x = [kind |-> k, namespace |-> "", name |-> n]
    BY <1>3, <2>2
  <2>3. ASSUME NEW m \in {"", ns}, [kind |-> k, namespace |-> m, name |-> n] \in s.excludeRefs
        PROVE  \E x \in s.excludeRefs : /\ x.kind = k /\ x.name = n
                                        /\ x.namespace \in {"", ns}
    BY <2>3
  <2> QED
    BY <2>1, <2>2, <2>3
<1> QED
  BY <1>1, <1>4

\* A workload in the cache is listed exactly when the spec selects it.
LEMMA ResolveIsScope ==
  ASSUME TypeOK, NEW s \in Proposals, NEW w \in Workloads, Synced(objects[w])
  PROVE  Resolve(s)[w] > 0 <=> InScope(s, w)
<1>1. Cached(objects[w]) = Live(objects[w])
  BY ViewParts DEF TypeOK
<1>2. PICK v : v = Live(objects[w])
  OBVIOUS
<1>3. (w.kind \in handled(s)) <=>
        /\ w.kind \in Registered
        /\ s.kinds # <<>> => \E i \in DOMAIN s.kinds : s.kinds[i] = w.kind
  BY DEF handled, requestedKinds, Range
<1>4. listKind(s.target, w) > 0 <=>
        /\ v # Nil
        /\ IF s.target.mode = "namespaces"
           THEN \E i \in DOMAIN s.target.namespaces : Names(s.target.namespaces[i], w)
           ELSE Selects(s.target.selector, v.labels)
  <2>1. s.target.mode \in {"namespaces", "labels"}
    BY SpecAssumption
  <2>2. listKind(s.target, w) =
          IF v = Nil THEN 0
          ELSE IF s.target.mode = "namespaces" THEN Cardinality(Naming(s, w))
          ELSE IF Selects(s.target.selector, v.labels) THEN 1 ELSE 0
    BY <1>1, <1>2, <2>1 DEF listKind, Naming
  <2>3. Cardinality(Naming(s, w)) > 0 <=>
          \E i \in DOMAIN s.target.namespaces : Names(s.target.namespaces[i], w)
    <3>1. Cardinality(Naming(s, w)) > 0 <=> Naming(s, w) # {}
      BY NamingTypes
    <3> QED
      BY <3>1 DEF Naming
  <2> QED
    BY <2>2, <2>3
<1>5. Resolve(s)[w] = IF w.kind \in handled(s) /\ ~isExcluded(s.excludeRefs, w)
                      THEN listKind(s.target, w) ELSE 0
  BY DEF Resolve
<1>6. InScope(s, w) <=>
        /\ w.kind \in handled(s)
        /\ listKind(s.target, w) > 0
        /\ ~isExcluded(s.excludeRefs, w)
  <2>1. InScope(s, w) <=>
          /\ v # Nil
          /\ w.kind \in Registered
          /\ s.kinds # <<>> => \E i \in DOMAIN s.kinds : s.kinds[i] = w.kind
          /\ IF s.target.mode = "namespaces"
             THEN \E i \in DOMAIN s.target.namespaces : Names(s.target.namespaces[i], w)
             ELSE Selects(s.target.selector, v.labels)
          /\ ~\E x \in s.excludeRefs : /\ x.kind = w.kind /\ x.name = w.name
                                       /\ x.namespace \in {"", w.namespace}
    BY <1>2, Zenon DEF InScope
  <2> QED
    BY <1>3, <1>4, <2>1, ExcludedIsListed, Zenon
<1> QED
  BY <1>5, <1>6

-----------------------------------------------------------------------------
(* How many refs there are.                                                *)

\* There are finitely many workloads.
LEMMA WorkloadsAreFinite == IsFiniteSet(Workloads)
<1>1. PICK R : R = [kind : STRING, namespace : STRING \ {""}, name : STRING]
  OBVIOUS
<1>2. Refs \in Seq(R)
  BY <1>1, TargetingAssumption
<1>3. PICK n \in Nat : n = Len(Refs) /\ DOMAIN Refs = 1 .. n
  BY <1>2
<1>4. Refs \in Surjection(1 .. n, Workloads)
  BY <1>2, <1>3 DEF Surjection, Workloads, Range
<1> QED
  BY <1>4, FS_NatSurjection DEF ExistsSurjection

\* A list that mentions each of them a bounded number of times has a length.
LEMMA lenTypes ==
  ASSUME NEW refs \in [Workloads -> Nat], NEW n \in Nat,
         \A w \in Workloads : refs[w] <= n
  PROVE  len(refs) \in Nat
<1>1. PICK M : M = UNION {{w} \X (1 .. refs[w]) : w \in Workloads}
  OBVIOUS
<1>2. IsFiniteSet(Workloads \X (1 .. n))
  <2>1. IsFiniteSet(1 .. n)
    BY FS_Interval
  <2> QED
    BY <2>1, WorkloadsAreFinite, FS_Product
<1>3. M \in SUBSET (Workloads \X (1 .. n))
  <2> SUFFICES ASSUME NEW w \in Workloads
               PROVE  {w} \X (1 .. refs[w]) \subseteq Workloads \X (1 .. n)
    BY <1>1
  <2>1. 1 .. refs[w] \subseteq 1 .. n
    OBVIOUS
  <2> QED
    BY <2>1
<1>4. IsFiniteSet(M)
  BY <1>2, <1>3, FS_Subset
<1> QED
  BY <1>1, <1>4, FS_CardinalityType DEF len

\* Where the cache has caught up, the list has a ref for each mention.
LEMMA ResolveIsMentions ==
  ASSUME TypeOK, NEW s \in Proposals, \A w \in Workloads : Synced(objects[w])
  PROVE  len(Resolve(s)) = Mentions(s)
<1>1. s.target.mode \in {"namespaces", "labels"}
  BY SpecAssumption
<1> DEFINE mentioned(w) == IF ~InScope(s, w) THEN 0
                           ELSE IF s.target.mode = "labels" THEN 1
                           ELSE Cardinality(Naming(s, w))
<1>2. ASSUME NEW w \in Workloads
      PROVE  Resolve(s)[w] = mentioned(w)
  <2>1. Resolve(s)[w] > 0 <=> InScope(s, w)
    BY ResolveIsScope
  <2>2. Resolve(s)[w] \in Nat
    BY ResolveTypes
  <2>3. CASE ~InScope(s, w)
    BY <2>1, <2>2, <2>3
  <2>4. CASE InScope(s, w)
    <3>1. Cached(objects[w]) = Live(objects[w])
      BY ViewParts DEF TypeOK
    <3>2. Cached(objects[w]) # Nil
      BY <2>4, <3>1, Zenon DEF InScope
    <3>3. Resolve(s)[w] = listKind(s.target, w)
      BY <2>1, <2>4 DEF Resolve
    <3>4. CASE s.target.mode = "labels"
      <4>1. listKind(s.target, w) \in {0, 1}
        BY <3>2, <3>4 DEF listKind
      <4> QED
        BY <2>1, <2>4, <3>3, <3>4, <4>1
    <3>5. CASE s.target.mode = "namespaces"
      BY <2>4, <3>2, <3>3, <3>5 DEF listKind, Naming
    <3> QED
      BY <1>1, <3>4, <3>5
  <2> QED
    BY <2>3, <2>4
<1>3. Resolve(s) = [w \in Workloads |-> mentioned(w)]
  <2>1. Resolve(s) \in [Workloads -> Nat]
    BY ResolveTypes
  <2> HIDE DEF mentioned
  <2> QED
    BY <1>2, <2>1
<1>4. Mentions(s) = len([w \in Workloads |-> mentioned(w)])
  BY Zenon DEF Mentions, Naming
<1> QED
  BY <1>3, <1>4, Zenon

-----------------------------------------------------------------------------
(* Types.                                                                  *)

\* The pass as TypeOK has it.
PassOK == /\ pc \in {"idle", "resolve", "apply", "status"}
          /\ held \in Proposals \cup {Nil}
          /\ dir \in {"asleep", "awake", Nil}
          /\ todo \in [Workloads -> Nat]
          /\ count \in Nat
          /\ pc # "idle" => held # Nil

\* The world as TypeOK has it.
WorldOK == /\ webhook \in BOOLEAN
           /\ ss \in Views(Proposals \cup {Nil})
           /\ objects \in [Workloads -> Views(Versions \cup {Nil})]
           /\ slept \subseteq saved
           /\ saved \subseteq {w \in Workloads : Live(objects[w]) # Nil}
           /\ desired \in {"asleep", "awake"}
           /\ queued \in BOOLEAN
           /\ gauges \in {Nil} \cup [asleep : Nat, awake : Nat]
           /\ unseen \subseteq Workloads
           /\ budget \in 0 .. MaxChanges

\* What a pass holds, as one record,
LEMMA PassParts ==
  PassOK <=>
    /\ [pc |-> pc, held |-> held, dir |-> dir, todo |-> todo, count |-> count] \in Passes
    /\ pc # "idle" => held # Nil
  BY DEF Passes, PassOK

\* and so after a step.
LEMMA PassPartsNext ==
  PassOK' <=>
    /\ ([pc |-> pc, held |-> held, dir |-> dir, todo |-> todo, count |-> count] \in Passes)'
    /\ pc' # "idle" => held' # Nil
  BY DEF Passes, PassOK

\* TypeOK in two parts.
LEMMA TypeParts == TypeOK <=> (WorldOK /\ PassOK)
  BY PassParts, Zenon DEF TypeOK, WorldOK

\* and so after a step.
LEMMA TypePartsNext == TypeOK' <=> (WorldOK' /\ PassOK')
  BY PassPartsNext, Zenon DEF TypeOK, WorldOK

\* The bound on changes.
LEMMA BoundType == MaxChanges \in Nat
  BY TargetingAssumption, Zenon

\* The first state.
LEMMA InitTypeOK == Init => TypeOK
<1> SUFFICES ASSUME Init
             PROVE  TypeOK
  OBVIOUS
<1>1. PassOK
  BY DEF Init, PassOK, None
<1>2. ss \in Views(Proposals \cup {Nil})
  BY ViewOfOne DEF Init
<1>3. objects \in [Workloads -> Views(Versions \cup {Nil})]
  BY ViewOfOne, TargetingAssumption DEF Init, Workloads
<1>4. /\ budget \in 0 .. MaxChanges /\ gauges = Nil /\ slept = {} /\ saved = {}
      /\ unseen = {}
  BY BoundType DEF Init
<1>5. webhook \in BOOLEAN /\ queued \in BOOLEAN /\ desired \in {"asleep", "awake"}
  BY Zenon DEF Init
<1>6. WorldOK
  BY <1>2, <1>3, <1>4, <1>5, Zenon DEF WorldOK
<1> QED
  BY <1>1, <1>6, TypeParts

\* A finished pass forgets what it knew.
LEMMA ReturnTypes == Return => PassOK'
  BY DEF Return, PassOK, None

\* A handler writes what has a checkpoint asleep, and to objects there are.
LEMMA WriteTypes ==
  ASSUME WorldOK, NEW w \in Workloads, ~Skips(w), FirstWrite(w) \/ BothWrites(w)
  PROVE  /\ slept' \subseteq saved'
         /\ saved' \subseteq {x \in Workloads : Live(objects[x]) # Nil}
<1>1. Live(objects[w]) # Nil
  BY DEF Skips
<1>2. /\ slept \subseteq saved
      /\ saved \subseteq {x \in Workloads : Live(objects[x]) # Nil}
  BY DEF WorldOK
<1> QED
  BY <1>1, <1>2 DEF FirstWrite, BothWrites

\* A step of the pass: the world changes in slept, saved and gauges only.
LEMMA PassTypes ==
  ASSUME TypeOK, Pass
  PROVE  TypeOK'
<1>1. WorldOK /\ PassOK
  BY TypeParts
<1>2. Cached(ss) \in Proposals \cup {Nil}
  BY <1>1, ViewParts DEF WorldOK
<1>3. CASE Begin
  <2>1. PassOK'
    BY <1>1, <1>2, <1>3 DEF Begin, PassOK, WorldOK
  <2>2. WorldOK'
    BY <1>1, <1>3 DEF Begin, WorldOK
  <2> QED
    BY <2>1, <2>2, TypePartsNext
<1>4. CASE Gone
  <2>1. PassOK'
    BY <1>1, <1>4 DEF Gone, pass, PassOK
  <2>2. WorldOK'
    BY <1>1, <1>4 DEF Gone, WorldOK
  <2> QED
    BY <2>1, <2>2, TypePartsNext
<1>5. CASE Refused
  <2>1. PassOK'
    BY <1>5, ReturnTypes DEF Refused
  <2>2. WorldOK'
    BY <1>1, <1>5 DEF Refused, WorldOK
  <2> QED
    BY <2>1, <2>2, TypePartsNext
<1>6. CASE List
  <2>1. held \in Proposals \cup {Nil} /\ pc = "resolve"
    BY <1>1, <1>6 DEF List, PassOK
  <2>2. todo' \in [Workloads -> Nat] /\ count' \in Nat
    <3>1. held \in Proposals
      BY <1>1, <2>1 DEF PassOK
    <3>2. PICK n \in Nat : n = Len(held.target.namespaces) + 1
      BY <3>1, SpecAssumption
    <3>3. /\ Resolve(held) \in [Workloads -> Nat]
          /\ \A w \in Workloads : Resolve(held)[w] <= n
      BY <3>1, <3>2, ResolveTypes
    <3> QED
      BY <1>6, <3>3, lenTypes DEF List
  <2>3. PassOK'
    BY <1>1, <1>6, <2>1, <2>2 DEF List, PassOK
  <2>4. WorldOK'
    BY <1>1, <1>6 DEF List, WorldOK
  <2> QED
    BY <2>3, <2>4, TypePartsNext
<1>7. ASSUME NEW w \in Workloads, Apply(w)
      PROVE  TypeOK'
  <2>1. PassOK'
    <3>1. todo[w] \in Nat /\ todo[w] > 0
      BY <1>1, <1>7 DEF Apply, IsNext, PassOK
    <3> QED
      BY <1>1, <1>7, <3>1 DEF Apply, PassOK
  <2>2. WorldOK'
    <3>1. /\ slept' \subseteq saved'
          /\ saved' \subseteq {x \in Workloads : Live(objects[x]) # Nil}
      <4>1. CASE Skips(w)
        BY <1>1, <1>7, <4>1 DEF Apply, WorldOK
      <4>2. CASE ~Skips(w)
        BY <1>1, <1>7, <4>2, WriteTypes DEF Apply
      <4> QED
        BY <4>1, <4>2
    <3> QED
      BY <1>1, <1>7, <3>1 DEF Apply, WorldOK
  <2> QED
    BY <2>1, <2>2, TypePartsNext
<1>8. ASSUME NEW w \in Workloads, PatchMissing(w)
      PROVE  TypeOK'
  <2>1. PassOK'
    BY <1>8, ReturnTypes DEF PatchMissing
  <2>2. WorldOK'
    BY <1>1, <1>8 DEF PatchMissing, WorldOK
  <2> QED
    BY <2>1, <2>2, TypePartsNext
<1>9. CASE Publish
  <2>1. PassOK'
    BY <1>1, <1>9 DEF Publish, PassOK
  <2>2. WorldOK'
    BY <1>1, <1>9 DEF Publish, PassOK, WorldOK
  <2> QED
    BY <2>1, <2>2, TypePartsNext
<1>10. CASE Finish
  <2>1. PassOK'
    BY <1>10, ReturnTypes DEF Finish
  <2>2. WorldOK'
    BY <1>1, <1>10 DEF Finish, WorldOK
  <2> QED
    BY <2>1, <2>2, TypePartsNext
<1> QED
  BY <1>3, <1>4, <1>5, <1>6, <1>7, <1>8, <1>9, <1>10, Zenon DEF Pass

\* A change takes one from the budget.
LEMMA ChangeTypes ==
  ASSUME budget \in 0 .. MaxChanges, Change
  PROVE  budget' \in 0 .. MaxChanges
  BY BoundType DEF Change

\* What the others do to the schedule, the workloads and the pass.
LEMMA OtherTypes ==
  ASSUME TypeOK, Others
  PROVE  TypeOK'
<1>1. WorldOK /\ PassOK
  BY TypeParts
<1>2. CASE Deliver
  <2>1. ss' \in Views(Proposals \cup {Nil})
    BY <1>1, <1>2, ViewDelivered DEF Deliver, WorldOK
  <2>2. WorldOK' /\ PassOK'
    BY <1>1, <1>2, <2>1 DEF Deliver, WorldOK, pass, PassOK
  <2> QED
    BY <2>2, TypePartsNext
<1>3. CASE Flip
  <2>1. WorldOK' /\ PassOK'
    BY <1>1, <1>3 DEF Flip, WorldOK, pass, PassOK
  <2> QED
    BY <2>1, TypePartsNext
<1>4. ASSUME NEW w \in Workloads, DeliverWorkload(w)
      PROVE  TypeOK'
  <2>1. /\ Delivered(objects[w]) \in Views(Versions \cup {Nil})
        /\ Live(Delivered(objects[w])) = Live(objects[w])
    BY <1>1, <1>4, ViewDelivered DEF DeliverWorkload, WorldOK
  <2>2. /\ objects' \in [Workloads -> Views(Versions \cup {Nil})]
        /\ \A x \in Workloads : Live(objects'[x]) = Live(objects[x])
    BY <1>1, <1>4, <2>1 DEF DeliverWorkload, WorldOK
  <2>3. WorldOK' /\ PassOK'
    BY <1>1, <1>4, <2>2 DEF DeliverWorkload, WorldOK, pass, PassOK
  <2> QED
    BY <2>3, TypePartsNext
<1>5. ASSUME NEW s \in Proposals, Propose(s)
      PROVE  TypeOK'
  <2>1. ss' \in Views(Proposals \cup {Nil})
    BY <1>1, <1>5, ViewCommit DEF Propose, WorldOK
  <2>2. budget' \in 0 .. MaxChanges
    BY <1>1, <1>5, ChangeTypes DEF Propose, WorldOK
  <2>3. WorldOK' /\ PassOK'
    BY <1>1, <1>5, <2>1, <2>2 DEF Propose, WorldOK, pass, PassOK
  <2> QED
    BY <2>3, TypePartsNext
<1>6. CASE DeleteSchedule
  <2>1. ss' \in Views(Proposals \cup {Nil})
    BY <1>1, <1>6, ViewCommit DEF DeleteSchedule, WorldOK
  <2>2. budget' \in 0 .. MaxChanges
    BY <1>1, <1>6, ChangeTypes DEF DeleteSchedule, WorldOK
  <2>3. WorldOK' /\ PassOK'
    BY <1>1, <1>6, <2>1, <2>2 DEF DeleteSchedule, WorldOK, pass, PassOK
  <2> QED
    BY <2>3, TypePartsNext
<1>7. ASSUME NEW w \in Workloads, NEW v \in Versions \cup {Nil}, Own(w, v)
      PROVE  TypeOK'
  <2>1. /\ Commit(objects[w], v) \in Views(Versions \cup {Nil})
        /\ Live(Commit(objects[w], v)) = v
    <3>1. PICK V : V = Versions \cup {Nil}
      OBVIOUS
    <3>2. objects[w] \in Views(V) /\ v \in V
      BY <1>1, <3>1 DEF WorldOK
    <3> QED
      BY <3>1, <3>2, ViewCommit
  <2>2. /\ objects' \in [Workloads -> Views(Versions \cup {Nil})]
        /\ \A x \in Workloads : Live(objects'[x]) = IF x = w THEN v ELSE Live(objects[x])
    BY <1>1, <1>7, <2>1 DEF Own, WorldOK
  <2>3. /\ slept' \subseteq saved'
        /\ saved' \subseteq {x \in Workloads : Live(objects'[x]) # Nil}
    BY <1>1, <1>7, <2>2 DEF Own, WorldOK
  <2>4. budget' \in 0 .. MaxChanges
    BY <1>1, <1>7, ChangeTypes DEF Own, WorldOK
  <2>5. WorldOK' /\ PassOK'
    BY <1>1, <1>7, <2>2, <2>3, <2>4 DEF Own, WorldOK, pass, PassOK
  <2> QED
    BY <2>5, TypePartsNext
<1>8. CASE Fail
  <2>1. PassOK'
    BY <1>8, ReturnTypes DEF Fail
  <2>2. budget' \in 0 .. MaxChanges
    BY <1>1, <1>8, ChangeTypes DEF Fail, WorldOK
  <2>3. WorldOK'
    BY <1>1, <1>8, <2>2 DEF Fail, WorldOK
  <2> QED
    BY <2>1, <2>3, TypePartsNext
<1>9. CASE Restart
  <2>1. PassOK'
    BY <1>9, ReturnTypes DEF Restart
  <2>2. budget' \in 0 .. MaxChanges
    BY <1>1, <1>9, ChangeTypes DEF Restart, WorldOK
  <2>3. WorldOK'
    BY <1>1, <1>9, <2>2 DEF Restart, WorldOK
  <2> QED
    BY <2>1, <2>3, TypePartsNext
<1>10. ASSUME NEW w \in Workloads, FailHalfway(w)
       PROVE  TypeOK'
  <2>1. PassOK'
    BY <1>10, ReturnTypes DEF FailHalfway
  <2>2. budget' \in 0 .. MaxChanges
    BY <1>1, <1>10, ChangeTypes DEF FailHalfway, WorldOK
  <2>3. /\ slept' \subseteq saved'
        /\ saved' \subseteq {x \in Workloads : Live(objects[x]) # Nil}
    BY <1>1, <1>10, WriteTypes DEF FailHalfway
  <2>4. WorldOK'
    BY <1>1, <1>10, <2>2, <2>3 DEF FailHalfway, WorldOK
  <2> QED
    BY <2>1, <2>4, TypePartsNext
<1> QED
  BY <1>2, <1>3, <1>4, <1>5, <1>6, <1>7, <1>8, <1>9, <1>10, Zenon DEF Others

\* Every step keeps the types.
LEMMA NextTypeOK ==
  ASSUME TypeOK, [Next]_vars
  PROVE  TypeOK'
<1>1. CASE UNCHANGED vars
  BY <1>1 DEF vars, pass, TypeOK
<1> QED
  BY <1>1, PassTypes, OtherTypes DEF Next

\* A schedule acts on workloads there are, and only on these; what sleeps has a
\* checkpoint to wake it with, also when a handler stops half way.
THEOREM TypeCorrect == Spec => []TypeOK
  BY InitTypeOK, NextTypeOK, PTL DEF Spec

-----------------------------------------------------------------------------
(* What the rest of the world leaves alone.                                *)

\* A schedule's scope depends on the workloads.
LEMMA ScopeStays ==
  ASSUME NEW s, NEW w \in Workloads, Live(objects'[w]) = Live(objects[w])
  PROVE  InScope(s, w)' <=> InScope(s, w)
  BY DEF InScope

\* A workload that stays as it is is selected by the pass as before.
LEMMA HeldScopeStays ==
  ASSUME NEW w \in Workloads, Live(objects'[w]) = Live(objects[w]), held' = held
  PROVE  InScope(held, w)' <=> InScope(held, w)
  BY DEF InScope

\* Where no workload changed, a schedule mentions the same ones.
LEMMA MentionsStay ==
  ASSUME NEW s, \A w \in Workloads : Live(objects'[w]) = Live(objects[w])
  PROVE  Mentions(s)' = Mentions(s)
<1>1. \A w \in Workloads : InScope(s, w)' <=> InScope(s, w)
  BY ScopeStays
<1>2. PICK f : f = [w \in Workloads |->
                      IF ~InScope(s, w) THEN 0
                      ELSE IF s.target.mode = "labels" THEN 1
                      ELSE Cardinality({i \in DOMAIN s.target.namespaces :
                                          Names(s.target.namespaces[i], w)})]
  OBVIOUS
<1>3. Mentions(s) = len(f)
  BY <1>2 DEF Mentions
<1>4. Mentions(s)' = len(f)
  BY <1>1, <1>2, Zenon DEF Mentions, len
<1> QED
  BY <1>3, <1>4

\* What a workload is asked for depends on it alone.
LEMMA AsAskedStays ==
  ASSUME NEW s, NEW d, NEW w \in Workloads, Live(objects'[w]) = Live(objects[w]),
         w \in slept' <=> w \in slept, w \in saved' <=> w \in saved
  PROVE  AsAsked(s, d, w)' <=> AsAsked(s, d, w)
  BY DEF AsAsked, Spared, SleepsOnce

\* A handler that stops half way ends its pass.
LEMMA HalfwayEnds ==
  ASSUME NEW w \in Workloads, FailHalfway(w)
  PROVE  pc = "apply" /\ pc' = "idle" /\ queued' = TRUE
  BY DEF FailHalfway, Return

\* What is done to a workload by others than the pass adds it to unseen.
LEMMA OthersAreSeen ==
  ASSUME TypeOK, Others, \A w \in Workloads : ~FailHalfway(w)
  PROVE  /\ unseen \subseteq unseen'
         /\ \A w \in Workloads \ unseen' :
              /\ Live(objects'[w]) = Live(objects[w])
              /\ Synced(objects[w]) => Synced(objects'[w])
              /\ w \in slept' <=> w \in slept
              /\ w \in saved' <=> w \in saved
<1>1. objects \in [Workloads -> Views(Versions \cup {Nil})]
  BY DEF TypeOK
<1>2. ASSUME NEW w \in Workloads, DeliverWorkload(w)
      PROVE  /\ unseen' = unseen /\ slept' = slept /\ saved' = saved
             /\ \A x \in Workloads : /\ Live(objects'[x]) = Live(objects[x])
                                     /\ Synced(objects[x]) => Synced(objects'[x])
  <2>1. ~Synced(objects[w]) /\ Live(Delivered(objects[w])) = Live(objects[w])
    BY <1>1, <1>2, ViewDelivered DEF DeliverWorkload
  <2> QED
    BY <1>1, <1>2, <2>1 DEF DeliverWorkload
<1>3. ASSUME NEW w \in Workloads, NEW v \in Versions \cup {Nil}, Own(w, v)
      PROVE  /\ unseen' = unseen \cup {w}
             /\ \A x \in Workloads \ {w} : /\ objects'[x] = objects[x]
                                           /\ x \in slept' <=> x \in slept
                                           /\ x \in saved' <=> x \in saved
  BY <1>1, <1>3 DEF Own
<1>4. CASE /\ \A w \in Workloads : ~DeliverWorkload(w)
           /\ \A w \in Workloads, v \in Versions \cup {Nil} : ~Own(w, v)
  <2>1. unseen' = unseen /\ objects' = objects /\ slept' = slept /\ saved' = saved
    BY <1>4, Zenon DEF Others, Deliver, Flip, Propose, DeleteSchedule, Fail, Restart
  <2> QED
    BY <2>1
<1> QED
  BY <1>2, <1>3, <1>4

\* Others leave a pass alone, or end it.
LEMMA OthersSparePass ==
  ASSUME Others, pc' # "idle"
  PROVE  /\ pc' = pc /\ held' = held /\ dir' = dir /\ todo' = todo /\ count' = count
         /\ desired' = desired /\ gauges' = gauges
<1>1. ~Fail /\ ~Restart /\ ~Flip /\ \A w \in Workloads : ~FailHalfway(w)
  BY HalfwayEnds DEF Fail, Restart, Flip, Return, AtRest, pass
<1> QED
  BY <1>1, Zenon DEF Others, Deliver, DeliverWorkload, Propose, DeleteSchedule, Own, pass

\* A new version of the spec: the watch has yet to tell of it, or has just
\* done so.
LEMMA NewsIsComing ==
  ASSUME ThereIsAWatch, TypeOK, [Next]_vars, ss' # ss
  PROVE  /\ queued' = TRUE \/ ~Synced(ss')
         /\ UNCHANGED <<pass, desired>>
<1>1. ss \in Views(Proposals \cup {Nil})
  BY DEF TypeOK
<1>2. CASE Deliver
  BY <1>2, Zenon DEF Deliver
<1>3. ASSUME NEW s \in Proposals, Propose(s)
      PROVE  ~Synced(ss') /\ UNCHANGED <<pass, desired>>
  <2>1. ~Synced(Commit(ss, s))
    BY <1>1, CommitIsNews DEF ThereIsAWatch
  <2> QED
    BY <1>3, <2>1, Zenon DEF Propose
<1>4. CASE DeleteSchedule
  <2>1. ~Synced(Commit(ss, Nil))
    BY <1>1, CommitIsNews DEF ThereIsAWatch
  <2> QED
    BY <1>4, <2>1, Zenon DEF DeleteSchedule
<1>5. Deliver \/ (\E s \in Proposals : Propose(s)) \/ DeleteSchedule
  BY Zenon DEF vars, Next, Pass, Begin, Gone, Refused, List, Apply, PatchMissing, Publish, Finish,
       Others, Flip, DeliverWorkload, Own, Fail, FailHalfway, Restart
<1> QED
  BY <1>2, <1>3, <1>4, <1>5, Zenon

-----------------------------------------------------------------------------
(* What a pass goes by.                                                    *)

\* The cache has what a pass listed, until somebody changes it.
LEMMA NextListedIsSynced ==
  ASSUME TypeOK, ListedIsSynced, [Next]_vars
  PROVE  ListedIsSynced'
<1>1. CASE List
  BY <1>1 DEF List, ListedIsSynced
<1>2. CASE Others
  <2>1. CASE \E w \in Workloads : FailHalfway(w)
    <3>1. objects' = objects /\ unseen' = unseen
      BY <2>1 DEF FailHalfway
    <3> QED
      BY <3>1 DEF ListedIsSynced
  <2>2. CASE \A w \in Workloads : ~FailHalfway(w)
    BY <1>2, <2>2, OthersAreSeen DEF ListedIsSynced
  <2> QED
    BY <2>1, <2>2
<1>3. CASE ~List /\ ~Others
  <2>1. objects' = objects /\ unseen' = unseen
    BY <1>3, Zenon DEF vars, Next, Pass, Begin, Gone, Refused, Apply, PatchMissing, Publish, Finish
  <2> QED
    BY <2>1 DEF ListedIsSynced
<1> QED
  BY <1>1, <1>2, <1>3

\* The webhook: no version gets past it that does not evaluate.
LEMMA NextVersionsEvaluate ==
  ASSUME TypeOK, VersionsEvaluate, [Next]_vars
  PROVE  VersionsEvaluate'
<1>1. /\ ss \in Views(Proposals \cup {Nil}) /\ Cached(ss) \in Snapshots(ss)
      /\ webhook' = webhook
  <2>1. ss \in Views(Proposals \cup {Nil})
    BY DEF TypeOK
  <2>2. webhook' = webhook
    BY Zenon DEF vars, Next, Pass, Begin, Gone, Refused, List, Apply, PatchMissing, Publish,
         Finish, Others, Deliver, Flip, DeliverWorkload, Propose, DeleteSchedule, Own, Fail, FailHalfway, Restart
  <2> QED
    BY <2>1, <2>2, ViewParts
<1>2. held' \in {held, Nil, Cached(ss)}
  BY Zenon DEF vars, Next, Pass, Begin, Gone, Refused, List, Apply, PatchMissing, Publish,
       Finish, Others, Deliver, Flip, DeliverWorkload, Propose, DeleteSchedule, Own, Fail, FailHalfway, Restart,
       Return, pass
<1>3. CASE Deliver
  <2>1. Snapshots(ss') \subseteq Snapshots(ss)
    BY <1>1, <1>3, ViewDelivered DEF Deliver
  <2> QED
    BY <1>1, <1>2, <2>1 DEF VersionsEvaluate
<1>4. ASSUME NEW s \in Proposals, Propose(s)
      PROVE  VersionsEvaluate'
  <2>1. Snapshots(ss') \subseteq Snapshots(ss) \cup {s}
    <3>1. PICK V : V = Proposals \cup {Nil}
      OBVIOUS
    <3>2. ss \in Views(V) /\ s \in V
      BY <1>1, <3>1
    <3> QED
      BY <1>4, <3>2, ViewCommit DEF Propose
  <2>2. webhook => Evaluates(s)
    BY <1>4, Zenon DEF Propose, Admits, validateSleepSchedule, Evaluates
  <2> QED
    BY <1>1, <1>2, <2>1, <2>2 DEF VersionsEvaluate
<1>5. CASE DeleteSchedule
  <2>1. Snapshots(ss') \subseteq Snapshots(ss) \cup {Nil}
    BY <1>1, <1>5, ViewCommit DEF DeleteSchedule
  <2> QED
    BY <1>1, <1>2, <2>1 DEF VersionsEvaluate
<1>6. CASE ss' = ss
  BY <1>1, <1>2, <1>6 DEF VersionsEvaluate
<1>7. ss' = ss \/ Deliver \/ (\E s \in Proposals : Propose(s)) \/ DeleteSchedule
  BY Zenon DEF vars, Next, Pass, Begin, Gone, Refused, List, Apply, PatchMissing, Publish, Finish,
       Others, Flip, DeliverWorkload, Own, Fail, FailHalfway, Restart
<1> QED
  BY <1>3, <1>4, <1>5, <1>6, <1>7

\* A pass reads what the cache has; a later version has it run again.
LEMMA NextHoldsLatest ==
  ASSUME ThereIsAWatch, TypeOK, HoldsLatest, [Next]_vars
  PROVE  HoldsLatest'
<1> SUFFICES ASSUME pc' # "idle"
             PROVE  /\ dir' = desired'
                    /\ (~queued' /\ Synced(ss')) => held' = Live(ss')
  BY DEF HoldsLatest
<1>1. CASE Begin
  <2>1. ss \in Views(Proposals \cup {Nil})
    BY DEF TypeOK
  <2>2. ss' = ss /\ held' = Cached(ss) /\ dir' = desired'
    BY <1>1 DEF Begin
  <2> QED
    BY <2>1, <2>2, ViewParts
<1>2. CASE ss' # ss
  <2>1. (queued' \/ ~Synced(ss')) /\ pc' = pc /\ dir' = dir /\ desired' = desired
    BY <1>2, NewsIsComing, Zenon DEF pass
  <2> QED
    BY <2>1 DEF HoldsLatest
<1>3. CASE ~Begin /\ ss' = ss
  <2>1. /\ pc # "idle" /\ held' = held /\ dir' = dir /\ desired' = desired
        /\ queued' = queued \/ queued' = TRUE
    <3>1. CASE Others
      <4>1. pc' = pc /\ held' = held /\ dir' = dir /\ desired' = desired
        BY <3>1, OthersSparePass
      <4>2. ~Fail /\ ~Restart /\ ~Flip /\ \A w \in Workloads : ~FailHalfway(w)
        BY HalfwayEnds DEF Fail, Restart, Flip, Return, AtRest, pass
      <4>3. queued' = queued \/ queued' = TRUE
        BY <3>1, <4>2, Zenon DEF Others, Deliver, DeliverWorkload, Propose, DeleteSchedule, Own
      <4> QED
        BY <4>1, <4>3, Zenon
    <3>2. CASE ~Others
      BY <1>3, <3>2, Zenon DEF vars, Next, Pass, Gone, Refused, List, Apply, PatchMissing,
           Publish, Finish, Return, pass
    <3> QED
      BY <3>1, <3>2
  <2>2. dir = desired /\ ((~queued /\ Synced(ss)) => held = Live(ss))
    BY <2>1, Zenon DEF HoldsLatest
  <2>3. ~queued' => ~queued
    BY <2>1, Zenon
  <2>4. (~queued' /\ Synced(ss)) => held' = Live(ss)
    BY <2>1, <2>2, <2>3, Zenon
  <2> QED
    BY <1>3, <2>1, <2>2, <2>4
<1> QED
  BY <1>1, <1>2, <1>3

-----------------------------------------------------------------------------
(* What a pass does.                                                       *)

\* While a pass goes on, the others leave what it did as it is.
LEMMA HeldIsAsAsked ==
  ASSUME TypeOK, Others, pc' # "idle", NEW w \in Workloads, w \notin unseen'
  PROVE  AsAsked(held, dir, w)' <=> AsAsked(held, dir, w)
<1>1. held' = held /\ dir' = dir
  BY OthersSparePass
<1>2. /\ Live(objects'[w]) = Live(objects[w])
      /\ (w \in slept' <=> w \in slept) /\ (w \in saved' <=> w \in saved)
  BY OthersAreSeen, HalfwayEnds
<1>3. PICK h, d : h = held /\ d = dir
  OBVIOUS
<1>4. AsAsked(h, d, w)' <=> AsAsked(h, d, w)
  BY <1>2, AsAskedStays
<1> QED
  BY <1>1, <1>3, <1>4 DEF AsAsked, Spared

\* Sleep or Restore of a workload that is in the cache leaves it as asked for.
LEMMA HandledIsDone ==
  ASSUME TypeOK, HoldsLatest, NEW w \in Workloads, Apply(w), Synced(objects[w]),
         InScope(held, w), ~held.dryRun
  PROVE  AsAsked(held, dir, w)'
<1>1. /\ objects[w] \in Views(Versions \cup {Nil})
      /\ desired \in {"asleep", "awake"}
      /\ slept \subseteq saved
  BY DEF TypeOK
<1>2. Cached(objects[w]) = Live(objects[w])
  BY <1>1, ViewParts
<1>3. Live(objects[w]) # Nil
  BY Zenon DEF InScope
<1>4. dir \in {"asleep", "awake"}
  BY <1>1 DEF HoldsLatest, Apply
<1>5. objects' = objects /\ held' = held /\ dir' = dir
  BY DEF Apply
<1>6. CASE Skips(w)
  <2>1. slept' = slept /\ saved' = saved
    BY <1>6 DEF Apply
  <2>2. CASE dir = "awake"
    BY <1>1, <1>2, <1>3, <1>5, <1>6, <2>1, <2>2 DEF Skips, AsAsked
  <2>3. CASE dir = "asleep"
    <3>1. Spared(held, w, Live(objects[w])) \/ (SleepsOnce(w) /\ w \in saved)
      BY <1>2, <1>3, <1>6, <2>3 DEF Skips
    <3> QED
      BY <1>5, <2>1, <2>3, <3>1 DEF AsAsked, Spared, SleepsOnce
  <2> QED
    BY <1>4, <2>2, <2>3
<1>7. CASE ~Skips(w)
  <2>1. BothWrites(w)
    BY <1>7 DEF Apply
  <2> QED
    BY <1>4, <1>5, <2>1 DEF BothWrites, AsAsked
<1> QED
  BY <1>6, <1>7

\* It leaves the others as they are.
LEMMA ApplyIsLocal ==
  ASSUME NEW x \in Workloads, Apply(x), NEW w \in Workloads, w # x
  PROVE  (w \in slept' <=> w \in slept) /\ (w \in saved' <=> w \in saved)
  BY DEF Apply, BothWrites

\* What is on the list is selected; what is done with is as asked for.
LEMMA NextListIsRight ==
  ASSUME TypeOK, ListedIsSynced, HoldsLatest, ListIsRight, [Next]_vars
  PROVE  ListIsRight'
<1> SUFFICES ASSUME pc' = "apply", NEW w \in Workloads, w \notin unseen'
             PROVE  /\ todo'[w] > 0 => InScope(held, w)'
                    /\ (InScope(held, w)' /\ todo'[w] = 0 /\ ~held'.dryRun) =>
                         AsAsked(held, dir, w)'
  BY DEF ListIsRight
<1>1. todo \in [Workloads -> Nat]
  BY TypeParts DEF PassOK
<1>2. CASE List
  <2>1. /\ held \in Proposals /\ held' = held /\ todo'[w] = Resolve(held)[w]
        /\ Synced(objects[w]) /\ objects' = objects
    BY <1>2, TypeParts DEF List, PassOK
  <2>2. Resolve(held)[w] > 0 <=> InScope(held, w)
    BY <2>1, ResolveIsScope
  <2>3. InScope(held, w)' <=> InScope(held, w)
    BY <2>1, HeldScopeStays
  <2>4. Resolve(held)[w] \in Nat
    BY <2>1, ResolveTypes
  <2> QED
    BY <2>1, <2>2, <2>3, <2>4
<1>3. ASSUME NEW x \in Workloads, Apply(x)
      PROVE  /\ todo'[w] > 0 => InScope(held, w)'
             /\ (InScope(held, w)' /\ todo'[w] = 0 /\ ~held'.dryRun) =>
                  AsAsked(held, dir, w)'
  <2>1. /\ pc = "apply" /\ held' = held /\ dir' = dir /\ objects' = objects
        /\ unseen' = unseen /\ todo[x] > 0
        /\ todo' = [todo EXCEPT ![x] = @ - 1]
    BY <1>3 DEF Apply, IsNext
  <2>2. InScope(held, w)' <=> InScope(held, w)
    BY <2>1, HeldScopeStays
  <2>3. /\ todo[w] > 0 => InScope(held, w)
        /\ (InScope(held, w) /\ todo[w] = 0 /\ ~held.dryRun) => AsAsked(held, dir, w)
        /\ Synced(objects[w])
    BY <2>1 DEF ListIsRight, ListedIsSynced
  <2>4. CASE x = w
    <3>1. InScope(held, w)
      BY <2>1, <2>3, <2>4
    <3>2. ~held.dryRun => AsAsked(held, dir, w)'
      BY <1>3, <2>3, <2>4, <3>1, HandledIsDone
    <3> QED
      BY <2>1, <2>2, <3>1, <3>2
  <2>5. CASE x # w
    <3>1. todo'[w] = todo[w]
      BY <1>1, <2>1, <2>5
    <3>2. AsAsked(held, dir, w)' <=> AsAsked(held, dir, w)
      <4>1. PICK h, d : h = held /\ d = dir
        OBVIOUS
      <4>2. AsAsked(h, d, w)' <=> AsAsked(h, d, w)
        BY <1>3, <2>1, <2>5, ApplyIsLocal, AsAskedStays
      <4> QED
        BY <2>1, <4>1, <4>2 DEF AsAsked, Spared
    <3> QED
      BY <2>1, <2>2, <2>3, <3>1, <3>2
  <2> QED
    BY <2>4, <2>5
<1>4. CASE Others
  <2>1. pc = "apply" /\ held' = held /\ dir' = dir /\ todo' = todo
    BY <1>4, OthersSparePass
  <2>2. w \notin unseen /\ Live(objects'[w]) = Live(objects[w])
    BY <1>4, OthersAreSeen, HalfwayEnds
  <2>3. InScope(held, w)' <=> InScope(held, w)
    BY <2>1, <2>2, HeldScopeStays
  <2>4. AsAsked(held, dir, w)' <=> AsAsked(held, dir, w)
    BY <1>4, <2>1, HeldIsAsAsked
  <2>5. /\ todo[w] > 0 => InScope(held, w)
        /\ (InScope(held, w) /\ todo[w] = 0 /\ ~held.dryRun) => AsAsked(held, dir, w)
    BY <2>1, <2>2 DEF ListIsRight
  <2> QED
    BY <2>1, <2>3, <2>4, <2>5
<1>5. CASE UNCHANGED vars
  <2>1. AsAsked(held, dir, w)' <=> AsAsked(held, dir, w)
    BY <1>5 DEF vars, pass, AsAsked, Spared, SleepsOnce
  <2> QED
    BY <1>5, <2>1 DEF vars, pass, ListIsRight, InScope
<1>6. List \/ (\E x \in Workloads : Apply(x)) \/ Others \/ UNCHANGED vars
  BY Zenon DEF Next, Pass, Begin, Gone, Refused, PatchMissing, Publish, Finish, Return, pass
<1> QED
  BY <1>2, <1>3, <1>4, <1>5, <1>6

\* When the list is done with, everything on it is as asked for.
LEMMA NextListIsDone ==
  ASSUME TypeOK, ListIsRight, ListIsDone, [Next]_vars
  PROVE  ListIsDone'
<1> SUFFICES ASSUME pc' = "status", ~held'.dryRun, NEW w \in Workloads, w \notin unseen',
                    InScope(held, w)'
             PROVE  AsAsked(held, dir, w)'
  BY DEF ListIsDone
<1>1. CASE Publish
  <2>1. /\ pc = "apply" /\ todo[w] = 0 /\ held' = held /\ dir' = dir /\ objects' = objects
        /\ unseen' = unseen /\ slept' = slept /\ saved' = saved
    BY <1>1 DEF Publish, None
  <2>2. InScope(held, w)
    BY <2>1, HeldScopeStays
  <2>3. AsAsked(held, dir, w)
    BY <2>1, <2>2 DEF ListIsRight
  <2> QED
    BY <2>1, <2>3 DEF AsAsked, Spared, SleepsOnce
<1>2. CASE Others
  <2>1. pc = "status" /\ held' = held /\ dir' = dir
    BY <1>2, OthersSparePass
  <2>2. w \notin unseen /\ Live(objects'[w]) = Live(objects[w])
    BY <1>2, OthersAreSeen, HalfwayEnds
  <2>3. InScope(held, w)
    BY <2>1, <2>2, HeldScopeStays
  <2>4. AsAsked(held, dir, w)
    BY <2>1, <2>2, <2>3 DEF ListIsDone
  <2> QED
    BY <1>2, <2>1, <2>4, HeldIsAsAsked
<1>3. CASE UNCHANGED vars
  <2>1. AsAsked(held, dir, w)' <=> AsAsked(held, dir, w)
    BY <1>3 DEF vars, pass, AsAsked, Spared, SleepsOnce
  <2> QED
    BY <1>3, <2>1 DEF vars, pass, ListIsDone, InScope
<1>4. Publish \/ Others \/ UNCHANGED vars
  BY Zenon DEF Next, Pass, Begin, Gone, Refused, List, Apply, PatchMissing, Finish, Return, pass
<1> QED
  BY <1>1, <1>2, <1>3, <1>4

\* The number of refs is the number of mentions.
LEMMA NextCountIsRight ==
  ASSUME TypeOK, CountIsRight, [Next]_vars
  PROVE  CountIsRight'
<1> SUFFICES ASSUME pc' \in {"apply", "status"}, unseen' = {}
             PROVE  count' = Mentions(held)'
  BY DEF CountIsRight
<1>1. PICK h : h = held'
  OBVIOUS
<1>2. Mentions(held)' = Mentions(h)'
  BY <1>1 DEF Mentions, InScope
<1>3. CASE List
  <2>1. /\ h \in Proposals /\ held = h /\ objects' = objects /\ count' = len(Resolve(h))
        /\ \A w \in Workloads : Synced(objects[w])
    BY <1>1, <1>3, TypeParts DEF List, PassOK
  <2>2. count' = Mentions(h)
    BY <2>1, ResolveIsMentions
  <2>3. Mentions(h)' = Mentions(h)
    BY <2>1, MentionsStay
  <2> QED
    BY <1>2, <2>2, <2>3
<1>4. CASE ~List
  <2>1. /\ pc \in {"apply", "status"} /\ held = h /\ count' = count /\ unseen = {}
        /\ \A w \in Workloads : Live(objects'[w]) = Live(objects[w])
    <3>1. CASE Others
      BY <1>1, <3>1, OthersAreSeen, OthersSparePass, HalfwayEnds
    <3>2. CASE UNCHANGED vars
      BY <1>1, <3>2 DEF vars, pass
    <3>3. ASSUME NEW w \in Workloads, Apply(w)
          PROVE  /\ pc \in {"apply", "status"} /\ held' = held /\ count' = count
                 /\ unseen' = unseen /\ objects' = objects
      BY <3>3 DEF Apply
    <3>4. CASE Publish
      BY <1>1, <3>4 DEF Publish
    <3>5. Others \/ UNCHANGED vars \/ (\E w \in Workloads : Apply(w)) \/ Publish
      <4>1. pc' # "idle" /\ pc' # "resolve"
        OBVIOUS
      <4> QED
        BY <1>4, <4>1, Zenon DEF Next, Pass, Begin, Gone, Refused, PatchMissing, Finish, Return,
             pass
    <3> QED
      BY <1>1, <3>1, <3>2, <3>3, <3>4, <3>5
  <2>2. Mentions(h)' = Mentions(h)
    BY <2>1, MentionsStay
  <2>3. count = Mentions(h)
    BY <2>1 DEF CountIsRight
  <2> QED
    BY <1>2, <2>1, <2>2, <2>3
<1> QED
  BY <1>3, <1>4

\* metrics.Set is followed by the status update and by nothing else.
LEMMA NextGaugesAreSet ==
  ASSUME TypeOK, GaugesAreSet, [Next]_vars
  PROVE  GaugesAreSet'
<1> SUFFICES ASSUME pc' = "status"
             PROVE  gauges' = Published(dir', count')
  BY DEF GaugesAreSet, Published
<1>1. CASE Publish
  BY <1>1 DEF Publish, Published
<1>2. CASE Others
  BY <1>2, OthersSparePass DEF GaugesAreSet
<1>3. CASE UNCHANGED vars
  BY <1>3 DEF vars, pass, GaugesAreSet
<1>4. Publish \/ Others \/ UNCHANGED vars
  BY Zenon DEF Next, Pass, Begin, Gone, Refused, List, Apply, PatchMissing, Finish, Return, pass
<1> QED
  BY <1>1, <1>2, <1>3, <1>4

-----------------------------------------------------------------------------
(* At rest.                                                                *)

\* How the operator comes to rest, or stays at rest.
LEMMA ComesToRest ==
  ASSUME ThereIsAWatch, TypeOK, HoldsLatest, [Next]_vars, AtRest'
  PROVE  \/ /\ Finish /\ Live(ss) # Nil /\ held = Live(ss) /\ dir = desired
            /\ UNCHANGED <<ss, objects, slept, saved, desired, unseen, gauges>>
         \/ Live(ss)' = Nil /\ (gauges' = Nil \/ (AtRest /\ ss' = ss /\ gauges' = gauges))
         \/ /\ AtRest /\ UNCHANGED <<ss, desired, gauges>>
            /\ Others \/ UNCHANGED <<objects, slept, saved, unseen>>
<1>1. pc' = "idle" /\ ~queued' /\ Synced(ss')
  BY DEF AtRest
<1>2. ss' = ss
  BY <1>1, NewsIsComing
<1>3. Live(ss) = Cached(ss)
  BY <1>1, <1>2, ViewParts DEF TypeOK
<1>4. CASE Finish
  <2>1. /\ pc = "status" /\ ~queued /\ UNCHANGED <<ss, objects, slept, saved, desired, unseen, gauges>>
    BY <1>1, <1>4 DEF Finish
  <2>2. held = Live(ss) /\ dir = desired
    BY <1>1, <1>2, <2>1 DEF HoldsLatest
  <2>3. held # Nil
    BY <2>1 DEF TypeOK
  <2> QED
    BY <1>4, <2>1, <2>2, <2>3
<1>5. CASE Gone
  BY <1>2, <1>3, <1>5 DEF Gone
<1>6. CASE Restart
  BY <1>1, <1>2, <1>3, <1>6 DEF Restart
<1>7. CASE Flip
  BY <1>1, <1>2, <1>7 DEF Flip, pass
<1>8. CASE UNCHANGED vars
  BY <1>1, <1>2, <1>8 DEF vars, pass, AtRest
<1>9. CASE Others /\ ~Flip /\ ~Restart
  <2>1. ~Fail /\ \A w \in Workloads : ~FailHalfway(w)
    BY <1>1, Zenon DEF Fail, FailHalfway
  <2>2. pc' = pc /\ (queued' = queued \/ queued' = TRUE) /\ UNCHANGED <<desired, gauges>>
    BY <1>9, <2>1, Zenon DEF Others, Deliver, DeliverWorkload, Propose, DeleteSchedule, Own, pass
  <2>3. AtRest
    <3>1. ~queued
      BY <1>1, <2>2, Zenon
    <3>2. pc = "idle" /\ Synced(ss)
      BY <1>1, <1>2, <2>2
    <3> QED
      BY <3>1, <3>2, Zenon DEF AtRest
  <2> QED
    BY <1>2, <1>9, <2>2, <2>3, Zenon
<1>10. Finish \/ Gone \/ Restart \/ Flip \/ UNCHANGED vars \/ (Others /\ ~Flip /\ ~Restart)
  <2>1. pc' # "resolve" /\ pc' # "apply" /\ pc' # "status"
    BY <1>1
  <2>2. \A w \in Workloads : ~Apply(w)
    BY <2>1 DEF Apply
  <2> QED
    BY <1>1, <2>1, <2>2, Zenon DEF Next, Pass, Begin, Refused, List, PatchMissing, Publish
<1> QED
  BY <1>4, <1>5, <1>6, <1>7, <1>8, <1>9, <1>10, Zenon

\* A pass that is over leaves the spec in force.
LEMMA NextInForce ==
  ASSUME ThereIsAWatch, TypeOK, HoldsLatest, ListIsDone, InForce, [Next]_vars
  PROVE  InForce'
<1> SUFFICES ASSUME AtRest', Live(ss)' # Nil, ~(Live(ss).dryRun)',
                    NEW w \in Workloads, w \notin unseen', InScope(Live(ss), w)'
             PROVE  AsAsked(Live(ss), desired, w)'
  BY DEF InForce
<1>1. PICK s, d : s = Live(ss)' /\ d = desired'
  OBVIOUS
<1>2. InScope(s, w)' /\ s # Nil /\ ~s.dryRun
  BY <1>1 DEF InScope
<1>3. AsAsked(Live(ss), desired, w)' <=> AsAsked(s, d, w)'
  BY <1>1 DEF AsAsked, Spared
<1>4. CASE /\ Finish /\ Live(ss) # Nil /\ held = Live(ss) /\ dir = desired
           /\ UNCHANGED <<ss, objects, slept, saved, desired, unseen, gauges>>
  <2>1. pc = "status" /\ held = s /\ dir = d
    BY <1>1, <1>4 DEF Finish
  <2>2. InScope(s, w)
    BY <1>2, <1>4, ScopeStays
  <2>3. AsAsked(s, d, w)
    BY <1>2, <1>4, <2>1, <2>2 DEF ListIsDone
  <2> QED
    BY <1>3, <1>4, <2>3, AsAskedStays
<1>5. CASE /\ AtRest /\ UNCHANGED <<ss, desired, gauges>>
           /\ Others \/ UNCHANGED <<objects, slept, saved, unseen>>
  <2>1. /\ w \notin unseen /\ Live(objects'[w]) = Live(objects[w])
        /\ (w \in slept' <=> w \in slept) /\ (w \in saved' <=> w \in saved)
    BY <1>5, OthersAreSeen, HalfwayEnds DEF AtRest
  <2>2. InScope(s, w)
    BY <1>2, <2>1, ScopeStays
  <2>3. s = Live(ss) /\ d = desired
    BY <1>1, <1>5
  <2>4. AsAsked(s, d, w)
    BY <1>2, <1>5, <2>1, <2>2, <2>3 DEF InForce
  <2> QED
    BY <1>3, <2>1, <2>4, AsAskedStays
<1> QED
  BY <1>4, <1>5, ComesToRest

\* The gauges stay what the last pass made them, or are dropped with the
\* schedule.
LEMMA NextGaugesCount ==
  ASSUME ThereIsAWatch, TypeOK, HoldsLatest, CountIsRight, GaugesAreSet, GaugesCount,
         [Next]_vars
  PROVE  GaugesCount'
<1> SUFFICES ASSUME AtRest'
             PROVE  IF Live(ss)' = Nil THEN gauges' = Nil
                    ELSE unseen' = {} => gauges' = Published(desired', Mentions(Live(ss))')
  BY DEF GaugesCount, Published
<1>1. PICK s : s = Live(ss)'
  OBVIOUS
<1>2. Mentions(Live(ss))' = Mentions(s)'
  BY <1>1 DEF Mentions, InScope
<1>3. CASE /\ Finish /\ Live(ss) # Nil /\ held = Live(ss) /\ dir = desired
           /\ UNCHANGED <<ss, objects, slept, saved, desired, unseen, gauges>>
  <2>1. pc = "status" /\ held = s /\ s # Nil
    BY <1>1, <1>3 DEF Finish
  <2>2. Mentions(s)' = Mentions(s)
    BY <1>3, MentionsStay
  <2>3. gauges = Published(dir, count)
    BY <2>1 DEF GaugesAreSet
  <2>4. unseen = {} => count = Mentions(s)
    BY <2>1 DEF CountIsRight
  <2> QED
    BY <1>1, <1>2, <1>3, <2>1, <2>2, <2>3, <2>4
<1>4. CASE Live(ss)' = Nil /\ (gauges' = Nil \/ (AtRest /\ ss' = ss /\ gauges' = gauges))
  <2>1. gauges' = Nil
    BY <1>4 DEF GaugesCount
  <2> QED
    BY <1>4, <2>1
<1>5. CASE /\ AtRest /\ UNCHANGED <<ss, desired, gauges>>
           /\ Others \/ UNCHANGED <<objects, slept, saved, unseen>>
  <2>1. s = Live(ss)
    BY <1>1, <1>5
  <2>2. CASE s = Nil
    BY <1>1, <1>5, <2>1, <2>2 DEF GaugesCount
  <2>3. CASE s # Nil /\ unseen' = {}
    <3>1. unseen = {} /\ \A w \in Workloads : Live(objects'[w]) = Live(objects[w])
      BY <1>5, <2>3, OthersAreSeen, HalfwayEnds DEF AtRest
    <3>2. Mentions(s)' = Mentions(s)
      BY <3>1, MentionsStay
    <3>3. gauges = Published(desired, Mentions(s))
      BY <1>5, <2>1, <2>3, <3>1 DEF GaugesCount
    <3> QED
      BY <1>1, <1>2, <1>5, <2>3, <3>2, <3>3
  <2> QED
    BY <1>1, <1>2, <2>2, <2>3
<1> QED
  BY <1>3, <1>4, <1>5, ComesToRest

-----------------------------------------------------------------------------
(* The theorems.                                                           *)

\* Inv holds at the start.
LEMMA InitInv == Init => Inv
<1> SUFFICES ASSUME Init
             PROVE  Inv
  OBVIOUS
<1>1. TypeOK
  BY InitTypeOK
<1>2. /\ pc = "idle" /\ held = Nil /\ gauges = Nil /\ Live(ss) = Nil
      /\ Snapshots(ss) = {Nil}
  BY MaxLagAssumption DEF Init, Live, Snapshots
<1>3. ListedIsSynced
  BY DEF Init, ListedIsSynced, Synced
<1>4. VersionsEvaluate
  BY <1>2 DEF VersionsEvaluate
<1>5. /\ HoldsLatest /\ ListIsRight /\ ListIsDone /\ CountIsRight /\ GaugesAreSet
      /\ InForce /\ GaugesCount
  BY <1>2 DEF HoldsLatest, ListIsRight, ListIsDone, CountIsRight, GaugesAreSet, InForce, GaugesCount
<1> QED
  BY <1>1, <1>3, <1>4, <1>5 DEF Inv

\* Inv is inductive.
LEMMA NextInv ==
  ASSUME ThereIsAWatch, Inv, [Next]_vars
  PROVE  Inv'
<1>1. /\ TypeOK /\ ListedIsSynced /\ VersionsEvaluate /\ HoldsLatest /\ ListIsRight
      /\ ListIsDone /\ CountIsRight /\ GaugesAreSet /\ InForce /\ GaugesCount
  BY DEF Inv
<1>2. TypeOK'
  BY <1>1, NextTypeOK
<1>3. ListedIsSynced' /\ VersionsEvaluate' /\ HoldsLatest'
  BY <1>1, NextListedIsSynced, NextVersionsEvaluate, NextHoldsLatest
<1>4. ListIsRight' /\ ListIsDone' /\ CountIsRight' /\ GaugesAreSet'
  BY <1>1, NextListIsRight, NextListIsDone, NextCountIsRight, NextGaugesAreSet
<1>5. InForce' /\ GaugesCount'
  BY <1>1, NextInForce, NextGaugesCount
<1> QED
  BY <1>2, <1>3, <1>4, <1>5 DEF Inv

\* Where there is a watch, Inv holds.
THEOREM PassesGoByTheSpec ==
  ASSUME ThereIsAWatch
  PROVE  Spec => []Inv
  BY InitInv, NextInv, PTL DEF Spec

\* "At rest the live spec is in force", for any workloads, specs and number of
\* changes: retargeting, exclusions, deletion and recreation included, and
\* handlers that spare a workload, fail, or stop half way.
THEOREM SpecIsInForce ==
  ASSUME ThereIsAWatch
  PROVE  Spec => []InForce
<1>1. Inv => InForce
  BY DEF Inv
<1> QED
  BY <1>1, PassesGoByTheSpec, PTL

\* "Spec passed admission, so this is unexpected" (the controller): with the
\* webhook in place from the start Evaluate never fails, whatever an admitted
\* spec is changed to and whenever the operator reads it.
THEOREM AdmissionSuffices == Spec => []AdmittedSpecsEvaluate
<1>1. Init => (TypeOK /\ VersionsEvaluate)
  BY InitInv DEF Inv
<1>2. TypeOK /\ VersionsEvaluate /\ [Next]_vars => (TypeOK /\ VersionsEvaluate)'
  BY NextTypeOK, NextVersionsEvaluate
<1>3. VersionsEvaluate => AdmittedSpecsEvaluate
  BY DEF VersionsEvaluate, AdmittedSpecsEvaluate
<1> QED
  BY <1>1, <1>2, <1>3, PTL DEF Spec

\* metrics.Set is given the number of targets and one direction for all of them:
\* at rest the gauges count the refs of the live spec in that direction, whether
\* or not their handlers put them to sleep.
THEOREM GaugesCountTargets ==
  ASSUME ThereIsAWatch
  PROVE  Spec => []GaugesCount
<1>1. Inv => GaugesCount
  BY DEF Inv
<1> QED
  BY <1>1, PassesGoByTheSpec, PTL

\* "Exclusions are always dropped, regardless of mode" (user-guide.md), and so
\* is all that is not targeted: Sleeper.Apply gets what Resolve returned.
THEOREM OthersAreLeftAlone ==
  ASSUME ThereIsAWatch
  PROVE  Spec => LeavesOthersAlone
<1>1. ASSUME Inv, [Next]_vars
      PROVE  [\A w \in Workloads :
                ((w \in slept) # (w \in slept') \/ (w \in saved) # (w \in saved')) =>
                  (pc = "apply" /\ InScope(held, w)) \/ w \in unseen \cup unseen']_vars
  <2> SUFFICES ASSUME NEW w \in Workloads,
                      (w \in slept) # (w \in slept') \/ (w \in saved) # (w \in saved'),
                      w \notin unseen, w \notin unseen'
               PROVE  pc = "apply" /\ InScope(held, w)
    BY Zenon
  <2>1. TypeOK /\ ListIsRight
    BY <1>1, Zenon DEF Inv
  <2>2. PICK x \in Workloads : Apply(x) \/ FailHalfway(x)
    <3>1. ~(Others /\ \A x \in Workloads : ~FailHalfway(x))
      BY <2>1, OthersAreSeen
    <3>2. slept' # slept \/ saved' # saved
      OBVIOUS
    <3> QED
      BY <1>1, <3>1, <3>2, Zenon DEF Next, vars, Pass, Begin, Gone, Refused, List, PatchMissing,
         Publish, Finish
  <2>3. pc = "apply" /\ todo[x] > 0
    BY <2>2 DEF Apply, FailHalfway, IsNext
  <2>4. x = w
    BY <2>2 DEF Apply, FailHalfway, FirstWrite, BothWrites
  <2> QED
    BY <2>1, <2>3, <2>4 DEF ListIsRight
<1> QED
  BY <1>1, PassesGoByTheSpec, PTL DEF Spec, LeavesOthersAlone
=============================================================================
