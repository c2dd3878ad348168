--------------------------- MODULE InformerProofs ---------------------------
(* What writes and watch events do to a view.                               *)
EXTENDS Informer, TLAPS

\* The parts of a view are versions.
LEMMA ViewParts ==
  ASSUME NEW V, NEW view \in Views(V)
  PROVE  /\ Cached(view) \in V /\ Live(view) \in V
         /\ Cached(view) \in Snapshots(view) /\ Live(view) \in Snapshots(view)
         /\ Snapshots(view) \subseteq V
         /\ Synced(view) => Live(view) = Cached(view)
         /\ Synced(view) => Snapshots(view) = {Live(view)}
  BY MaxLagAssumption DEF Views, Cached, Live, Snapshots, Synced

\* A single version is a view.
LEMMA ViewOfOne ==
  ASSUME NEW V, NEW x \in V
  PROVE  <<x>> \in Views(V) /\ Live(<<x>>) = x /\ Snapshots(<<x>>) = {x}
  BY MaxLagAssumption DEF Views, Live, Snapshots

\* A write becomes the live version and adds no other.
LEMMA ViewCommit ==
  ASSUME NEW V, NEW view \in Views(V), NEW x \in V
  PROVE  /\ Commit(view, x) \in Views(V)
         /\ Live(Commit(view, x)) = x
         /\ Snapshots(Commit(view, x)) \subseteq Snapshots(view) \cup {x}
<1> USE MaxLagAssumption
<1>1. CASE Len(view) <= MaxLag
  BY <1>1 DEF Views, Commit, Live, Snapshots
<1>2. CASE ~(Len(view) <= MaxLag)
  <2>1. /\ Tail(view) \in Seq(V) /\ Len(Tail(view)) = Len(view) - 1
        /\ Len(Tail(view)) = MaxLag
        /\ \A i \in 1 .. Len(view) - 1 : Tail(view)[i] = view[i + 1]
    BY <1>2 DEF Views
  <2>2. /\ Commit(view, x) \in Seq(V) /\ Len(Commit(view, x)) = Len(view)
        /\ \A i \in 1 .. Len(view) - 1 : Commit(view, x)[i] = view[i + 1]
        /\ Commit(view, x)[Len(view)] = x
    BY <1>2, <2>1 DEF Commit, Views
  <2>3. Commit(view, x) \in Views(V)
    BY <2>2 DEF Views
  <2>4. Live(Commit(view, x)) = x
    BY <2>2 DEF Live
  <2>5. Snapshots(Commit(view, x)) \subseteq Snapshots(view) \cup {x}
    BY <2>2 DEF Snapshots, Views
  <2> QED
    BY <2>3, <2>4, <2>5
<1> QED
  BY <1>1, <1>2

\* A write that may change nothing.
LEMMA ViewCommitChange ==
  ASSUME NEW V, NEW view \in Views(V), NEW x \in V
  PROVE  /\ CommitChange(view, x) \in Views(V)
         /\ Live(CommitChange(view, x)) = x
         /\ Snapshots(CommitChange(view, x)) \subseteq Snapshots(view) \cup {x}
  BY ViewCommit DEF CommitChange

\* Where there is a watch, it has the write to deliver.
LEMMA CommitIsNews ==
  ASSUME NEW V, NEW view \in Views(V), NEW x, MaxLag > 0
  PROVE  ~Synced(Commit(view, x))
<1> USE MaxLagAssumption
<1>1. view \in Seq(V \cup {x}) /\ Len(view) \in 1 .. MaxLag + 1
  BY DEF Views
<1>2. CASE Len(view) <= MaxLag
  BY <1>1, <1>2 DEF Commit, Synced
<1>3. CASE ~(Len(view) <= MaxLag)
  <2>1. Tail(view) \in Seq(V \cup {x}) /\ Len(Tail(view)) = MaxLag
    BY <1>1, <1>3
  <2> QED
    BY <1>3, <2>1 DEF Commit, Synced
<1> QED
  BY <1>2, <1>3

\* A watch event leaves the live version alone and forgets the oldest one.
LEMMA ViewDelivered ==
  ASSUME NEW V, NEW view \in Views(V), ~Synced(view)
  PROVE  /\ Delivered(view) \in Views(V)
         /\ Live(Delivered(view)) = Live(view)
         /\ Snapshots(Delivered(view)) \subseteq Snapshots(view)
<1> USE MaxLagAssumption
<1>1. /\ view \in Seq(V) /\ Len(view) \in Nat
      /\ Len(view) >= 2 /\ Len(view) <= MaxLag + 1
  <2>1. view \in Seq(V) /\ Len(view) \in 1 .. MaxLag + 1
    BY DEF Views
  <2>2. Len(view) # 1
    BY DEF Synced
  <2> QED
    BY <2>1, <2>2
<1>2. /\ Tail(view) \in Seq(V) /\ Len(Tail(view)) = Len(view) - 1
      /\ \A i \in 1 .. Len(view) - 1 : Tail(view)[i] = view[i + 1]
  BY <1>1
<1> QED
  BY <1>1, <1>2 DEF Delivered, Views, Live, Snapshots
=============================================================================
