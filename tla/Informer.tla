------------------------------ MODULE Informer ------------------------------
(***************************************************************************)
(* The manager's client reads from the informer cache and writes to the    *)
(* API server, so a read may return an older version of an object than the *)
(* one a write lands on.  One object is a VIEW: the non-empty sequence of  *)
(* its versions from the one in the cache to the one in etcd.  The watch   *)
(* delivers versions in order; MaxLag bounds how many can be undelivered.  *)
(* This is controller-runtime, not the repository's code: it is modelled   *)
(* from how the code under src/ uses it.                                   *)
(***************************************************************************)
EXTENDS Naturals, Sequences

CONSTANT MaxLag        \* undelivered versions per object; 0 = always fresh

ASSUME MaxLagAssumption == MaxLag \in Nat

\* The views of an object whose versions are taken from V.
Views(V) == {view \in Seq(V) : Len(view) \in 1 .. MaxLag + 1}

\* What client.Get returns.
Cached(view) == view[1]

\* What the API server holds.
Live(view) == view[Len(view)]

\* The cache holds the latest resourceVersion: an Update built from a cached
\* read does not fail with Conflict.
Synced(view) == Len(view) = 1

\* Every version still to be read or delivered.
Snapshots(view) == {view[i] : i \in DOMAIN view}

\* A write lands: a new version, which the watch has yet to deliver (the
\* oldest undelivered one arrives when the lag is at its bound).
Commit(view, version) ==
  IF Len(view) <= MaxLag THEN Append(view, version)
                         ELSE Append(Tail(view), version)

\* A write that changes nothing creates no version.
CommitChange(view, version) ==
  IF version = Live(view) THEN view ELSE Commit(view, version)

\* One watch event reaches the cache.
Delivered(view) == Tail(view)
=============================================================================
