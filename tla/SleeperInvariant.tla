-------------------------- MODULE SleeperInvariant --------------------------
(***************************************************************************)
(* Why nothing is lost.  NothingLost is not inductive: it says nothing     *)
(* about the stale versions the worker may still read.  Between two        *)
(* settlings of the cache all passes go in one direction, and that is what *)
(* makes stale reads harmless: while passes put to sleep, entries are only *)
(* added and an object without an entry has not been touched; while they   *)
(* wake, entries are only removed and an object changes only to its        *)
(* original.                                                               *)
(***************************************************************************)
EXTENDS Sleeper

\* Schedules that target the same workload have the same checkpoint Secret:
\* overlapping schedules of different names do lose originals.
OverlapSharesSecret ==
  \A w \in Workloads : \A s, t \in TargetedBy(w) : SecretOf[s] = SecretOf[t]

SecretSnapshots(s) == Snapshots(secrets[SecretOf[s]])

\* Identities are given out once.
UidsGivenOut ==
  /\ \A w \in Workloads : \A o \in Snapshots(objs[w]) : o # Nil => o.uid <= lastUid[w]
  /\ \A s \in Schedules, w \in Workloads, u \in Uids :
       \A sec \in SecretSnapshots(s) : u > lastUid[w] => sec[w][u] = Nil

\* The checkpoint holds the original or nothing, and then the workload does.
Recoverable ==
  \A w \in Workloads :
    LiveObj(w) # Nil =>
      /\ orig[w] # Nil /\ Captured(Kind[w], orig[w]) = orig[w]
      /\ \A s \in TargetedBy(w) : LiveEntry(s, w, LiveObj(w).uid) \in {Nil, orig[w]}
      /\ \/ \E s \in TargetedBy(w) : LiveEntry(s, w, LiveObj(w).uid) # Nil
         \/ Captured(Kind[w], LiveObj(w).val) = orig[w]

\* Since the cache last settled, no object was created or replaced.
SameIdentity ==
  trust # "none" =>
    \A w \in Workloads :
      LiveObj(w) # Nil =>
        \A o \in Snapshots(objs[w]) : o # Nil /\ o.uid = LiveObj(w).uid

\* While passes put to sleep.
AsleepMode ==
  trust = "asleep" =>
    \A w \in Workloads, s \in Schedules :
      (LiveObj(w) # Nil /\ s \in TargetedBy(w) /\ LiveEntry(s, w, LiveObj(w).uid) = Nil) =>
        /\ \A sec \in SecretSnapshots(s) : sec[w][LiveObj(w).uid] = Nil
        /\ \A o \in Snapshots(objs[w]) : Captured(Kind[w], o.val) = orig[w]

\* While passes wake.
AwakeMode ==
  trust = "awake" =>
    \A w \in Workloads :
      LiveObj(w) # Nil =>
        /\ \A s \in TargetedBy(w) : \A sec \in SecretSnapshots(s) :
             /\ sec[w][LiveObj(w).uid] \in {Nil, orig[w]}
             /\ LiveEntry(s, w, LiveObj(w).uid) # Nil => sec[w][LiveObj(w).uid] # Nil
        /\ \A o \in Snapshots(objs[w]) :
             o.val = LiveObj(w).val \/ Captured(Kind[w], LiveObj(w).val) = orig[w]

\* What the worker holds in its hands.
WorkerKnows ==
  /\ pc # "idle" => trust = dir
  /\ pc \in Holding => obj.uid <= lastUid[ref]
  /\ (pc \in Holding /\ LiveObj(ref) # Nil) =>
       /\ obj.uid = LiveObj(ref).uid
       /\ (dir = "asleep" /\ LiveEntry(cur, ref, obj.uid) = Nil) =>
            Captured(Kind[ref], obj.val) = orig[ref]
       /\ (dir = "asleep" /\ pc = "patch") => LiveEntry(cur, ref, obj.uid) # Nil
       /\ dir = "awake" =>
            \/ obj.val = LiveObj(ref).val
            \/ Captured(Kind[ref], LiveObj(ref).val) = orig[ref]
       /\ (dir = "awake" /\ pc = "patch") => val = orig[ref]
       /\ pc = "delete" => Captured(Kind[ref], LiveObj(ref).val) = orig[ref]

\* A dry run never gets to a step that writes.
DryHands ==
  dry => /\ pc \notin {"set", "delete"}
         /\ pc = "patch" => dir = "asleep"

ClusterKnows == UidsGivenOut /\ Recoverable /\ SameIdentity /\ AsleepMode /\ AwakeMode

Inv == TypeOK /\ DryHands /\ ClusterKnows /\ WorkerKnows
=============================================================================
