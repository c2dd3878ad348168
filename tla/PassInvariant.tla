---------------------------- MODULE PassInvariant ----------------------------
(***************************************************************************)
(* What a pass has achieved, and spared, by the time it is at some ref.    *)
(* The properties of a finished pass say nothing about a pass half way;    *)
(* this does, and with what the cache may show meanwhile it is inductive.  *)
(***************************************************************************)
EXTENDS SleeperInvariant

\* What Sleep takes for asleep: for a DaemonSet, any value of the sentinel.
SeenAsleep(kind, v) == IF kind = "DaemonSet" THEN v[sentinelKey] # Nil
                                             ELSE IsAsleep(kind, v)

\* Only StatefulSets and Jobs have something to lose.
UnsafeKinds ==
  \A w \in Workloads : \A o \in Snapshots(objs[w]) :
    (o # Nil /\ o.unsafe) => Kind[w] \in {"StatefulSet", "Job"}

\* Since the cache last settled, what makes a workload unsafe did not change.
SameSafety ==
  trust # "none" =>
    \A w \in Workloads :
      LiveObj(w) # Nil => \A o \in Snapshots(objs[w]) : o.unsafe = LiveObj(w).unsafe

\* While passes put to sleep, what was seen asleep is asleep.
StaysAsleep ==
  trust = "asleep" =>
    \A w \in Workloads :
      (LiveObj(w) # Nil /\ ~SleepsOnce(Kind[w])) =>
        \A o \in Snapshots(objs[w]) :
          SeenAsleep(Kind[w], o.val) => SeenAsleep(Kind[w], LiveObj(w).val)

\* What a pass makes of a target that is there.
Handled(w) ==
  (LiveObj(w) # Nil /\ ~dry) =>
    /\ dir = "awake" => /\ Captured(Kind[w], LiveObj(w).val) = orig[w]
                        /\ LiveEntry(cur, w, LiveObj(w).uid) = Nil
    /\ (dir = "asleep" /\ ~SleepsOnce(Kind[w])) =>
         LiveObj(w).unsafe \/ SeenAsleep(Kind[w], LiveObj(w).val)

\* The pass has handled the targets it went past, and has nothing to do for
\* those that Resolve did not list.
Progress ==
  /\ pc # "idle" => /\ \A w \in Targets(cur) : w \notin listed => LiveObj(w) = Nil
                    /\ \A i \in 1 .. Len(TargetRefs[cur]) :
                         i < at => Handled(TargetRefs[cur][i])
  /\ pc = "done" => at = Len(TargetRefs[cur]) + 1

\* The handler past its checks: the object may be put to sleep, and is asleep
\* if the version in hand is.
HandlerKnows ==
  /\ pc = "guard" => dir = "asleep"
  /\ (pc \in Holding \cup {"load"} /\ dir = "asleep") =>
       /\ (LiveObj(ref) # Nil /\ (pc # "load" \/ Kind[ref] = "StatefulSet")) =>
            ~LiveObj(ref).unsafe
       /\ (pc # "load" /\ Kind[ref] = "DaemonSet") => obj.val[sentinelKey] = Nil
       /\ (/\ pc # "load" /\ LiveObj(ref) # Nil /\ ~SleepsOnce(Kind[ref])
           /\ SeenAsleep(Kind[ref], obj.val)) => SeenAsleep(Kind[ref], LiveObj(ref).val)

PassKnows == /\ UnsafeKinds /\ SameSafety /\ StaysAsleep
             /\ Progress /\ HandlerKnows

PassInv == Inv /\ PassKnows

\* The key of the sentinel belongs to the operator: an owner's nodeSelector
\* does not have it, or has it the way the operator would set it.
SentinelIsOurs ==
  \A w \in Workloads : Kind[w] = "DaemonSet" =>
    \A v \in OwnerValues[w] : v[sentinelKey] \in {Nil, "true"}

\* Then a DaemonSet that has the key is asleep.
SentinelMeansAsleep ==
  \A w \in Workloads : Kind[w] = "DaemonSet" =>
    /\ orig[w] # Nil => orig[w][sentinelKey] \in {Nil, "true"}
    /\ \A o \in Snapshots(objs[w]) : o # Nil => o.val[sentinelKey] \in {Nil, "true"}
=============================================================================
