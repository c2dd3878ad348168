---------------------------- MODULE WorkloadKinds ----------------------------
(***************************************************************************)
(* What the handlers of internal/workload do to one object: the fields     *)
(* they own, the value they checkpoint, the value they put to sleep with,  *)
(* and the merge patch that gets there.  A value is a function from the    *)
(* fields of the kind to scalars, Nil standing for an unset field.         *)
(***************************************************************************)
EXTENDS Naturals

CONSTANTS SleepReplicas,     \* spec.sleepReplicas
          NodeLabels,        \* nodeSelector keys the owners may use
          LabelValues,       \* nodeSelector values
          Nil                \* an unset field, an absent object or entry

ASSUME KindsAssumption == /\ SleepReplicas \in Nat
                          /\ "nyx.dev/asleep" \notin NodeLabels
                          /\ "true" \in LabelValues
                          /\ Nil \notin Nat \cup BOOLEAN \cup LabelValues

ReplicaKinds == {"Deployment", "StatefulSet"}
SuspendKinds == {"CronJob", "Job"}
Kinds == ReplicaKinds \cup SuspendKinds
           \cup {"DaemonSet", "HorizontalPodAutoscaler"}

sentinelKey == "nyx.dev/asleep"

Fields(kind) ==
  CASE kind \in ReplicaKinds -> {"replicas"}
    [] kind \in SuspendKinds -> {"suspend"}
    [] kind = "DaemonSet" -> NodeLabels \cup {sentinelKey}
    [] OTHER -> {"minReplicas", "maxReplicas"}

Scalars(kind) ==
  {Nil} \cup (CASE kind \in SuspendKinds -> BOOLEAN
                [] kind = "DaemonSet" -> LabelValues
                [] OTHER -> Nat)

Values(kind) == [Fields(kind) -> Scalars(kind)]

AnyValue == Values("Deployment") \cup Values("CronJob") \cup Values("DaemonSet")
              \cup Values("HorizontalPodAutoscaler")

ASSUME NilAssumption == Nil \notin AnyValue

\* The value as the handlers see it and as the checkpoint records it:
\* replicasOf reads an unset replica count as 1, the other encodings (JSON
\* with null) keep an unset field unset.
Captured(kind, v) ==
  IF kind \in ReplicaKinds /\ v["replicas"] = Nil
  THEN [v EXCEPT !["replicas"] = 1]
  ELSE v

\* patchReplicas with spec.sleepReplicas.
scaledDown(v) == [v EXCEPT !["replicas"] = SleepReplicas]

\* sleepSuspend, whatever suspend was.
suspended(v) == [v EXCEPT !["suspend"] = TRUE]

\* daemonSetHandler.Sleep: the owner's keys stay, no node has the sentinel.
withSentinel(v) == [v EXCEPT ![sentinelKey] = "true"]

\* HPA bounds cannot go below 1 without the HPAScaleToZero feature gate.
neutralized == IF SleepReplicas < 1 THEN 1 ELSE SleepReplicas

\* The value Sleep asks for, given the value it read.
SleptValue(kind, v) ==
  CASE kind \in ReplicaKinds -> scaledDown(v)
    [] kind \in SuspendKinds -> suspended(v)
    [] kind = "DaemonSet" -> withSentinel(v)
    [] OTHER -> [f \in Fields(kind) |-> neutralized]

\* There is nothing left for Sleep to change (an unset replica count is 1).
IsAsleep(kind, v) == Captured(kind, v) = SleptValue(kind, v)

\* Mutant: the patch cannot unset a field (omitempty).
MergePatchWithoutNull(kind, live, base, want) ==
  [f \in Fields(kind) |-> IF want[f] \in {base[f], Nil} THEN live[f] ELSE want[f]]

\* client.MergeFrom(base): the patch lists the fields in which want differs
\* from base, and the API server applies it to whatever is live.  A
\* nodeSelector that becomes unset is patched to null as a whole.
MergePatch(kind, live, base, want) ==
  IF kind = "DaemonSet" /\ base # want /\ \A f \in Fields(kind) : want[f] = Nil
  THEN want
  ELSE [f \in Fields(kind) |-> IF want[f] = base[f] THEN live[f] ELSE want[f]]

\* patchReplicas returns early when the replica count read is the one wanted;
\* the other handlers always send their patch.
SkipsPatch(kind, base, want) ==
  kind \in ReplicaKinds /\ Captured(kind, base) = want
=============================================================================
