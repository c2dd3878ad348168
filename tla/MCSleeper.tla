------------------------------ MODULE MCSleeper ------------------------------
(* Instances of Sleeper for TLC: who targets what, and which values occur.  *)
EXTENDS SleeperRefinement, PassInvariant, TLC

CONSTANTS s1, s2, w1, w2, w3, w4, w5

Replicas(n) == [replicas |-> n]
Suspend(b) == [suspend |-> b]
Bounds(lo, hi) == [minReplicas |-> lo, maxReplicas |-> hi]
Selector(disk) == ("disk" :> disk) @@ (sentinelKey :> Nil)

DiskLabel == {"disk"}
DiskValues == {"ssd", "true"}

\* What owners set: an explicit value and the unset one, per kind.
ValuesOfKind(kind) ==
  CASE kind \in ReplicaKinds -> {Replicas(2), Replicas(Nil)}
    [] kind \in SuspendKinds -> {Suspend(FALSE), Suspend(Nil)}
    [] kind = "DaemonSet" -> {Selector("ssd"), Selector(Nil)}
    [] OTHER -> {Bounds(2, 4), Bounds(Nil, 4)}
MCOwnerValues == [w \in Workloads |-> ValuesOfKind(Kind[w])]

\* An owner that never asks for anything else.
MCConstantOwner == [w \in Workloads |->
  IF Kind[w] = "DaemonSet" THEN {Selector("ssd")} ELSE {Replicas(2)}]

\* A workload of each kind but Deployment (a StatefulSet does all it does),
\* and other mixtures.
OneOfEachKind == w1 :> "CronJob" @@ w2 :> "DaemonSet" @@ w3 :> "HorizontalPodAutoscaler"
                   @@ w4 :> "Job" @@ w5 :> "StatefulSet"
DaemonSetAndDeployment == w1 :> "DaemonSet" @@ w2 :> "Deployment"
OneDeployment == w1 :> "Deployment"
OneStatefulSet == w1 :> "StatefulSet"
OneCronJob == w1 :> "CronJob"

\* The Secret is named after the schedule: schedules of different names have
\* their own, schedules of one name in two namespaces share one.
OwnSecret == [s \in Schedules |-> s]
SharedSecret == [s \in Schedules |-> s1]

TargetsOne == [s \in Schedules |-> <<w1>>]
TargetsAll == [s \in Schedules |-> <<w1, w2, w3, w4, w5>>]
TargetsOverlap == s1 :> <<w1>> @@ s2 :> <<w1, w2>>

\* What module PassProofs takes for granted is so here.
ASSUME HypothesesHold == OverlapSharesSecret /\ SentinelIsOurs

\* Bound: only one of the workloads is ever created, but any of them.
OneWorkload == Cardinality({w \in Workloads : lastUid[w] > 0}) <= 1
OneWorkloadSpec == Init /\ [][SettledNext /\ OneWorkload']_vars

\* Bound: no dry runs.
WetInit == Init /\ dryRun = [s \in Schedules |-> FALSE]
WetSpec == WetInit /\ [][SettledNext /\ UNCHANGED dryRun]_vars
=============================================================================
