---------------------------- MODULE ExactRestore ----------------------------
(***************************************************************************)
(* What "exact restore" promises, without the operator: a workload shows   *)
(* what its owner wants, until that is saved; then it may show anything;   *)
(* and what was saved is given up only when the workload shows it again.   *)
(* Sleeper, at the pace it is meant to be driven, implements this.         *)
(***************************************************************************)
CONSTANTS Workloads, Nil

VARIABLES want,     \* per workload: what the owner asked for last
          shown,    \* per workload: what is in the cluster, Nil for nothing
          saved     \* per workload: what the checkpoint holds, Nil for nothing

vars == <<want, shown, saved>>

Init == /\ want = [w \in Workloads |-> Nil]
        /\ shown = [w \in Workloads |-> Nil]
        /\ saved = [w \in Workloads |-> Nil]

\* The original is recorded before anything is done to the workload.
Record(w) ==
  /\ shown[w] # Nil /\ shown[w] = want[w]
  /\ saved[w] = Nil
  /\ saved' = [saved EXCEPT ![w] = want[w]]
  /\ UNCHANGED <<want, shown>>

\* With the original saved the workload may be put to sleep, half restored,
\* put to sleep again, or edited.
Work(w) ==
  /\ saved[w] # Nil
  /\ \A x \in Workloads : (shown'[x] # shown[x]) <=> (x = w)
  /\ shown'[w] # Nil
  /\ UNCHANGED <<want, saved>>

Release(w) ==
  /\ shown[w] # Nil /\ shown[w] = want[w]
  /\ saved[w] # Nil
  /\ saved' = [saved EXCEPT ![w] = Nil]
  /\ UNCHANGED <<want, shown>>

\* The owner creates or edits a workload that nobody put to sleep.
Own(w) ==
  /\ saved[w] = Nil
  /\ \A x \in Workloads : x # w => shown'[x] = shown[x]
  /\ shown'[w] # Nil
  /\ want' = [want EXCEPT ![w] = shown'[w]]
  /\ UNCHANGED saved

\* The workload is deleted; a new one of its name has no checkpoint.
Remove(w) ==
  /\ shown[w] # Nil
  /\ shown' = [shown EXCEPT ![w] = Nil]
  /\ saved' = [saved EXCEPT ![w] = Nil]
  /\ UNCHANGED want

\* A step is about a workload for which it changes something.
About(w) == <<want[w], shown[w], saved[w]>>' # <<want[w], shown[w], saved[w]>>

Next == \E w \in Workloads :
          About(w) /\ (Record(w) \/ Work(w) \/ Release(w) \/ Own(w) \/ Remove(w))

Spec == Init /\ [][Next]_vars
=============================================================================
