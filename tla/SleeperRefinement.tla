-------------------------- MODULE SleeperRefinement --------------------------
(***************************************************************************)
(* Sleeper implements ExactRestore.  What a workload shows is the live     *)
(* object as the handlers capture it; what is saved is the live entry of   *)
(* that object's identity, in the Secret its schedules share.              *)
(***************************************************************************)
EXTENDS SleeperInvariant

Shown(w) == IF LiveObj(w) = Nil THEN Nil ELSE Captured(Kind[w], LiveObj(w).val)

\* The Secret with the checkpoint of each workload that a schedule targets.
Keeper == [w \in {x \in Workloads : TargetedBy(x) # {}} |->
             SecretOf[CHOOSE s \in TargetedBy(w) : TRUE]]

Saved(w) == IF LiveObj(w) = Nil \/ TargetedBy(w) = {} THEN Nil
            ELSE Live(secrets[Keeper[w]])[w][LiveObj(w).uid]

Promise == INSTANCE ExactRestore
             WITH want  <- orig,
                  shown <- [w \in Workloads |-> Shown(w)],
                  saved <- [w \in Workloads |-> Saved(w)]

\* "On wake, that exact state is restored and the checkpoint entry cleared"
\* (user-guide.md), step by step: every write of a pass, whatever the cache
\* held and wherever the pass before it stopped, records what the owner wants,
\* works on a workload whose original is saved, or releases one that is
\* restored.
ImplementsExactRestore == Promise!Spec
=============================================================================
