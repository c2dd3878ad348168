----------------------------- MODULE MCTargeting -----------------------------
(* Instances of Targeting for TLC.                                          *)
EXTENDS TargetingInvariant, TLC

Ref(kind, namespace, name) == [kind |-> kind, namespace |-> namespace, name |-> name]
Job == Ref("Job", "a", "migrate")
Api == Ref("Deployment", "b", "api")
Db == Ref("StatefulSet", "a", "db")
MCRefs == <<Api, Job, Db>>

MCRegistered == {"Deployment", "Job", "StatefulSet"}

In(namespaces) == [mode |-> "namespaces", namespaces |-> namespaces, selector |-> Nil]
With(selector) == [mode |-> "labels", namespaces |-> <<>>, selector |-> selector]

Nyx == [match |-> {"nyx"}, valid |-> TRUE]

Everyday == [timezone |-> "UTC", awake |-> {[from |-> 9, to |-> 18]}, target |-> In(<<"a">>),
             kinds |-> <<>>, excludeRefs |-> {},
             temporaryWake |-> [def |-> 1, max |-> 8], dryRun |-> FALSE,
             allowPVCDeletion |-> FALSE]

\* Specs the webhook admits: the last one is refused by the resolver.
Good == {Everyday,
         [Everyday EXCEPT !.dryRun = TRUE],
         [Everyday EXCEPT !.target = In(<<"a", "">>),
                          !.excludeRefs = {Ref("Deployment", "", "api")}],
         [Everyday EXCEPT !.target = In(<<"b", "a">>),
                          !.excludeRefs = {Db}],
         [Everyday EXCEPT !.target = With(Nyx),
                          !.kinds = <<"Deployment", "ReplicaSet", "StatefulSet", "Deployment">>,
                          !.allowPVCDeletion = TRUE,
                          !.temporaryWake = Nil],
         [Everyday EXCEPT !.target = With([Nyx EXCEPT !.valid = FALSE])]}

\* Specs it refuses, each for one reason.
Bad == {[Everyday EXCEPT !.timezone = "Mars"],
        [Everyday EXCEPT !.awake = {[from |-> 18, to |-> 9]}],
        [Everyday EXCEPT !.target = In(<<>>)],
        [Everyday EXCEPT !.target = With(Nil)],
        [Everyday EXCEPT !.temporaryWake.def = 9]}

AllSpecs == Good \cup Bad

Plain == [labels |-> {}, unsafe |-> FALSE]
WithNyx == [Plain EXCEPT !.labels = {"nyx"}]
MCVersions == {Plain, WithNyx, [WithNyx EXCEPT !.unsafe = TRUE]}
OneVersion == {WithNyx}
AllDeployed == [w \in Workloads |-> WithNyx]
MCDeployed == (Job :> WithNyx) @@ (Api :> Plain) @@ (Db :> [WithNyx EXCEPT !.unsafe = TRUE])

\* What module TargetingProofs takes for granted is so here.
ASSUME HypothesisHolds == ThereIsAWatch
=============================================================================
