-------------------------- MODULE MCCheckpointStore --------------------------
(* Instances of CheckpointStore for TLC.                                    *)
EXTENDS CheckpointStore, TLC

Interchangeable == Permutations(Keys) \cup Permutations(Originals)
                     \cup Permutations(Callers)
=============================================================================
