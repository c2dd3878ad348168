----------------------------- MODULE Checkpoints -----------------------------
(***************************************************************************)
(* What the store promises its callers, as if every call were one step: an *)
(* original is recorded where there is none, and goes by being forgotten.  *)
(***************************************************************************)
CONSTANTS Keys, Originals, Nil

VARIABLE entries

Empty == [k \in Keys |-> Nil]

Init == entries = Empty

Record(k, v) == entries[k] = Nil /\ entries' = [entries EXCEPT ![k] = v]

Forget(k) == entries[k] # Nil /\ entries' = [entries EXCEPT ![k] = Nil]

\* The Secret goes as a whole with what seemed to be its last entry.
Wipe == entries' = Empty

Next == \/ \E k \in Keys, v \in Originals : Record(k, v)
        \/ \E k \in Keys : Forget(k)
        \/ Wipe

Spec == Init /\ [][Next]_entries
=============================================================================
