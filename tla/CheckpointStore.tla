--------------------------- MODULE CheckpointStore ---------------------------
(***************************************************************************)
(* checkpoint.Store under concurrency: several callers (replicas of the    *)
(* operator while the leader lease changes hands, or reconciles of two     *)
(* schedules with the same name) run SetRaw and Delete on one Secret.      *)
(* Each attempt is a read of the caller's own informer cache followed by a *)
(* write to the API server, and other callers' steps fall in between.      *)
(***************************************************************************)
EXTENDS Naturals, Sequences, FiniteSets

CONSTANTS Callers,        \* goroutines or processes using the Store
          Keys,           \* checkpoint keys
          Originals,      \* values to record
          MaxAttempts,    \* retry.DefaultRetry.Steps
          MaxRevisions,   \* bound: versions of the Secret
          Nil

ASSUME StoreAssumption == /\ MaxAttempts \in Nat \ {0}
                          /\ MaxRevisions \in Nat
                          /\ Nil \notin Originals

VARIABLES
  history,   \* every version of the Secret; the position is its revision
  seen,      \* per caller: the revision in its informer cache
  call,      \* per caller: the call in progress
  acked,     \* history: keys a SetRaw of which has returned nil
  deleted    \* history: keys a Delete of which has been called

vars == <<history, seen, call, acked, deleted>>

\* A Secret holds at least one entry: the one without is a deleted one.
Secret == [Keys -> Originals \cup {Nil}]
NoSecret == [k \in Keys |-> Nil]
Live == history[Len(history)]

\* step: "read" the Secret, "write" what was made of revision `base'.
Calls == [op : {"set", "delete"}, key : Keys, value : Originals \cup {Nil},
          step : {"read", "write"}, base : Nat, tries : 1 .. MaxAttempts]

Init == /\ history = <<NoSecret>>
        /\ seen = [c \in Callers |-> 1]
        /\ call = [c \in Callers |-> Nil]
        /\ acked = {}
        /\ deleted = {}

InProgress == {c \in Callers : call[c] # Nil}

\* Bounded so that every call in progress can still write a version.
Start(c, op, k, v) ==
  /\ call[c] = Nil
  /\ Len(history) + Cardinality(InProgress) < MaxRevisions
  /\ call' = [call EXCEPT ![c] = [op |-> op, key |-> k, value |-> v,
                                  step |-> "read", base |-> 0, tries |-> 1]]
  /\ UNCHANGED <<history, seen, acked>>

SetRaw(c, k, v) == Start(c, "set", k, v) /\ UNCHANGED deleted

StoreDelete(c, k) == Start(c, "delete", k, Nil) /\ deleted' = deleted \cup {k}

\* The call of c returns nil.
Return(c) ==
  /\ call' = [call EXCEPT ![c] = Nil]
  /\ acked' = IF call[c].op = "set" THEN acked \cup {call[c].key} ELSE acked

\* Client.Get, from the cache.  SetRaw is done when the key is there already,
\* Delete when it is not.
Read(c) ==
  /\ call[c] # Nil /\ call[c].step = "read"
  /\ LET exists == history[seen[c]][call[c].key] # Nil
     IN  IF exists = (call[c].op = "set")
         THEN Return(c)
         ELSE /\ call' = [call EXCEPT ![c].step = "write", ![c].base = seen[c]]
              /\ UNCHANGED acked
  /\ UNCHANGED <<history, seen, deleted>>

\* What the caller makes of the version it read.
Modified(c) == [history[call[c].base] EXCEPT ![call[c].key] = call[c].value]

\* Mutant: the writes carry no resourceVersion.
AcceptedBlindly(c) == TRUE

\* Client.Create fails with AlreadyExists when there is a Secret, Update with
\* Conflict when the Secret is not the version read.  Client.Delete, with
\* which Delete drops the last entry, has no precondition.
Accepted(c) ==
  CASE call[c].op = "set" /\ history[call[c].base] = NoSecret -> Live = NoSecret
    [] call[c].op = "delete" /\ Modified(c) = NoSecret -> TRUE
    [] OTHER -> call[c].base = Len(history)

Write(c) ==
  /\ call[c] # Nil /\ call[c].step = "write"
  /\ Accepted(c)
  /\ history' = IF Modified(c) = Live THEN history ELSE Append(history, Modified(c))
  /\ Return(c)
  /\ UNCHANGED <<seen, deleted>>

\* Mutant: one attempt too many.
RetryOnceMore(c) ==
  /\ call[c] # Nil /\ call[c].step = "write"
  /\ ~Accepted(c)
  /\ call' = IF Live # NoSecret /\ call[c].tries <= MaxAttempts
             THEN [call EXCEPT ![c].step = "read", ![c].tries = @ + 1]
             ELSE [call EXCEPT ![c] = Nil]
  /\ UNCHANGED <<history, seen, acked, deleted>>

\* Mutant: transient errors are retried for ever.
RetryForever(c) ==
  /\ call[c] # Nil /\ call[c].step = "write"
  /\ ~Accepted(c)
  /\ call' = IF Live # NoSecret THEN [call EXCEPT ![c].step = "read"]
                                ELSE [call EXCEPT ![c] = Nil]
  /\ UNCHANGED <<history, seen, acked, deleted>>

\* A Conflict or an AlreadyExists (isTransientWrite) is read and tried again,
\* up to the steps of DefaultRetry; the Update of a Secret that is gone is a
\* NotFound, which is returned.
Retry(c) ==
  /\ call[c] # Nil /\ call[c].step = "write"
  /\ ~Accepted(c)
  /\ call' = IF Live # NoSecret /\ call[c].tries < MaxAttempts
             THEN [call EXCEPT ![c].step = "read", ![c].tries = @ + 1]
             ELSE [call EXCEPT ![c] = Nil]
  /\ UNCHANGED <<history, seen, acked, deleted>>

\* Any other error, or the death of the process, ends the call.
GiveUp(c) ==
  /\ call[c] # Nil
  /\ call' = [call EXCEPT ![c] = Nil]
  /\ UNCHANGED <<history, seen, acked, deleted>>

Watch(c) ==
  /\ seen[c] < Len(history)
  /\ seen' = [seen EXCEPT ![c] = @ + 1]
  /\ UNCHANGED <<history, call, acked, deleted>>

Caller(c) == \/ \E k \in Keys : \/ \E v \in Originals : SetRaw(c, k, v)
                                \/ StoreDelete(c, k)
             \/ Read(c) \/ Write(c) \/ Retry(c) \/ GiveUp(c) \/ Watch(c)

Next == \E c \in Callers : Caller(c)

\* A call in progress goes on: it is straight-line code.
Fairness == \A c \in Callers : WF_vars(Read(c) \/ Write(c) \/ Retry(c))

Spec == Init /\ [][Next]_vars
FairSpec == Spec /\ Fairness

-----------------------------------------------------------------------------

TypeOK == /\ history \in Seq(Secret)
          /\ Len(history) >= 1
          /\ seen \in [Callers -> Nat]
          /\ \A c \in Callers : seen[c] \in 1 .. Len(history)
          /\ call \in [Callers -> Calls \cup {Nil}]
          /\ \A c \in Callers : (call[c] # Nil /\ call[c].step = "write") =>
                                  call[c].base \in 1 .. Len(history)
          /\ acked \subseteq Keys
          /\ deleted \subseteq Keys

\* What a call brings to its write: SetRaw a value, for a key that was absent
\* from the version read; Delete nothing.
CallsAreSound ==
  \A c \in Callers :
    call[c] # Nil =>
      /\ call[c].op = "delete" => call[c].value = Nil
      /\ call[c].op = "set" => call[c].value # Nil
      /\ (call[c].op = "set" /\ call[c].step = "write") =>
           history[call[c].base][call[c].key] = Nil

\* Nothing is deleted that nobody asked to delete: a call in progress deletes
\* a key recorded as such, and while there is none ...
DeletesAreRecorded ==
  \A c \in Callers : (call[c] # Nil /\ call[c].op = "delete") => deleted # {}

\* ... a key that is in one version is in every later one.
KeysOnlyGrow ==
  deleted = {} =>
    \A i, j \in 1 .. Len(history), k \in Keys :
      (i <= j /\ history[i][k] # Nil) => history[j][k] # Nil

\* SetRaw "does not overwrite an existing key -- the first write captures the
\* true original": whoever writes, from whatever cache, an entry changes only
\* by being deleted.
WriteOnce ==
  [][\A k \in Keys : Live[k] # Nil => Live'[k] \in {Live[k], Nil}]_vars

\* No lost updates: until some Delete is called, every key whose SetRaw has
\* returned nil is in the Secret, whatever other callers write meanwhile, and
\* however old the cache was in which the caller found the key present.
RecordedStays == deleted = {} => \A k \in acked : Live[k] # Nil

\* Delete "removes the checkpoint entry for key", and no other one: an entry
\* goes away only when a Delete of that key has been called.
DeletesOnlyItsKey ==
  [][\A k \in Keys : (Live[k] # Nil /\ Live'[k] = Nil) => k \in deleted]_vars

\* Read, modify and write of concurrent callers with caches of any age come to
\* one step each on the entries.
Promise == INSTANCE Checkpoints WITH entries <- Live

\* However the calls interleave, what they do to the Secret is a sequence of
\* single recordings, single removals and removals of the Secret as a whole;
\* no write carries an old version of other entries along (store.go:67-70).
ImplementsCheckpoints == Promise!Spec

\* Retries are bounded: every call returns, also when others keep writing.
CallsReturn == \A c \in Callers : call[c] # Nil ~> call[c] = Nil
=============================================================================
