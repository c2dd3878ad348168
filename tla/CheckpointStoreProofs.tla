------------------------ MODULE CheckpointStoreProofs ------------------------
(***************************************************************************)
(* For any number of callers, keys and retries: entries are write-once,    *)
(* and until somebody deletes, no recorded entry is lost.                  *)
(***************************************************************************)
EXTENDS CheckpointStore, TLAPS

\* The Secret is what TypeOK says from the start on.
LEMMA InitTypeOK == Init => TypeOK
  BY StoreAssumption DEF Init, TypeOK, Secret, NoSecret

\* A version the caller made of the one it read is a Secret.
LEMMA ModifiedIsSecret ==
  ASSUME TypeOK, NEW c \in Callers, call[c] # Nil, call[c].step = "write"
  PROVE  Modified(c) \in Secret
<1>1. call[c] \in Calls
  BY DEF TypeOK
<1>2. history[call[c].base] \in Secret
  BY DEF TypeOK
<1> QED
  BY <1>1, <1>2 DEF Modified, Secret, Calls

\* Every step keeps the types: revisions only grow, so a revision that was
\* seen or read stays one of the history.
LEMMA NextTypeOK == TypeOK /\ [Next]_vars => TypeOK'
<1> SUFFICES ASSUME TypeOK, [Next]_vars
             PROVE  TypeOK'
  OBVIOUS
<1> USE StoreAssumption
<1>1. CASE UNCHANGED vars
  BY <1>1 DEF vars, TypeOK
<1>2. ASSUME NEW c \in Callers, Caller(c)
      PROVE  TypeOK'
  <2>1. ASSUME NEW op \in {"set", "delete"}, NEW k \in Keys,
               NEW v \in Originals \cup {Nil}, Start(c, op, k, v),
               deleted' \subseteq deleted \cup {k}
        PROVE  TypeOK'
    <3>1. [op |-> op, key |-> k, value |-> v,
           step |-> "read", base |-> 0, tries |-> 1] \in Calls
      BY DEF Calls
    <3> QED
      BY <2>1, <3>1 DEF Start, TypeOK
  <2>2. CASE Read(c)
    <3>1. call[c] \in Calls
      BY <2>2 DEF Read, TypeOK
    <3>2. [call[c] EXCEPT !.step = "write", !.base = seen[c]] \in Calls
      BY <3>1 DEF TypeOK, Calls
    <3>3. call[c].key \in Keys
      BY <3>1 DEF Calls
    <3>4. CASE Return(c)
      BY <2>2, <3>3, <3>4 DEF Read, Return, TypeOK
    <3>5. CASE /\ call' = [call EXCEPT ![c].step = "write", ![c].base = seen[c]]
               /\ UNCHANGED acked
      BY <2>2, <3>1, <3>2, <3>5 DEF Read, TypeOK
    <3> QED
      BY <2>2, <3>4, <3>5, Zenon DEF Read
  <2>3. CASE Write(c)
    <3>1. call[c] \in Calls
      BY <2>3 DEF Write, TypeOK
    <3>2. call[c].key \in Keys
      BY <3>1 DEF Calls
    <3>3. Modified(c) \in Secret
      BY <2>3, ModifiedIsSecret DEF Write
    <3>4. /\ history' \in Seq(Secret)
          /\ Len(history') >= Len(history)
      BY <2>3, <3>3 DEF Write, TypeOK
    <3> QED
      BY <2>3, <3>2, <3>4 DEF Write, Return, TypeOK
  <2>4. CASE Retry(c)
    <3>1. call[c] \in Calls
      BY <2>4 DEF Retry, TypeOK
    <3>2. call[c].tries < MaxAttempts =>
            [call[c] EXCEPT !.step = "read", !.tries = @ + 1] \in Calls
      <4>1. call[c].tries < MaxAttempts =>
              [call[c] EXCEPT !.tries = @ + 1] \in Calls
        BY <3>1 DEF Calls
      <4> QED
        BY <3>1, <4>1 DEF Calls
    <3> QED
      BY <2>4, <3>1, <3>2 DEF Retry, TypeOK
  <2>5. CASE GiveUp(c)
    BY <2>5 DEF GiveUp, TypeOK
  <2>6. CASE Watch(c)
    BY <2>6 DEF Watch, TypeOK
  <2> QED
    BY <1>2, <2>1, <2>2, <2>3, <2>4, <2>5, <2>6 DEF Caller, SetRaw, StoreDelete
<1> QED
  BY <1>1, <1>2 DEF Next

\* The types hold in every reachable state.
THEOREM TypeCorrect == Spec => []TypeOK
<1> QED
  BY InitTypeOK, NextTypeOK, PTL DEF Spec

-----------------------------------------------------------------------------

\* Calls stay sound: versions are never rewritten, and Read goes on to write
\* only what it found missing.
LEMMA NextCallsAreSound == TypeOK /\ CallsAreSound /\ [Next]_vars => CallsAreSound'
<1> SUFFICES ASSUME TypeOK, CallsAreSound, [Next]_vars
             PROVE  CallsAreSound'
  OBVIOUS
<1>1. CASE UNCHANGED vars
  BY <1>1 DEF vars, CallsAreSound
<1>2. ASSUME NEW c \in Callers, Caller(c)
      PROVE  CallsAreSound'
  <2>1. ASSUME NEW k \in Keys, NEW v \in Originals, SetRaw(c, k, v)
        PROVE  CallsAreSound'
    BY <2>1, StoreAssumption DEF SetRaw, Start, CallsAreSound, TypeOK
  <2>2. ASSUME NEW k \in Keys, StoreDelete(c, k)
        PROVE  CallsAreSound'
    BY <2>2 DEF StoreDelete, Start, CallsAreSound, TypeOK
  <2>3. CASE Read(c)
    <3>1. call[c] \in Calls
      BY <2>3 DEF Read, TypeOK
    <3>2. CASE Return(c)
      BY <2>3, <3>2 DEF Read, Return, CallsAreSound, TypeOK
    <3>3. CASE ~Return(c)
      <4>1. /\ (history[seen[c]][call[c].key] # Nil) # (call[c].op = "set")
            /\ call' = [call EXCEPT ![c].step = "write", ![c].base = seen[c]]
        BY <2>3, <3>3, Zenon DEF Read
      <4>2. call[c].op = "set" => history[seen[c]][call[c].key] = Nil
        BY <4>1
      <4>3. call'[c] = [call[c] EXCEPT !.step = "write", !.base = seen[c]]
        BY <4>1 DEF TypeOK
      <4>4. /\ call'[c].op = call[c].op /\ call'[c].key = call[c].key
            /\ call'[c].value = call[c].value /\ call'[c].base = seen[c]
        BY <3>1, <4>3 DEF Calls
      <4>5. \A d \in Callers : d # c => call'[d] = call[d]
        BY <4>1 DEF TypeOK
      <4>6. history' = history
        BY <2>3 DEF Read
      <4>7. call[c] # Nil
        BY <2>3 DEF Read
      <4> QED
        BY <4>2, <4>4, <4>5, <4>6, <4>7 DEF CallsAreSound
    <3> QED
      BY <3>2, <3>3
  <2>4. CASE Write(c)
    <3>1. \A i \in 1 .. Len(history) : history'[i] = history[i]
      BY <2>4, ModifiedIsSecret DEF Write, TypeOK
    <3>2. \A d \in Callers : call'[d] \in {call[d], Nil}
      BY <2>4 DEF Write, Return, TypeOK
    <3> QED
      BY <3>1, <3>2 DEF CallsAreSound, TypeOK
  <2>5. CASE Retry(c)
    <3>1. call[c] \in Calls
      BY <2>5 DEF Retry, TypeOK
    <3>2. CASE Live # NoSecret /\ call[c].tries < MaxAttempts
      <4>1. call'[c] = [call[c] EXCEPT !.step = "read", !.tries = @ + 1]
        BY <2>5, <3>2 DEF Retry, TypeOK
      <4>2. /\ call'[c].op = call[c].op /\ call'[c].value = call[c].value
            /\ call'[c].step = "read"
        BY <3>1, <4>1 DEF Calls
      <4>3. \A d \in Callers : d # c => call'[d] = call[d]
        BY <2>5, <3>2 DEF Retry, TypeOK
      <4> QED
        BY <2>5, <4>2, <4>3 DEF Retry, CallsAreSound
    <3>3. CASE ~(Live # NoSecret /\ call[c].tries < MaxAttempts)
      BY <2>5, <3>3 DEF Retry, CallsAreSound, TypeOK
    <3> QED
      BY <3>2, <3>3
  <2>6. CASE GiveUp(c)
    BY <2>6 DEF GiveUp, CallsAreSound, TypeOK
  <2>7. CASE Watch(c)
    BY <2>7 DEF Watch, CallsAreSound
  <2> QED
    BY <1>2, <2>1, <2>2, <2>3, <2>4, <2>5, <2>6, <2>7 DEF Caller
<1> QED
  BY <1>1, <1>2 DEF Next

\* A write adds an entry to the live version or to no Secret at all, or takes
\* entries away; it never changes one.
LEMMA WriteEffect ==
  ASSUME TypeOK, CallsAreSound, NEW c \in Callers, Write(c)
  PROVE  \A k \in Keys : Live[k] # Nil => Live'[k] \in {Live[k], Nil}
<1> USE StoreAssumption
<1>1. call[c] \in Calls /\ Live \in Secret /\ history \in Seq(Secret)
  BY DEF Write, TypeOK, Live
<1>2. Modified(c) \in Secret
  BY ModifiedIsSecret DEF Write
<1>3. Live' = Modified(c)
  BY <1>1, <1>2 DEF Write, Live
<1>4. CASE call[c].op = "set" /\ history[call[c].base] = NoSecret
  BY <1>4 DEF Write, Accepted, NoSecret
<1>5. CASE call[c].op = "delete" /\ Modified(c) = NoSecret
  BY <1>3, <1>5 DEF NoSecret
<1>6. CASE call[c].base = Len(history)
  <2>1. Live' = [Live EXCEPT ![call[c].key] = call[c].value]
    BY <1>3, <1>6 DEF Modified, Live
  <2>2. CASE call[c].op = "delete"
    BY <1>1, <2>1, <2>2 DEF CallsAreSound, Write, Secret
  <2>3. CASE call[c].op = "set"
    <3>1. Live[call[c].key] = Nil
      BY <1>6, <2>3 DEF CallsAreSound, Write, Live
    <3> QED
      BY <1>1, <2>1, <3>1 DEF Secret
  <2> QED
    BY <1>1, <2>2, <2>3 DEF Calls
<1> QED
  BY <1>1, <1>4, <1>5, <1>6 DEF Write, Accepted, Calls

\* SetRaw "does not overwrite an existing key": for any number of callers,
\* whatever their caches hold, an entry changes only by being deleted.
THEOREM EntriesAreWriteOnce == Spec => WriteOnce
<1> DEFINE Kept == \A k \in Keys : Live[k] # Nil => Live'[k] \in {Live[k], Nil}
<1>1. TypeOK /\ CallsAreSound /\ [Next]_vars => [Kept]_vars
  <2> SUFFICES ASSUME TypeOK, CallsAreSound, NEW c \in Callers, Caller(c)
               PROVE  Kept
    BY DEF Next
  <2>1. CASE Write(c)
    BY <2>1, WriteEffect
  <2>2. CASE ~Write(c)
    <3>1. history' = history
      BY <2>2 DEF Caller, SetRaw, StoreDelete, Start, Read, Retry, GiveUp, Watch
    <3> QED
      BY <3>1 DEF Live
  <2> QED
    BY <2>1, <2>2
<1>2. Init => CallsAreSound
  BY DEF Init, CallsAreSound
<1> QED
  BY <1>1, <1>2, NextCallsAreSound, InitTypeOK, NextTypeOK, PTL DEF Spec, WriteOnce

-----------------------------------------------------------------------------

\* A deletion in progress was called.
LEMMA NextDeletesAreRecorded ==
  TypeOK /\ DeletesAreRecorded /\ [Next]_vars => DeletesAreRecorded'
<1> SUFFICES ASSUME TypeOK, DeletesAreRecorded, [Next]_vars
             PROVE  DeletesAreRecorded'
  OBVIOUS
<1>1. CASE UNCHANGED vars
  BY <1>1 DEF vars, DeletesAreRecorded
<1>2. ASSUME NEW c \in Callers, Caller(c)
      PROVE  DeletesAreRecorded'
  <2>1. CASE \E k \in Keys : StoreDelete(c, k)
    BY <2>1 DEF StoreDelete, DeletesAreRecorded
  <2>2. CASE \E k \in Keys, v \in Originals : SetRaw(c, k, v)
    BY <2>2 DEF SetRaw, Start, DeletesAreRecorded, TypeOK
  <2>3. CASE Read(c)
    <3>1. call[c] \in Calls /\ call[c] # Nil /\ deleted' = deleted
      BY <2>3 DEF Read, TypeOK
    <3>2. CASE Return(c)
      BY <3>1, <3>2 DEF Return, DeletesAreRecorded, TypeOK
    <3>3. CASE ~Return(c)
      <4>1. call' = [call EXCEPT ![c].step = "write", ![c].base = seen[c]]
        BY <2>3, <3>3, Zenon DEF Read
      <4>2. call'[c] = [call[c] EXCEPT !.step = "write", !.base = seen[c]]
        BY <4>1 DEF TypeOK
      <4>3. call'[c].op = call[c].op
        BY <3>1, <4>2 DEF Calls
      <4> QED
        BY <3>1, <4>1, <4>3 DEF DeletesAreRecorded, TypeOK
    <3> QED
      BY <3>2, <3>3
  <2>4. CASE Write(c)
    BY <2>4 DEF Write, Return, DeletesAreRecorded, TypeOK
  <2>5. CASE Retry(c)
    <3>1. call[c] \in Calls /\ call[c] # Nil /\ deleted' = deleted
      BY <2>5 DEF Retry, TypeOK
    <3>2. CASE Live # NoSecret /\ call[c].tries < MaxAttempts
      <4>1. call' = [call EXCEPT ![c].step = "read", ![c].tries = @ + 1]
        BY <2>5, <3>2 DEF Retry
      <4>2. call'[c] = [call[c] EXCEPT !.step = "read", !.tries = @ + 1]
        BY <4>1 DEF TypeOK
      <4>3. call'[c].op = call[c].op
        BY <3>1, <4>2 DEF Calls
      <4> QED
        BY <3>1, <4>1, <4>3 DEF DeletesAreRecorded, TypeOK
    <3>3. CASE ~(Live # NoSecret /\ call[c].tries < MaxAttempts)
      BY <2>5, <3>1, <3>3 DEF Retry, DeletesAreRecorded, TypeOK
    <3> QED
      BY <3>2, <3>3
  <2>6. CASE GiveUp(c)
    BY <2>6 DEF GiveUp, DeletesAreRecorded, TypeOK
  <2>7. CASE Watch(c)
    BY <2>7 DEF Watch, DeletesAreRecorded
  <2> QED
    BY <1>2, <2>1, <2>2, <2>3, <2>4, <2>5, <2>6, <2>7 DEF Caller
<1> QED
  BY <1>1, <1>2 DEF Next

\* A SetRaw that is accepted keeps the entries of the live Secret and adds its
\* own: a Create only succeeds where there was no Secret, an Update only on
\* the version it was made from.
LEMMA SetKeepsEntries ==
  ASSUME TypeOK, CallsAreSound, DeletesAreRecorded, deleted = {},
         NEW c \in Callers, Write(c)
  PROVE  \A k \in Keys : Live[k] # Nil \/ k = call[c].key => Live'[k] # Nil
<1> USE StoreAssumption
<1>1. /\ call[c] \in Calls /\ Live \in Secret /\ history \in Seq(Secret)
      /\ call[c].op = "set" /\ history[call[c].base] \in Secret
      /\ call[c].value # Nil
  BY DEF Write, TypeOK, Live, DeletesAreRecorded, CallsAreSound, Calls
<1>2. Modified(c) \in Secret
  BY ModifiedIsSecret DEF Write
<1>3. Live' = Modified(c)
  BY <1>1, <1>2 DEF Write, Live
<1>4. CASE history[call[c].base] = NoSecret
  <2>1. Live = NoSecret
    BY <1>1, <1>4 DEF Write, Accepted
  <2> QED
    BY <1>1, <1>3, <2>1 DEF NoSecret, Modified, Secret
<1>5. CASE history[call[c].base] # NoSecret
  <2>1. call[c].base = Len(history)
    BY <1>1, <1>5 DEF Write, Accepted
  <2>2. Live' = [Live EXCEPT ![call[c].key] = call[c].value]
    BY <1>3, <2>1 DEF Modified, Live
  <2> QED
    BY <1>1, <2>2 DEF Secret
<1> QED
  BY <1>4, <1>5

\* Until something is deleted the last version has every key any version had, and a
\* caller that found its key in a stale cache was right to return.
LEMMA NextRecordedStays ==
  /\ TypeOK /\ CallsAreSound /\ DeletesAreRecorded /\ KeysOnlyGrow /\ RecordedStays
  /\ [Next]_vars
  => (KeysOnlyGrow /\ RecordedStays)'
<1> SUFFICES ASSUME TypeOK, CallsAreSound, DeletesAreRecorded,
                    KeysOnlyGrow, RecordedStays, [Next]_vars
             PROVE  (KeysOnlyGrow /\ RecordedStays)'
  OBVIOUS
<1>1. CASE UNCHANGED vars
  BY <1>1 DEF vars, KeysOnlyGrow, RecordedStays, Live
<1>2. CASE deleted' # {}
  BY <1>2 DEF KeysOnlyGrow, RecordedStays
<1>3. ASSUME NEW c \in Callers, Caller(c), deleted' = {}
      PROVE  (KeysOnlyGrow /\ RecordedStays)'
  <2> deleted = {}
    BY <1>3 DEF Caller, SetRaw, StoreDelete, Start, Read, Write, Retry, GiveUp, Watch
  <2>1. CASE Write(c)
    <3>1. call[c] \in Calls
      BY <2>1 DEF Write, TypeOK
    <3>2. Modified(c) \in Secret
      BY <2>1, ModifiedIsSecret DEF Write
    <3>3. \A k \in Keys : Live[k] # Nil \/ k = call[c].key => Live'[k] # Nil
      BY <2>1, SetKeepsEntries
    <3>4. KeysOnlyGrow'
      <4>1. CASE history' = history
        BY <4>1 DEF KeysOnlyGrow
      <4>2. CASE history' = Append(history, Modified(c))
        <5>1. /\ Len(history') = Len(history) + 1
              /\ \A i \in 1 .. Len(history) : history'[i] = history[i]
          BY <3>2, <4>2 DEF TypeOK
        <5>2. \A i \in 1 .. Len(history), k \in Keys :
                history[i][k] # Nil => Live[k] # Nil
          BY DEF KeysOnlyGrow, Live, TypeOK
        <5>3. Live' = history'[Len(history) + 1]
          BY <5>1 DEF Live
        <5>4. Len(history) \in Nat
          BY DEF TypeOK
        <5> SUFFICES ASSUME NEW i \in 1 .. Len(history'), NEW j \in 1 .. Len(history'),
                            NEW k \in Keys, i <= j, history'[i][k] # Nil
                     PROVE  history'[j][k] # Nil
          BY DEF KeysOnlyGrow
        <5>5. CASE j <= Len(history)
          BY <5>1, <5>4, <5>5 DEF KeysOnlyGrow
        <5>6. CASE j = Len(history) + 1 /\ i <= Len(history)
          BY <3>3, <5>1, <5>2, <5>3, <5>4, <5>6
        <5>7. CASE j = Len(history) + 1 /\ i = Len(history) + 1
          BY <5>7
        <5> QED
          BY <5>1, <5>4, <5>5, <5>6, <5>7
      <4> QED
        BY <2>1, <4>1, <4>2 DEF Write
    <3>5. acked' \subseteq acked \cup {call[c].key}
      BY <2>1 DEF Write, Return
    <3> QED
      BY <3>1, <3>3, <3>4, <3>5 DEF RecordedStays, TypeOK, Calls
  <2>2. CASE Read(c)
    <3>1. call[c] \in Calls /\ call[c].op = "set"
      BY <2>2 DEF Read, TypeOK, DeletesAreRecorded, Calls
    <3>2. history' = history
      BY <2>2 DEF Read
    <3>3. CASE Return(c) /\ history[seen[c]][call[c].key] # Nil
      <4>1. Live[call[c].key] # Nil
        BY <3>1, <3>3 DEF KeysOnlyGrow, Live, TypeOK, Calls
      <4>2. acked' \subseteq acked \cup {call[c].key}
        BY <3>3 DEF Return
      <4> QED
        BY <3>2, <4>1, <4>2 DEF RecordedStays, KeysOnlyGrow, Live
    <3>4. CASE acked' = acked
      BY <3>2, <3>4 DEF RecordedStays, KeysOnlyGrow, Live
    <3> QED
      BY <2>2, <3>1, <3>3, <3>4, Zenon DEF Read
  <2>3. CASE ~Write(c) /\ ~Read(c)
    <3>1. history' = history /\ acked' = acked
      BY <1>3, <2>3 DEF Caller, SetRaw, StoreDelete, Start, Retry, GiveUp, Watch
    <3> QED
      BY <3>1 DEF RecordedStays, KeysOnlyGrow, Live
  <2> QED
    BY <2>1, <2>2, <2>3
<1> QED
  BY <1>1, <1>2, <1>3 DEF Next

\* No lost updates while schedules only go to sleep: for any number of callers
\* with caches of any age, an entry whose SetRaw returned nil is there to stay
\* until some Delete is called.
THEOREM NoLostUpdates == Spec => []RecordedStays
<1>1. Init => CallsAreSound /\ DeletesAreRecorded /\ KeysOnlyGrow /\ RecordedStays
  BY DEF Init, CallsAreSound, DeletesAreRecorded, KeysOnlyGrow, RecordedStays
<1> QED
  BY <1>1, InitTypeOK, NextTypeOK, NextCallsAreSound, NextDeletesAreRecorded,
     NextRecordedStays, PTL DEF Spec

-----------------------------------------------------------------------------

\* A write is one step of the promise, made at the moment it is accepted: a
\* Create where there is no Secret and an Update of the live version record or
\* forget one entry, and the deletion of the Secret wipes it.
LEMMA WriteRefines ==
  ASSUME TypeOK, CallsAreSound, NEW c \in Callers, Write(c)
  PROVE  Promise!Next \/ Live' = Live
<1> USE StoreAssumption
<1>1. /\ call[c] \in Calls /\ Live \in Secret /\ history \in Seq(Secret)
      /\ call[c].key \in Keys /\ call[c] # Nil /\ call[c].step = "write"
  BY DEF Write, TypeOK, Live, Calls
<1>2. Modified(c) \in Secret
  BY ModifiedIsSecret DEF Write
<1>3. Live' = Modified(c)
  BY <1>1, <1>2 DEF Write, Live
<1>4. call[c].op = "set" => call[c].value \in Originals
  BY <1>1 DEF CallsAreSound, Calls
<1>5. CASE call[c].op = "set" /\ history[call[c].base] = NoSecret
  <2>1. Live = NoSecret
    BY <1>5 DEF Write, Accepted
  <2>2. Promise!Record(call[c].key, call[c].value)
    BY <1>1, <1>3, <1>5, <2>1 DEF Promise!Record, Modified, NoSecret
  <2> QED
    BY <1>1, <1>4, <1>5, <2>2 DEF Promise!Next
<1>6. CASE call[c].op = "delete" /\ Modified(c) = NoSecret
  BY <1>3, <1>6 DEF Promise!Next, Promise!Wipe, Promise!Empty, NoSecret
<1>7. CASE call[c].base = Len(history)
  <2>1. Live' = [Live EXCEPT ![call[c].key] = call[c].value]
    BY <1>3, <1>7 DEF Modified, Live
  <2>2. CASE call[c].op = "set"
    <3>1. Live[call[c].key] = Nil
      BY <1>1, <1>7, <2>2 DEF CallsAreSound, Live
    <3> QED
      BY <1>1, <1>4, <2>1, <2>2, <3>1 DEF Promise!Next, Promise!Record
  <2>3. CASE call[c].op = "delete"
    <3>1. call[c].value = Nil
      BY <1>1, <2>3 DEF CallsAreSound
    <3>2. CASE Live[call[c].key] = Nil
      BY <1>1, <2>1, <3>1, <3>2 DEF Secret
    <3>3. CASE Live[call[c].key] # Nil
      BY <1>1, <2>1, <3>1, <3>3 DEF Promise!Next, Promise!Forget
    <3> QED
      BY <3>2, <3>3
  <2> QED
    BY <1>1, <2>2, <2>3 DEF Calls
<1> QED
  BY <1>1, <1>5, <1>6, <1>7 DEF Write, Accepted, Calls

\* For any number of callers with caches of any age the store implements its
\* promise: each call that changes the Secret does so in one step, on the
\* entries as they are at that moment.
THEOREM StoreImplementsCheckpoints == Spec => ImplementsCheckpoints
<1>1. Init => Promise!Init
  BY DEF Init, Live, NoSecret, Promise!Init, Promise!Empty
<1>2. TypeOK /\ CallsAreSound /\ [Next]_vars => [Promise!Next]_Live
  <2> SUFFICES ASSUME TypeOK, CallsAreSound, [Next]_vars
               PROVE  Promise!Next \/ Live' = Live
    OBVIOUS
  <2>1. CASE UNCHANGED vars
    BY <2>1 DEF vars, Live
  <2>2. ASSUME NEW c \in Callers, Caller(c)
        PROVE  Promise!Next \/ Live' = Live
    <3>1. CASE Write(c)
      BY <3>1, WriteRefines
    <3>2. CASE ~Write(c)
      <4>1. history' = history
        BY <2>2, <3>2 DEF Caller, SetRaw, StoreDelete, Start, Read, Retry, GiveUp, Watch
      <4> QED
        BY <4>1 DEF Live
    <3> QED
      BY <3>1, <3>2
  <2> QED
    BY <2>1, <2>2 DEF Next
<1>3. Init => CallsAreSound
  BY DEF Init, CallsAreSound
<1> QED
  BY <1>1, <1>2, <1>3, InitTypeOK, NextTypeOK, NextCallsAreSound, PTL
     DEF Spec, ImplementsCheckpoints, Promise!Spec
=============================================================================
