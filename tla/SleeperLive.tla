----------------------------- MODULE SleeperLive -----------------------------
(***************************************************************************)
(* What the operator does once it is left alone: from some point on there  *)
(* are no more faults, owners' changes or transitions, and what was queued *)
(* by then is worked off.  A worker goroutine that has a step to take      *)
(* takes it, and the watch delivers what it has to deliver: these are the  *)
(* only fairness assumptions.                                              *)
(***************************************************************************)
EXTENDS Sleeper

VARIABLE calm

OperatorStep == Worker /\ Settled /\ UNCHANGED calm
WatchStep == Deliver /\ UNCHANGED calm

LiveInit == Init /\ calm = FALSE

LiveNext == \/ OperatorStep
            \/ WatchStep
            \/ ~calm /\ (Faults \/ Owners \/ Control) /\ Settled /\ UNCHANGED calm
            \/ calm' = TRUE /\ UNCHANGED vars

LiveSpec == /\ LiveInit
            /\ [][LiveNext]_<<vars, calm>>
            /\ WF_<<vars, calm>>(OperatorStep)
            /\ WF_<<vars, calm>>(WatchStep)

Restored(s) == \A w \in Targets(s) :
                 LiveObj(w) # Nil =>
                   /\ Captured(Kind[w], LiveObj(w).val) = orig[w]
                   /\ LiveEntry(s, w, LiveObj(w).uid) = Nil

Slept(s) == \A w \in Targets(s) :
              LiveObj(w) # Nil =>
                LiveObj(w).unsafe \/ IsAsleep(Kind[w], LiveObj(w).val)

\* A schedule in the workqueue that is to be awake gets its targets restored,
\* however far earlier passes came before they failed.
EventuallyRestored ==
  \A s \in Schedules :
    (calm /\ s \in queue /\ desired[s] = "awake" /\ ~dryRun[s]) ~> Restored(s)

\* A schedule in the workqueue that is to be asleep gets its targets to sleep
\* (the kinds whose Sleep patches also when it finds a checkpoint).
EventuallySlept ==
  \A s \in Schedules :
    (calm /\ s \in queue /\ desired[s] = "asleep" /\ ~dryRun[s]) ~> Slept(s)

\* The operator comes to rest: its own status writes and retries do not keep
\* it reconciling (Reconcile writes the status only when it changed).
ComesToRest == calm ~> [](pc = "idle" /\ queue = {})
=============================================================================
