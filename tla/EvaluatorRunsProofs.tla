------------------------ MODULE EvaluatorRunsProofs ------------------------
(* The properties of module EvaluatorRuns, for zones with a fixed offset.    *)
EXTENDS EvaluatorRuns, EvaluatorProofs

FixedZones == \A family \in Families : \A z \in family.zones : Fixed(z)

RunInv == now \in Nat /\ Fixed(zone)

\* A run keeps its zone, and its clock is an integer.
LEMMA RunsAreFixed ==
  ASSUME FixedZones
  PROVE  Spec => []RunInv
<1>1. Init => RunInv
  BY RangeAssumption DEF Init, RunInv, FixedZones
<1>2. RunInv /\ [Tick]_vars => RunInv'
  BY DEF RunInv, Tick, vars
<1> QED
  BY <1>1, <1>2, PTL DEF Spec

\* NextTransition (evaluator.go) is the first flip, at every instant of every
\* run, whatever the windows.
THEOREM EveryFlipIsFound ==
  ASSUME FixedZones
  PROVE  Spec => []FindsNextFlip
<1>1. RunInv => FindsNextFlip
  BY NextTransitionIsFirstFlip DEF RunInv, FindsNextFlip
<1> QED
  BY <1>1, RunsAreFixed, PTL

\* scanHorizon is long enough: a schedule that changes within a week is never
\* left without a transition.
THEOREM NoFlipBeyondHorizon ==
  ASSUME FixedZones
  PROVE  Spec => []HorizonSuffices
<1>1. RunInv => HorizonSuffices
  <2> SUFFICES ASSUME RunInv, NEW t \in now .. now + 7 * DayLength - 1,
                      isAwakeAt(awake, zone, t) # isAwakeAt(awake, zone, now),
                      NextTransition(awake, zone, now) = Zero
               PROVE  FALSE
    BY DEF HorizonSuffices
  <2>1. now \in Nat /\ t \in Nat /\ now <= t
    BY DayIsPositive DEF RunInv
  <2>2. FirstFlip(awake, zone, now) = Zero
    BY <2>1, NextTransitionIsFirstFlip DEF RunInv
  <2> QED
    BY <2>1, <2>2, HorizonIsEnough DEF RunInv
<1> QED
  BY <1>1, RunsAreFixed, PTL
=============================================================================
