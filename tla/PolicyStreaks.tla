--------------------------- MODULE PolicyStreaks ---------------------------
(***************************************************************************)
(* PolicyEngine with a record of the samples it has seen, so that its      *)
(* debouncing can be judged by what was actually measured and not by the   *)
(* engine's own counters.  The history variables never influence a step.   *)
(***************************************************************************)
EXTENDS PolicyEngine

CONSTANT
  MaxRun      \* the history counters saturate here

ASSUME MaxRunAssumption ==
  /\ MaxRun \in Nat
  /\ \A t \in 0 .. NumTiers - 1 : Config[t].debounce_polls <= MaxRun

VARIABLES
  runs,       \* lengths of the unbroken runs that end with the last sample
  lastSample  \* the PsiData of the last step, NoSample if it was a reset

streakVars == <<engineVars, runs, lastSample>>

NoSample == [some_avg10 |-> -1, some_avg60 |-> -1]

(* All runs count samples evaluated at the current tier only:              *)
(*   above    samples that met the promotion check                         *)
(*   below    samples that met the demotion check                          *)
(*   pressed  samples that met the promotion check and not the demotion one*)
(*   calm     samples that met the demotion check and not the promotion one*)
Runs == [above : 0 .. MaxRun, below : 0 .. MaxRun,
         pressed : 0 .. MaxRun, calm : 0 .. MaxRun]

NoRuns == [above |-> 0, below |-> 0, pressed |-> 0, calm |-> 0]

Longer(n, met) ==
  IF met THEN IF n < MaxRun THEN n + 1 ELSE MaxRun ELSE 0

(* The runs once sample d, evaluated at tier t, has been counted. *)
Counted(t, d) ==
  LET P == PromoteCondition(t, d)
      D == DemoteCondition(t, d)
  IN  [above |-> Longer(runs.above, P), below |-> Longer(runs.below, D),
       pressed |-> Longer(runs.pressed, P /\ ~D),
       calm |-> Longer(runs.calm, D /\ ~P)]

StreakInit ==
  /\ Init
  /\ runs = NoRuns
  /\ lastSample = NoSample

StreakEvaluate(d) ==
  /\ Evaluate(d)
  /\ runs' = IF current_tier' = current_tier
             THEN Counted(current_tier, d) ELSE NoRuns
  /\ lastSample' = d

StreakReset ==
  /\ Reset
  /\ runs' = NoRuns
  /\ lastSample' = NoSample

StreakNext == (\E d \in Samples : StreakEvaluate(d)) \/ StreakReset

StreakSpec == StreakInit /\ [][StreakNext]_streakVars

-----------------------------------------------------------------------------

StreakTypeOK ==
  /\ TypeOK
  /\ runs \in Runs
  /\ lastSample \in Samples \cup {NoSample}

(* Debounce, one direction: evaluate never changes the tier before the     *)
(* configured number of consecutive samples has asked for it.  The sample  *)
(* of the step itself must ask for it and is the last of the run, hence    *)
(* the + 1.                                                                *)
TransitionJustified ==
  [][/\ current_tier' > current_tier =>
          /\ PromoteCondition(current_tier, lastSample')
          /\ runs.above + 1 >= Config[current_tier + 1].debounce_polls
     /\ current_tier' < current_tier /\ lastSample' # NoSample =>
          /\ DemoteCondition(current_tier, lastSample')
          /\ runs.below + 1 >= Config[current_tier].debounce_polls]_streakVars

(* Debounce, the other direction: a run of samples that ask for one and    *)
(* the same transition never outlives the debounce count, so no transition *)
(* that is due is missed, whatever was measured before the run.            *)
NoTransitionMissed ==
  /\ current_tier < TopTier =>
       runs.pressed < Config[current_tier + 1].debounce_polls
  /\ current_tier > NORMAL =>
       runs.calm < Config[current_tier].debounce_polls

(* policy_engine.cpp:92-95: demotion takes avg10 below the current tier's  *)
(* demote threshold "for debounce consecutive polls".  The code does not   *)
(* do this at HIGH while avg60 is still at its promote threshold: every    *)
(* sample then restarts the demotion count.                                *)
SustainedCalmDemotes ==
  current_tier > NORMAL => runs.below < Config[current_tier].debounce_polls

(* The inductive strengthening behind the two debounce properties: the     *)
(* engine's counters lie between the run of samples that ask only for the  *)
(* transition and the run of all samples that ask for it.                  *)
StreakInv ==
  /\ StreakTypeOK
  /\ CountersBelowDebounce
  /\ OneStreakAtATime
  /\ runs.pressed <= consecutive_promote_polls
  /\ consecutive_promote_polls <= runs.above
  /\ runs.calm <= consecutive_demote_polls
  /\ consecutive_demote_polls <= runs.below

=============================================================================
