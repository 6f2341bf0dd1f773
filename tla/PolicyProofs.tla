---------------------------- MODULE PolicyProofs ----------------------------
(***************************************************************************)
(* Proofs about the policy engine for every tier table and every set of    *)
(* PSI samples: the debounce properties of PolicyStreaks, and that the     *)
(* engine implements TierLadder.                                           *)
(***************************************************************************)
EXTENDS PolicyStreaks, TLAPS

(* What the tier table gives for a tier and, below the top, for the next.  *)
LEMMA ConfigTypes ==
  ASSUME NEW t \in Tiers
  PROVE  /\ t \in Nat
         /\ TopTier \in Nat
         /\ t <= TopTier
         /\ Config[t] \in TierConfig
         /\ Config[t].debounce_polls \in Nat \ {0}
         /\ Config[t].debounce_polls <= MaxRun
         /\ Config[t].shrink_pct \in 0 .. 100
         /\ t < TopTier => t + 1 \in Tiers
         /\ t > NORMAL => t - 1 \in Tiers
  <1>1. NumTiers \in Nat \ {0} /\ t \in 0 .. NumTiers - 1
    BY EngineAssumption DEF Tiers
  <1>2. Config[t] \in TierConfig
    BY <1>1, EngineAssumption
  <1>3. /\ Config[t].debounce_polls \in Nat \ {0}
        /\ Config[t].shrink_pct \in 0 .. 100
    BY <1>2 DEF TierConfig
  <1>4. Config[t].debounce_polls <= MaxRun
    BY <1>1, MaxRunAssumption
  <1>5. /\ t \in Nat /\ TopTier \in Nat /\ t <= TopTier
        /\ t < TopTier => t + 1 \in Tiers
        /\ t > NORMAL => t - 1 \in Tiers
    BY <1>1 DEF Tiers, TopTier, NORMAL
  <1> QED BY <1>2, <1>3, <1>4, <1>5

(* The constructor sets both counters to zero, as are all runs. *)
LEMMA InitStreakInv == StreakInit => StreakInv
  <1> SUFFICES ASSUME StreakInit PROVE StreakInv
    OBVIOUS
  <1>1. NORMAL \in Tiers
    BY EngineAssumption DEF Tiers, NORMAL
  <1>2. Answer("NONE", 0, NORMAL) \in PolicyAction
    BY <1>1 DEF Answer, PolicyAction
  <1>3. NoRuns \in Runs
    BY MaxRunAssumption DEF NoRuns, Runs
  <1>4. StreakTypeOK
    BY <1>1, <1>2, <1>3 DEF StreakInit, Init, StreakTypeOK, TypeOK
  <1> QED
    BY <1>4 DEF StreakInit, Init, StreakInv, CountersBelowDebounce,
                OneStreakAtATime, NoRuns

(* A promotion starts both counters and all runs anew at the next tier. *)
LEMMA PromoteStep ==
  ASSUME StreakInv, NEW d \in Samples, Promote(d), StreakEvaluate(d)
  PROVE  StreakInv'
  <1>1. current_tier \in Tiers /\ current_tier < TopTier
    BY DEF StreakInv, StreakTypeOK, TypeOK, Promote, Promotes, PromoteCondition
  <1>2. current_tier' = current_tier + 1 /\ current_tier' \in Tiers
    BY <1>1, ConfigTypes DEF Promote
  <1>3. action' \in PolicyAction
    BY <1>1, <1>2, ConfigTypes DEF Promote, Answer, PolicyAction
  <1>4. runs' = NoRuns /\ lastSample' \in Samples
    BY <1>1, <1>2, ConfigTypes DEF StreakEvaluate
  <1>5. NoRuns \in Runs
    BY MaxRunAssumption DEF NoRuns, Runs
  <1>6. consecutive_promote_polls' = 0 /\ consecutive_demote_polls' = 0
    BY DEF Promote
  <1> QED
    BY <1>2, <1>3, <1>4, <1>5, <1>6
    DEF StreakInv, StreakTypeOK, TypeOK, CountersBelowDebounce,
        OneStreakAtATime, NoRuns

(* A demotion starts both counters and all runs anew at the tier below. *)
LEMMA DemoteStep ==
  ASSUME StreakInv, NEW d \in Samples, Demote(d), StreakEvaluate(d)
  PROVE  StreakInv'
  <1>1. current_tier \in Tiers /\ current_tier > NORMAL
    BY DEF StreakInv, StreakTypeOK, TypeOK, Demote, Demotes, DemoteCondition
  <1>2. current_tier' = current_tier - 1 /\ current_tier' \in Tiers
    BY <1>1, ConfigTypes DEF Demote
  <1>3. action' \in PolicyAction
    BY <1>1, <1>2, ConfigTypes DEF Demote, Answer, PolicyAction
  <1>4. runs' = NoRuns /\ lastSample' \in Samples
    BY <1>1, <1>2, ConfigTypes DEF StreakEvaluate
  <1>5. NoRuns \in Runs
    BY MaxRunAssumption DEF NoRuns, Runs
  <1>6. consecutive_promote_polls' = 0 /\ consecutive_demote_polls' = 0
    BY DEF Demote
  <1> QED
    BY <1>2, <1>3, <1>4, <1>5, <1>6
    DEF StreakInv, StreakTypeOK, TypeOK, CountersBelowDebounce,
        OneStreakAtATime, NoRuns

(* The step that moves nothing is the one that could drift from the        *)
(* history: one case per combination of the two checks.                    *)
LEMMA HoldStep ==
  ASSUME StreakInv, NEW d \in Samples, Hold(d), StreakEvaluate(d)
  PROVE  StreakInv'
  <1> DEFINE t == current_tier
             P == PromoteCondition(t, d)
             D == DemoteCondition(t, d)
             cp == consecutive_promote_polls
             cd == consecutive_demote_polls
  <1>1. /\ t \in Tiers /\ cp \in Nat /\ cd \in Nat
        /\ runs \in Runs /\ P \in BOOLEAN /\ D \in BOOLEAN
    BY DEF StreakInv, StreakTypeOK, TypeOK, PromoteCondition, DemoteCondition
  <1>2. /\ current_tier' = t
        /\ runs' = Counted(t, d)
        /\ lastSample' \in Samples
        /\ action' = Answer("NONE", 0, t)
    BY DEF Hold, StreakEvaluate
  <1>3. action' \in PolicyAction
    BY <1>1, <1>2 DEF Answer, PolicyAction
  <1>4. /\ runs.above \in 0 .. MaxRun /\ runs.below \in 0 .. MaxRun
        /\ runs.pressed \in 0 .. MaxRun /\ runs.calm \in 0 .. MaxRun
    BY <1>1 DEF Runs
  <1>5. /\ runs'.above =
             IF P THEN IF runs.above < MaxRun THEN runs.above + 1 ELSE MaxRun
             ELSE 0
        /\ runs'.below =
             IF D THEN IF runs.below < MaxRun THEN runs.below + 1 ELSE MaxRun
             ELSE 0
        /\ runs'.pressed =
             IF P /\ ~D
             THEN IF runs.pressed < MaxRun THEN runs.pressed + 1 ELSE MaxRun
             ELSE 0
        /\ runs'.calm =
             IF D /\ ~P
             THEN IF runs.calm < MaxRun THEN runs.calm + 1 ELSE MaxRun
             ELSE 0
    BY <1>2 DEF Counted, Longer
  <1>6. runs' \in Runs
    <2>1. runs' = [above |-> runs'.above, below |-> runs'.below,
                   pressed |-> runs'.pressed, calm |-> runs'.calm]
      BY <1>2 DEF Counted
    <2>2. /\ runs'.above \in 0 .. MaxRun /\ runs'.below \in 0 .. MaxRun
          /\ runs'.pressed \in 0 .. MaxRun /\ runs'.calm \in 0 .. MaxRun
      BY <1>4, <1>5, MaxRunAssumption
    <2> QED BY <2>1, <2>2 DEF Runs
  <1>7. /\ cp' = IF D THEN 0 ELSE PromotePolls(d)
        /\ D => cd' = DemotePolls(d) + 1
        /\ ~D /\ t = NORMAL => cd' = DemotePolls(d)
        /\ ~D /\ t # NORMAL => cd' = 0
    BY <1>1 DEF Hold
  <1>8. /\ P => PromotePolls(d) = cp + 1 /\ DemotePolls(d) = 0
        /\ ~P /\ t = TopTier => PromotePolls(d) = cp
        /\ ~P /\ t # TopTier => PromotePolls(d) = 0
        /\ ~P => DemotePolls(d) = cd
    BY DEF PromotePolls, DemotePolls
  <1>9. /\ P => t < TopTier
        /\ P => PromotePolls(d) < Config[t + 1].debounce_polls
        /\ D => t > NORMAL
        /\ D => DemotePolls(d) + 1 < Config[t].debounce_polls
    <2>1. P => t < TopTier /\ t + 1 \in Tiers
      BY <1>1, ConfigTypes DEF PromoteCondition
    <2>2. D => t > NORMAL
      BY DEF DemoteCondition
    <2>3. P => /\ PromotePolls(d) \in Nat
               /\ Config[t + 1].debounce_polls \in Nat
      BY <1>1, <1>8, <2>1, ConfigTypes
    <2>4. P => ~(PromotePolls(d) >= Config[t + 1].debounce_polls)
      BY DEF Hold, Promotes
    <2>5. D => ~(DemotePolls(d) + 1 >= Config[t].debounce_polls)
      BY DEF Hold, Demotes
    <2>6. DemotePolls(d) \in Nat /\ Config[t].debounce_polls \in Nat
      BY <1>1, <1>8, ConfigTypes
    <2> QED
      BY <2>1, <2>2, <2>3, <2>4, <2>5, <2>6
  <1>10. /\ P => Config[t + 1].debounce_polls \in Nat
         /\ P => Config[t + 1].debounce_polls <= MaxRun
         /\ Config[t].debounce_polls \in Nat
         /\ Config[t].debounce_polls <= MaxRun
    BY <1>1, <1>9, ConfigTypes
  <1>11. /\ cp > 0 => t < TopTier
         /\ cd > 0 => t > NORMAL
         /\ runs.pressed <= cp /\ cp <= runs.above
         /\ runs.calm <= cd /\ cd <= runs.below
    BY DEF StreakInv, CountersBelowDebounce
  <1>12. MaxRun \in Nat /\ NORMAL = 0 /\ t \in Nat /\ TopTier \in Nat
    BY <1>1, MaxRunAssumption, ConfigTypes DEF NORMAL
  <1>13. /\ cp' \in Nat /\ cd' \in Nat
         /\ cp' = 0 \/ cd' = 0
         /\ cp' > 0 => t < TopTier /\ cp' < Config[t + 1].debounce_polls
         /\ cd' > 0 => t > NORMAL /\ cd' < Config[t].debounce_polls
    BY <1>1, <1>7, <1>8, <1>9, <1>10, <1>11, <1>12
  <1>14. runs'.pressed <= cp' /\ cp' <= runs'.above
    <2>1. CASE P /\ ~D
      BY <2>1, <1>1, <1>4, <1>5, <1>7, <1>8, <1>9, <1>10, <1>11, <1>12
    <2>2. CASE ~P \/ D
      <3>1. runs'.pressed = 0 /\ cp' = 0
        BY <2>2, <1>4, <1>5, <1>7, <1>8, <1>11, <1>12, <1>1
      <3>2. runs'.above \in Nat
        BY <1>6, <1>12 DEF Runs
      <3> QED BY <3>1, <3>2
    <2> QED BY <2>1, <2>2
  <1>15. runs'.calm <= cd' /\ cd' <= runs'.below
    <2>1. CASE D /\ ~P
      BY <2>1, <1>1, <1>4, <1>5, <1>7, <1>8, <1>9, <1>10, <1>11, <1>12
    <2>2. CASE D /\ P
      <3>1. cd' = 1 /\ runs'.calm = 0
        BY <2>2, <1>4, <1>5, <1>7, <1>8
      <3>2. 1 < MaxRun
        BY <2>2, <1>8, <1>9, <1>10, <1>12
      <3>3. runs'.below >= 1
        BY <2>2, <3>2, <1>4, <1>5, <1>12
      <3> QED BY <3>1, <3>3, <1>6, <1>12 DEF Runs
    <2>3. CASE ~D
      <3>1. cd' = 0 /\ runs'.calm = 0
        BY <2>3, <1>1, <1>4, <1>5, <1>7, <1>8, <1>11, <1>12
      <3>2. runs'.below \in Nat
        BY <1>6, <1>12 DEF Runs
      <3> QED BY <3>1, <3>2
    <2> QED BY <2>1, <2>2, <2>3
  <1>16. StreakTypeOK'
    BY <1>1, <1>2, <1>3, <1>6, <1>13 DEF StreakTypeOK, TypeOK
  <1> QED
    BY <1>2, <1>13, <1>14, <1>15, <1>16
    DEF StreakInv, CountersBelowDebounce, OneStreakAtATime

(* reset() starts everything anew at NORMAL. *)
LEMMA ResetStep ==
  ASSUME StreakInv, StreakReset
  PROVE  StreakInv'
  <1>1. NORMAL \in Tiers /\ NoRuns \in Runs
    BY EngineAssumption, MaxRunAssumption DEF Tiers, NORMAL, NoRuns, Runs
  <1> QED
    BY <1>1
    DEF StreakReset, Reset, StreakInv, StreakTypeOK, TypeOK,
        CountersBelowDebounce, OneStreakAtATime, NoRuns

(* policy_engine.cpp, evaluate and reset: the engine's two counters always *)
(* lie between the runs of samples that justify them.                      *)
THEOREM StreakInvariance == StreakSpec => []StreakInv
  <1>1. ASSUME StreakInv, [StreakNext]_streakVars PROVE StreakInv'
    <2>1. ASSUME NEW d \in Samples, StreakEvaluate(d) PROVE StreakInv'
      <3>1. Promote(d) \/ Demote(d) \/ Hold(d)
        BY <2>1 DEF StreakEvaluate, Evaluate
      <3> QED BY <1>1, <2>1, <3>1, PromoteStep, DemoteStep, HoldStep
    <2>2. CASE StreakReset
      BY <1>1, <2>2, ResetStep
    <2>3. CASE UNCHANGED streakVars
      BY <1>1, <2>3
      DEF streakVars, engineVars, StreakInv, StreakTypeOK, TypeOK,
          CountersBelowDebounce, OneStreakAtATime
    <2> QED BY <1>1, <2>1, <2>2, <2>3 DEF StreakNext
  <1> QED
    BY <1>1, InitStreakInv, PTL DEF StreakSpec

(* Reaching the debounce count is the transition: no counter is ever left  *)
(* at or above it, and the two counters never run together.                *)
THEOREM CountersCorrect ==
  StreakSpec => [](StreakTypeOK /\ CountersBelowDebounce /\ OneStreakAtATime)
  <1>1. StreakInv => StreakTypeOK /\ CountersBelowDebounce /\ OneStreakAtATime
    BY DEF StreakInv
  <1> QED BY <1>1, StreakInvariance, PTL

(* evaluate misses no transition that is due: a run of samples that ask    *)
(* for one transition only never outlives the debounce count.              *)
THEOREM NothingMissed == StreakSpec => []NoTransitionMissed
  <1>1. ASSUME StreakInv PROVE NoTransitionMissed
    <2>1. /\ current_tier \in Tiers
          /\ consecutive_promote_polls \in Nat
          /\ consecutive_demote_polls \in Nat
          /\ runs.pressed \in 0 .. MaxRun /\ runs.calm \in 0 .. MaxRun
      BY <1>1 DEF StreakInv, StreakTypeOK, TypeOK, Runs
    <2>2. /\ runs.pressed <= consecutive_promote_polls
          /\ runs.calm <= consecutive_demote_polls
      BY <1>1 DEF StreakInv
    <2>3. current_tier < TopTier =>
            runs.pressed < Config[current_tier + 1].debounce_polls
      <3> SUFFICES ASSUME current_tier < TopTier
                   PROVE  runs.pressed < Config[current_tier + 1].debounce_polls
        OBVIOUS
      <3>1. Config[current_tier + 1].debounce_polls \in Nat \ {0}
        BY <2>1, ConfigTypes
      <3>2. consecutive_promote_polls > 0 =>
              consecutive_promote_polls < Config[current_tier + 1].debounce_polls
        BY <1>1 DEF StreakInv, CountersBelowDebounce
      <3> QED BY <2>1, <2>2, <3>1, <3>2, MaxRunAssumption
    <2>4. current_tier > NORMAL =>
            runs.calm < Config[current_tier].debounce_polls
      <3>1. Config[current_tier].debounce_polls \in Nat \ {0}
        BY <2>1, ConfigTypes
      <3>2. consecutive_demote_polls > 0 =>
              consecutive_demote_polls < Config[current_tier].debounce_polls
        BY <1>1 DEF StreakInv, CountersBelowDebounce
      <3> QED BY <2>1, <2>2, <3>1, <3>2, MaxRunAssumption
    <2> QED BY <2>3, <2>4 DEF NoTransitionMissed
  <1> QED BY <1>1, StreakInvariance, PTL

(* evaluate moves the tier only after the configured number of consecutive *)
(* samples has asked for that very move.                                   *)
THEOREM TransitionsJustified == StreakSpec => TransitionJustified
  <1> DEFINE Justified ==
        /\ current_tier' > current_tier =>
             /\ PromoteCondition(current_tier, lastSample')
             /\ runs.above + 1 >= Config[current_tier + 1].debounce_polls
        /\ current_tier' < current_tier /\ lastSample' # NoSample =>
             /\ DemoteCondition(current_tier, lastSample')
             /\ runs.below + 1 >= Config[current_tier].debounce_polls
  <1>1. ASSUME StreakInv, [StreakNext]_streakVars
        PROVE  [Justified]_streakVars
    <2>0. /\ current_tier \in Tiers
          /\ consecutive_promote_polls \in Nat
          /\ consecutive_demote_polls \in Nat
          /\ runs.above \in 0 .. MaxRun /\ runs.below \in 0 .. MaxRun
          /\ consecutive_promote_polls <= runs.above
          /\ consecutive_demote_polls <= runs.below
          /\ MaxRun \in Nat
      BY <1>1, MaxRunAssumption
      DEF StreakInv, StreakTypeOK, TypeOK, Runs
    <2>00. /\ current_tier \in Nat /\ TopTier \in Nat
           /\ Config[current_tier].debounce_polls \in Nat
           /\ current_tier < TopTier =>
                 Config[current_tier + 1].debounce_polls \in Nat
      BY <2>0, ConfigTypes
    <2>1. ASSUME NEW d \in Samples, StreakEvaluate(d), Promote(d)
          PROVE  Justified
      <3>1. /\ current_tier' = current_tier + 1 /\ lastSample' = d
            /\ PromoteCondition(current_tier, d)
            /\ current_tier < TopTier
            /\ PromotePolls(d) >= Config[current_tier + 1].debounce_polls
        BY <2>1 DEF StreakEvaluate, Promote, Promotes, PromoteCondition
      <3>2. PromotePolls(d) = consecutive_promote_polls + 1
        BY <3>1 DEF PromotePolls
      <3>3. runs.above + 1 >= Config[current_tier + 1].debounce_polls
        BY <2>0, <2>00, <3>1, <3>2
      <3>4. ~(current_tier' < current_tier)
        BY <3>1, <2>00
      <3> QED BY <3>1, <3>3, <3>4
    <2>2. ASSUME NEW d \in Samples, StreakEvaluate(d), Demote(d)
          PROVE  Justified
      <3>1. /\ current_tier' = current_tier - 1 /\ lastSample' = d
            /\ DemoteCondition(current_tier, d)
            /\ DemotePolls(d) + 1 >= Config[current_tier].debounce_polls
        BY <2>2 DEF StreakEvaluate, Demote, Demotes
      <3>2. DemotePolls(d) = 0 \/ DemotePolls(d) = consecutive_demote_polls
        BY DEF DemotePolls
      <3>3. runs.below + 1 >= Config[current_tier].debounce_polls
        BY <2>0, <2>00, <3>1, <3>2
      <3>4. ~(current_tier' > current_tier)
        BY <3>1, <2>00
      <3> QED BY <3>1, <3>3, <3>4
    <2>3. ASSUME current_tier' = current_tier PROVE Justified
      BY <2>3, <2>00
    <2>4. ASSUME StreakReset PROVE Justified
      <3>1. current_tier' = 0 /\ lastSample' = NoSample
        BY <2>4 DEF StreakReset, Reset, NORMAL
      <3> QED BY <3>1, <2>00
    <2>5. ASSUME NEW d \in Samples, StreakEvaluate(d) PROVE Justified
      BY <2>1, <2>2, <2>3, <2>5 DEF StreakEvaluate, Evaluate, Hold
    <2> QED BY <1>1, <2>4, <2>5 DEF StreakNext
  <1> QED
    BY <1>1, StreakInvariance, PTL DEF StreakSpec, TransitionJustified

(* The tier stays on the ladder and every answer is well formed, with no   *)
(* reference to the history variables.                                     *)
THEOREM EngineTypeOK == Spec => []TypeOK
  <1>1. Init => TypeOK
    <2>1. NORMAL \in Tiers
      BY EngineAssumption DEF Tiers, NORMAL
    <2> QED BY <2>1 DEF Init, TypeOK, Answer, PolicyAction
  <1>2. ASSUME TypeOK, [Next]_engineVars PROVE TypeOK'
    <2>0. /\ current_tier \in Tiers /\ NORMAL \in Tiers
          /\ consecutive_promote_polls \in Nat
          /\ consecutive_demote_polls \in Nat
      BY <1>2, EngineAssumption DEF TypeOK, Tiers, NORMAL
    <2>1. ASSUME NEW d \in Samples, Promote(d) PROVE TypeOK'
      <3>1. current_tier + 1 \in Tiers
        BY <2>0, <2>1, ConfigTypes DEF Promote, Promotes, PromoteCondition
      <3>2. action' \in PolicyAction
        BY <2>1, <3>1, ConfigTypes DEF Promote, Answer, PolicyAction
      <3> QED BY <2>1, <3>1, <3>2 DEF Promote, TypeOK
    <2>2. ASSUME NEW d \in Samples, Demote(d) PROVE TypeOK'
      <3>1. current_tier - 1 \in Tiers
        BY <2>0, <2>2, ConfigTypes DEF Demote, Demotes, DemoteCondition
      <3>2. action' \in PolicyAction
        BY <2>0, <2>2, <3>1, ConfigTypes DEF Demote, Answer, PolicyAction
      <3> QED BY <2>2, <3>1, <3>2 DEF Demote, TypeOK
    <2>3. ASSUME NEW d \in Samples, Hold(d) PROVE TypeOK'
      <3>1. PromotePolls(d) \in Nat /\ DemotePolls(d) \in Nat
        BY <2>0 DEF PromotePolls, DemotePolls
      <3>2. consecutive_promote_polls' \in Nat /\ consecutive_demote_polls' \in Nat
        BY <2>3, <3>1 DEF Hold
      <3>3. action' \in PolicyAction /\ current_tier' = current_tier
        BY <2>0, <2>3 DEF Hold, Answer, PolicyAction
      <3> QED BY <2>0, <3>2, <3>3 DEF TypeOK
    <2>4. CASE Reset
      BY <1>2, <2>0, <2>4 DEF Reset, TypeOK
    <2>5. CASE UNCHANGED engineVars
      BY <1>2, <2>5 DEF engineVars, TypeOK
    <2> QED BY <1>2, <2>1, <2>2, <2>3, <2>4, <2>5 DEF Next, Evaluate
  <1> QED BY <1>1, <1>2, PTL DEF Spec

(* The engine implements the abstract tier ladder: evaluate answers SHRINK *)
(* with the fraction of the tier it enters, GROW with that of the tier it  *)
(* leaves, and moves by one tier at a time.                                *)
THEOREM EngineImplementsLadder == Spec => ImplementsLadder
  <1>1. Init => Ladder!Init
    BY DEF Init, Ladder!Init, NORMAL, Ladder!NORMAL, Answer, Ladder!Answer
  <1>2. ASSUME TypeOK, [Next]_engineVars
        PROVE  [Ladder!Next]_(Ladder!vars)
    <2> USE DEF NORMAL, Ladder!NORMAL, Answer, Ladder!Answer
    <2>0. current_tier \in Tiers /\ current_tier \in Nat /\ TopTier \in Nat
      BY <1>2, ConfigTypes DEF TypeOK
    <2>1. ASSUME NEW d \in Samples, Promote(d) PROVE Ladder!Up
      <3>1. current_tier < TopTier /\ current_tier + 1 \in Tiers
        BY <2>0, <2>1, ConfigTypes DEF Promote, Promotes, PromoteCondition
      <3> QED BY <2>1, <3>1 DEF Promote, Ladder!Up, TopTier
    <2>2. ASSUME NEW d \in Samples, Demote(d) PROVE Ladder!Down
      BY <2>0, <2>2 DEF Demote, Demotes, DemoteCondition, Ladder!Down
    <2>3. ASSUME NEW d \in Samples, Hold(d) PROVE Ladder!Stay
      BY <2>3 DEF Hold, Ladder!Stay
    <2>4. ASSUME Reset PROVE Ladder!Reset
      BY <2>4 DEF Reset, Ladder!Reset
    <2>5. ASSUME UNCHANGED engineVars PROVE UNCHANGED Ladder!vars
      BY <2>5 DEF engineVars, Ladder!vars
    <2> QED
      BY <1>2, <2>1, <2>2, <2>3, <2>4, <2>5
      DEF Next, Evaluate, Ladder!Next
  <1> QED
    BY <1>1, <1>2, EngineTypeOK, PTL DEF Spec, ImplementsLadder, Ladder!Spec

=============================================================================
