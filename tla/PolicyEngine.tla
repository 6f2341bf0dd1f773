---------------------------- MODULE PolicyEngine ----------------------------
(***************************************************************************)
(* The tier state machine of src/governor/policy_engine.cpp.  One call of  *)
(* evaluate(data) is one step: Promote, Demote or Hold, according to which *)
(* of the debounced promotion and demotion checks fires.  PSI averages and *)
(* thresholds are only ever compared, so they are naturals (percent);      *)
(* shrink_pct is in percent too.                                           *)
(***************************************************************************)
EXTENDS Integers

CONSTANTS
  NumTiers,   \* configs_.size(); the constructor replaces an empty vector
  Config,     \* configs_, indexed by tier
  Samples     \* the PsiData values a poll may deliver

TierConfig ==
  [promote_threshold : Nat, demote_threshold : Nat,
   debounce_polls : Nat \ {0}, shrink_pct : 0 .. 100]

PsiData == [some_avg10 : Nat, some_avg60 : Nat]

ASSUME EngineAssumption ==
  /\ NumTiers \in Nat \ {0}
  /\ Config \in [0 .. NumTiers - 1 -> TierConfig]
  /\ Samples \subseteq PsiData

VARIABLES
  current_tier,               \* current_tier_
  consecutive_promote_polls,  \* consecutive_promote_polls_
  consecutive_demote_polls,   \* consecutive_demote_polls_
  action                      \* the PolicyAction the last evaluate returned

engineVars ==
  <<current_tier, consecutive_promote_polls, consecutive_demote_polls, action>>

NORMAL == 0
CRITICAL == 3

Tiers == 0 .. NumTiers - 1
TopTier == NumTiers - 1

PolicyAction ==
  [type : {"NONE", "SHRINK", "GROW"}, fraction : 0 .. 100, new_tier : Tiers]

Answer(type, fraction, new_tier) ==
  [type |-> type, fraction |-> fraction, new_tier |-> new_tier]

-----------------------------------------------------------------------------

(* The promotion check: the next tier's threshold against avg10, and for   *)
(* CRITICAL the current tier's promote threshold against avg60 as well.    *)
PromoteCondition(t, d) ==
  /\ t < TopTier
  /\ \/ d.some_avg10 >= Config[t + 1].promote_threshold
     \/ /\ t + 1 = CRITICAL
        /\ d.some_avg60 >= Config[t].promote_threshold

(* The demotion check: avg10 against the current tier's lower threshold. *)
DemoteCondition(t, d) ==
  /\ t > NORMAL
  /\ d.some_avg10 < Config[t].demote_threshold

(* The two counters as the promotion check leaves them. *)
PromotePolls(d) ==
  IF PromoteCondition(current_tier, d) THEN consecutive_promote_polls + 1
  ELSE IF current_tier = TopTier THEN consecutive_promote_polls ELSE 0

(* Mutant: the promotion check clears the demotion streak in every case. *)
DemotePollsCleared(d) == 0

DemotePolls(d) ==
  IF PromoteCondition(current_tier, d) THEN 0 ELSE consecutive_demote_polls

(* Mutant: the debounce comparison is off by one. *)
PromotesEarly(d) ==
  /\ PromoteCondition(current_tier, d)
  /\ PromotePolls(d) + 1 >= Config[current_tier + 1].debounce_polls

(* Mutant: the debounce comparison is strict. *)
PromotesLate(d) ==
  /\ PromoteCondition(current_tier, d)
  /\ PromotePolls(d) > Config[current_tier + 1].debounce_polls

Promotes(d) ==
  /\ PromoteCondition(current_tier, d)
  /\ PromotePolls(d) >= Config[current_tier + 1].debounce_polls

Demotes(d) ==
  /\ ~Promotes(d)
  /\ DemoteCondition(current_tier, d)
  /\ DemotePolls(d) + 1 >= Config[current_tier].debounce_polls

-----------------------------------------------------------------------------

Init ==
  /\ current_tier = NORMAL
  /\ consecutive_promote_polls = 0
  /\ consecutive_demote_polls = 0
  /\ action = Answer("NONE", 0, NORMAL)

(* Mutant: the tier jumps straight to the top. *)
PromoteToTop(d) ==
  /\ Promotes(d)
  /\ current_tier' = TopTier
  /\ consecutive_promote_polls' = 0
  /\ consecutive_demote_polls' = 0
  /\ action' = Answer("SHRINK", Config[TopTier].shrink_pct, TopTier)

Promote(d) ==
  /\ Promotes(d)
  /\ current_tier' = current_tier + 1
  /\ consecutive_promote_polls' = 0
  /\ consecutive_demote_polls' = 0
  /\ action' = Answer("SHRINK", Config[current_tier + 1].shrink_pct,
                      current_tier + 1)

Demote(d) ==
  /\ Demotes(d)
  /\ current_tier' = current_tier - 1
  /\ consecutive_promote_polls' = 0
  /\ consecutive_demote_polls' = 0
  /\ action' = Answer("GROW", Config[current_tier].shrink_pct,
                      current_tier - 1)

(* Mutant: a sample in the hysteresis band does not break a streak. *)
HoldStreak(d) ==
  /\ ~Promotes(d)
  /\ ~Demotes(d)
  /\ consecutive_promote_polls' =
       IF PromoteCondition(current_tier, d)
       THEN PromotePolls(d) ELSE consecutive_promote_polls
  /\ consecutive_demote_polls' =
       IF DemoteCondition(current_tier, d)
       THEN DemotePolls(d) + 1 ELSE consecutive_demote_polls
  /\ action' = Answer("NONE", 0, current_tier)
  /\ UNCHANGED current_tier

Hold(d) ==
  /\ ~Promotes(d)
  /\ ~Demotes(d)
  /\ consecutive_promote_polls' =
       IF DemoteCondition(current_tier, d) THEN 0 ELSE PromotePolls(d)
  /\ consecutive_demote_polls' =
       IF DemoteCondition(current_tier, d) THEN DemotePolls(d) + 1
       ELSE IF current_tier = NORMAL THEN DemotePolls(d) ELSE 0
  /\ action' = Answer("NONE", 0, current_tier)
  /\ UNCHANGED current_tier

Evaluate(d) == Promote(d) \/ Demote(d) \/ Hold(d)

(* reset(): it returns nothing, so the last answer stands. *)
Reset ==
  /\ current_tier' = NORMAL
  /\ consecutive_promote_polls' = 0
  /\ consecutive_demote_polls' = 0
  /\ UNCHANGED action

Next == (\E d \in Samples : Evaluate(d)) \/ Reset

Spec == Init /\ [][Next]_engineVars

-----------------------------------------------------------------------------

TypeOK ==
  /\ current_tier \in Tiers
  /\ consecutive_promote_polls \in Nat
  /\ consecutive_demote_polls \in Nat
  /\ action \in PolicyAction

(* A poll counter never reaches the debounce count of the transition it    *)
(* counts for: reaching it is the transition.  In particular a counter     *)
(* built up at one tier is never read against another tier's debounce      *)
(* count, and the ints of policy_engine.h:44-45 cannot overflow.           *)
CountersBelowDebounce ==
  /\ consecutive_promote_polls > 0 =>
       /\ current_tier < TopTier
       /\ consecutive_promote_polls < Config[current_tier + 1].debounce_polls
  /\ consecutive_demote_polls > 0 =>
       /\ current_tier > NORMAL
       /\ consecutive_demote_polls < Config[current_tier].debounce_polls

(* The engine never counts towards a promotion and a demotion at once,     *)
(* although one sample may satisfy both checks of evaluate (a low avg10    *)
(* with a high avg60 at HIGH).                                             *)
OneStreakAtATime ==
  consecutive_promote_polls = 0 \/ consecutive_demote_polls = 0

(* Every evaluation answers as the abstract ladder says: one rung at a     *)
(* time, SHRINK on the way up and GROW on the way down, with the fraction  *)
(* of the tier entered or left.                                            *)
Ladder == INSTANCE TierLadder WITH
  ShrinkPct <- [t \in Tiers |-> Config[t].shrink_pct],
  tier <- current_tier

ImplementsLadder == Ladder!Spec

=============================================================================
