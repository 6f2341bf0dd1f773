----------------------------- MODULE TierLadder -----------------------------
(***************************************************************************)
(* What PolicyEngine (src/governor/policy_engine.cpp) promises the daemon, *)
(* without saying when: the pressure tier climbs or descends one rung at a *)
(* time, entering a tier is announced by SHRINK with that tier's fraction, *)
(* leaving it by GROW with the same fraction, and an evaluation that moves *)
(* nothing answers NONE.  PolicyEngine implements this specification, and  *)
(* the modules that only need the daemon's commands use it in its place.   *)
(***************************************************************************)
EXTENDS Integers

CONSTANTS
  NumTiers,   \* configs_.size()
  ShrinkPct   \* ShrinkPct[t]: the tier's shrink_pct, in percent

VARIABLES
  tier,       \* current_tier_
  action      \* the PolicyAction the last evaluation returned

vars == <<tier, action>>

NORMAL == 0

Tiers == 0 .. NumTiers - 1

PolicyAction ==
  [type : {"NONE", "SHRINK", "GROW"}, fraction : 0 .. 100, new_tier : Tiers]

Answer(type, fraction, new_tier) ==
  [type |-> type, fraction |-> fraction, new_tier |-> new_tier]

Init ==
  /\ tier = NORMAL
  /\ action = Answer("NONE", 0, NORMAL)

Up ==
  /\ tier < NumTiers - 1
  /\ tier' = tier + 1
  /\ action' = Answer("SHRINK", ShrinkPct[tier + 1], tier + 1)

Down ==
  /\ tier > NORMAL
  /\ tier' = tier - 1
  /\ action' = Answer("GROW", ShrinkPct[tier], tier - 1)

Stay ==
  /\ tier' = tier
  /\ action' = Answer("NONE", 0, tier)

(* reset() forgets the tier and announces nothing. *)
Reset ==
  /\ tier' = NORMAL
  /\ action' = action

Next == Up \/ Down \/ Stay \/ Reset

Spec == Init /\ [][Next]_vars

=============================================================================
