------------------------------ MODULE MCPolicy ------------------------------
(* Constants for model checking the policy engine: the default_configs()   *)
(* of policy_engine.cpp:6-14 and one PSI value in every interval that its  *)
(* thresholds cut out.                                                     *)
EXTENDS PolicyStreaks, TLC

Row(promote, demote, debounce, pct) ==
  [promote_threshold |-> promote, demote_threshold |-> demote,
   debounce_polls |-> debounce, shrink_pct |-> pct]

default_configs ==
  (0 :> Row(5, 0, 3, 0)) @@ (1 :> Row(5, 2, 3, 10))
    @@ (2 :> Row(15, 8, 3, 25)) @@ (3 :> Row(30, 15, 2, 50))

DefaultSamples ==
  [some_avg10 : {1, 2, 5, 8, 15, 30}, some_avg60 : {14, 15}]

=============================================================================
