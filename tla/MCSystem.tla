------------------------------ MODULE MCSystem ------------------------------
(* The default shrink fractions and small caches. *)
EXTENDS GovernorSystem, TLC

DefaultPct == (0 :> 0) @@ (1 :> 10) @@ (2 :> 25) @@ (3 :> 50)

DefaultPct2 == (0 :> 0) @@ (1 :> 50)

=============================================================================
