------------------------------ MODULE MCClient ------------------------------
(* Four descriptors and four connections lost or given up: the table can   *)
(* fill up.                                                                *)
EXTENDS ClientThreads

=============================================================================
