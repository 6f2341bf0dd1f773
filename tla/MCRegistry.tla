----------------------------- MODULE MCRegistry -----------------------------
(* Two peers, of which one hangs up and the other writes in pieces.  With  *)
(* limit 1 start() fails half way; with limit 4 the peers take the last    *)
(* descriptors; with limit 5 one is left for the pressure file.            *)
EXTENDS RegistryThreads

=============================================================================
