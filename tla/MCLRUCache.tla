----------------------------- MODULE MCLRUCache -----------------------------
(* Three keys, as many heap addresses as can be live at once, and all      *)
(* capacities from zero to more than there are keys.                       *)
EXTENDS LRUCache

CONSTANTS k1, k2, k3, n1, n2, n3

MCKeys == {k1, k2, k3}
MCNodes == {n1, n2, n3}
MCCapacities == {0, 1, 2, 4}
MCValues == {1, 2}

=============================================================================
