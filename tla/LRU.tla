-------------------------------- MODULE LRU --------------------------------
(***************************************************************************)
(* What LRUCache (include/client/governed_cache.h) promises its user: it   *)
(* keeps the most recently used entries, as many as its capacity allows.   *)
(* The state is the sequence of entries, most recent first; there are no   *)
(* nodes, no links and no eviction loop here.                              *)
(***************************************************************************)
EXTENDS Integers, Sequences

CONSTANTS
  Keys, Values,
  Nil,          \* the empty std::optional
  Capacities    \* the arguments of the constructor, resize and evict_to

VARIABLES
  entries,      \* sequence of [key, value], most recently used first
  capacity,     \* capacity_
  result,       \* what the last get returned
  hits, misses, \* hits_ and misses_
  destroyed     \* the destructor has run

vars == <<entries, capacity, result, hits, misses, destroyed>>

(* Where the entry of a key is. *)
At(k) == {i \in 1 .. Len(entries) : entries[i].key = k}

(* The entries, with e in front and the i-th taken out. *)
Refreshed(e, i) ==
  <<e>> \o [j \in 1 .. Len(entries) - 1 |-> entries[IF j < i THEN j ELSE j + 1]]

Newest(s, n) == SubSeq(s, 1, IF n < Len(s) THEN n ELSE Len(s))

Init ==
  /\ entries = <<>>
  /\ capacity \in Capacities
  /\ result = Nil
  /\ hits = 0 /\ misses = 0
  /\ destroyed = FALSE

Hit(k) ==
  /\ \E i \in At(k) :
       /\ result' = entries[i].value
       /\ entries' = Refreshed(entries[i], i)
  /\ hits' = hits + 1
  /\ UNCHANGED <<capacity, misses>>

Miss(k) ==
  /\ At(k) = {}
  /\ result' = Nil
  /\ misses' = misses + 1
  /\ UNCHANGED <<entries, capacity, hits>>

PutCached(k, v) ==
  /\ \E i \in At(k) : entries' = Refreshed([key |-> k, value |-> v], i)
  /\ UNCHANGED <<capacity, result, hits, misses>>

(* A capacity of zero is no bound at all: see GovernorSystem!SizeWithinMaximum. *)
PutNew(k, v) ==
  /\ At(k) = {}
  /\ LET all == <<[key |-> k, value |-> v]>> \o entries
     IN  entries' = IF capacity = 0 THEN all ELSE Newest(all, capacity)
  /\ UNCHANGED <<capacity, result, hits, misses>>

EvictTo(n) ==
  /\ entries' = Newest(entries, n)
  /\ UNCHANGED <<capacity, result, hits, misses>>

Resize(n) ==
  /\ capacity' = n
  /\ entries' = Newest(entries, n)
  /\ UNCHANGED <<result, hits, misses>>

ResetStats ==
  /\ hits' = 0 /\ misses' = 0
  /\ UNCHANGED <<entries, capacity, result>>

Operation ==
  \/ \E k \in Keys : Hit(k) \/ Miss(k) \/ \E v \in Values : PutCached(k, v) \/ PutNew(k, v)
  \/ \E n \in Capacities : EvictTo(n) \/ Resize(n)
  \/ ResetStats

Destroy ==
  /\ destroyed' = TRUE
  /\ entries' = <<>>
  /\ UNCHANGED <<capacity, result, hits, misses>>

Next ==
  /\ ~destroyed
  /\ \/ Operation /\ UNCHANGED destroyed
     \/ Destroy

Spec == Init /\ [][Next]_vars

=============================================================================
