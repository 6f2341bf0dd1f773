------------------------------ MODULE LRUCache ------------------------------
(***************************************************************************)
(* The pointer-level LRUCache of include/client/governed_cache.h: a        *)
(* doubly linked list threaded through heap nodes, an index from keys to   *)
(* nodes and a size counter.  The heap is modelled with its deallocations: *)
(* a deleted node leaves `live', nothing can be read from it any more, and *)
(* its address may be handed out again.  The two loops, evict_to and the destructor, take  *)
(* one step per iteration; no other call can run meanwhile, because every  *)
(* caller holds GovernedCache::mutex_ (or is the destructor).              *)
(***************************************************************************)
EXTENDS Integers, FiniteSets, Sequences

CONSTANTS
  Keys, Values,
  Nodes,        \* the heap addresses
  Null,         \* nullptr
  Nil,          \* the empty std::optional
  Capacities,   \* the arguments of the constructor, resize and evict_to
  MaxGets       \* bound: gets counted before the statistics are reset

ASSUME CacheAssumption ==
  /\ Null \notin Nodes
  /\ Nil \notin Values \cup Keys
  /\ IsFiniteSet(Nodes)
  /\ Capacities \subseteq Nat
  /\ MaxGets \in Nat

VARIABLES
  c,            \* head_, tail_, map_, size_ and the nodes' fields
  capacity,     \* capacity_
  hits, misses, \* hits_ and misses_
  result,       \* what the last get returned
  pc,           \* "ready", inside a loop "evict" or "destroy", then "dead"
  target,       \* evict_to's new_capacity
  curr          \* the destructor's curr

vars == <<c, capacity, hits, misses, result, pc, target, curr>>

-----------------------------------------------------------------------------
(* The list primitives, as functions from cache to cache.                  *)

(* delete: the node's fields are gone with it. *)
Delete(d, n) ==
  [d EXCEPT !.live = @ \ {n},
            !.key = [@ EXCEPT ![n] = Nil], !.value = [@ EXCEPT ![n] = Nil],
            !.prev = [@ EXCEPT ![n] = Null], !.next = [@ EXCEPT ![n] = Null]]

(* add_to_front *)
AddToFront(d, n) ==
  [d EXCEPT
     !.next = [@ EXCEPT ![n] = d.head],
     !.prev = [m \in Nodes |-> IF m = d.head THEN n
                               ELSE IF m = n THEN Null ELSE d.prev[m]],
     !.head = n,
     !.tail = IF d.tail = Null THEN n ELSE @]

(* The first half of move_to_front *)
Unlink(d, n) ==
  [d EXCEPT
     !.next = [m \in Nodes |-> IF m = d.prev[n] THEN d.next[n] ELSE d.next[m]],
     !.prev = [m \in Nodes |-> IF m = d.next[n] THEN d.prev[n] ELSE d.prev[m]],
     !.tail = IF n = d.tail THEN d.prev[n] ELSE @]

MoveToFront(d, n) == IF n = d.head THEN d ELSE AddToFront(Unlink(d, n), n)

(* Mutant: the index keeps pointing to the deleted node. *)
EvictLruKeepIndex(d) ==
  IF d.tail = Null THEN d
  ELSE LET n == d.tail
           p == d.prev[n]
       IN  Delete([d EXCEPT
              !.tail = p,
              !.next = [m \in Nodes |-> IF m = p THEN Null ELSE d.next[m]],
              !.head = IF p = Null THEN Null ELSE @,
              !.size = @ - 1], n)

(* evict_lru *)
EvictLru(d) ==
  IF d.tail = Null THEN d
  ELSE LET n == d.tail
           p == d.prev[n]
       IN  Delete([d EXCEPT
              !.map = [@ EXCEPT ![d.key[n]] = Null],
              !.tail = p,
              !.next = [m \in Nodes |-> IF m = p THEN Null ELSE d.next[m]],
              !.head = IF p = Null THEN Null ELSE @,
              !.size = @ - 1], n)

(* new Node(key, value), entered in map_, linked and counted. *)
Insert(d, n, k, v) ==
  AddToFront([d EXCEPT !.live = @ \cup {n},
                       !.key = [@ EXCEPT ![n] = k],
                       !.value = [@ EXCEPT ![n] = v],
                       !.map = [@ EXCEPT ![k] = n],
                       !.size = @ + 1], n)

-----------------------------------------------------------------------------

Init ==
  /\ c = [head |-> Null, tail |-> Null, size |-> 0, live |-> {},
          map |-> [k \in Keys |-> Null],
          key |-> [n \in Nodes |-> Nil], value |-> [n \in Nodes |-> Nil],
          prev |-> [n \in Nodes |-> Null], next |-> [n \in Nodes |-> Null]]
  /\ capacity \in Capacities
  /\ hits = 0 /\ misses = 0
  /\ result = Nil
  /\ pc = "ready"
  /\ target = 0
  /\ curr = Null

Get(k) ==
  /\ pc = "ready"
  /\ hits + misses < MaxGets
  /\ \/ /\ c.map[k] = Null
        /\ misses' = misses + 1
        /\ result' = Nil
        /\ UNCHANGED <<c, hits>>
     \/ /\ c.map[k] # Null
        /\ hits' = hits + 1
        /\ c' = MoveToFront(c, c.map[k])
        /\ result' = c.value[c.map[k]]
        /\ UNCHANGED misses
  /\ UNCHANGED <<capacity, pc, target, curr>>

(* Mutant: a put of a key already cached does not refresh its recency. *)
PutCachedInPlace(k, v) ==
  /\ pc = "ready"
  /\ c.map[k] # Null
  /\ c' = [c EXCEPT !.value = [@ EXCEPT ![c.map[k]] = v]]
  /\ UNCHANGED <<capacity, hits, misses, result, pc, target, curr>>

PutCached(k, v) ==
  /\ pc = "ready"
  /\ c.map[k] # Null
  /\ c' = MoveToFront([c EXCEPT !.value = [@ EXCEPT ![c.map[k]] = v]], c.map[k])
  /\ UNCHANGED <<capacity, hits, misses, result, pc, target, curr>>

(* Mutant: room is made one entry too late. *)
PutNewLate(k, v) ==
  /\ pc = "ready"
  /\ c.map[k] = Null
  /\ LET d == IF c.size > capacity THEN EvictLru(c) ELSE c
     IN  \E n \in Nodes \ d.live : c' = Insert(d, n, k, v)
  /\ UNCHANGED <<capacity, hits, misses, result, pc, target, curr>>

(* put of a new key: make room first if the cache is exactly full, then    *)
(* take any free address.                                                  *)
PutNew(k, v) ==
  /\ pc = "ready"
  /\ c.map[k] = Null
  /\ LET d == IF c.size = capacity THEN EvictLru(c) ELSE c
     IN  \E n \in Nodes \ d.live : c' = Insert(d, n, k, v)
  /\ UNCHANGED <<capacity, hits, misses, result, pc, target, curr>>

(* Mutant: the loop goes on at the target, where it has nothing to remove. *)
EvictLoopOne ==
  /\ pc = "evict"
  /\ IF c.size >= target /\ c.size > 0
     THEN c' = (IF c.size > target THEN EvictLru(c) ELSE c) /\ UNCHANGED <<pc, target>>
     ELSE pc' = "ready" /\ target' = 0 /\ UNCHANGED c
  /\ UNCHANGED <<capacity, hits, misses, result, curr>>

(* evict_to, entering its loop *)
EvictTo(n) ==
  /\ pc = "ready"
  /\ target' = n
  /\ pc' = "evict"
  /\ UNCHANGED <<c, capacity, hits, misses, result, curr>>

Resize(n) ==
  /\ pc = "ready"
  /\ capacity' = n
  /\ target' = n
  /\ pc' = "evict"
  /\ UNCHANGED <<c, hits, misses, result, curr>>

(* One test of the loop condition, and the iteration if it holds. *)
EvictLoop ==
  /\ pc = "evict"
  /\ IF c.size > target /\ c.size > 0
     THEN c' = EvictLru(c) /\ UNCHANGED <<pc, target>>
     ELSE pc' = "ready" /\ target' = 0 /\ UNCHANGED c
  /\ UNCHANGED <<capacity, hits, misses, result, curr>>

ResetStats ==
  /\ pc = "ready"
  /\ hits + misses > 0
  /\ hits' = 0 /\ misses' = 0
  /\ UNCHANGED <<c, capacity, result, pc, target, curr>>

Destroy ==
  /\ pc = "ready"
  /\ pc' = "destroy"
  /\ curr' = c.head
  /\ UNCHANGED <<c, capacity, hits, misses, result, target>>

(* Mutant: next is read from the deleted node. *)
DestroyLoopLate ==
  /\ pc = "destroy"
  /\ IF curr # Null
     THEN /\ c' = Delete(c, curr)
          /\ curr' = c'.next[curr]
          /\ UNCHANGED pc
     ELSE pc' = "dead" /\ UNCHANGED <<c, curr>>
  /\ UNCHANGED <<capacity, hits, misses, result, target>>

(* One iteration of the destructor's loop: next is read before the delete. *)
DestroyLoop ==
  /\ pc = "destroy"
  /\ IF curr # Null
     THEN /\ c' = Delete(c, curr)
          /\ curr' = c.next[curr]
          /\ UNCHANGED pc
     ELSE pc' = "dead" /\ UNCHANGED <<c, curr>>
  /\ UNCHANGED <<capacity, hits, misses, result, target>>

Next ==
  \/ \E k \in Keys : Get(k) \/ \E v \in Values : PutCached(k, v) \/ PutNew(k, v)
  \/ \E n \in Capacities : EvictTo(n) \/ Resize(n)
  \/ ResetStats \/ Destroy \/ EvictLoop \/ DestroyLoop

(* A call, once begun, runs to its end. *)
Spec == Init /\ [][Next]_vars /\ WF_vars(EvictLoop) /\ WF_vars(DestroyLoop)

-----------------------------------------------------------------------------

CacheType ==
  [head : Nodes \cup {Null}, tail : Nodes \cup {Null},
   size : Nat, live : SUBSET Nodes,
   map : [Keys -> Nodes \cup {Null}],
   key : [Nodes -> Keys \cup {Nil}], value : [Nodes -> Values \cup {Nil}],
   prev : [Nodes -> Nodes \cup {Null}], next : [Nodes -> Nodes \cup {Null}]]

TypeOK ==
  /\ c \in CacheType
  /\ capacity \in Nat
  /\ hits \in Nat /\ misses \in Nat
  /\ result \in Values \cup {Nil}
  /\ pc \in {"ready", "evict", "destroy", "dead"}
  /\ target \in Nat
  /\ curr \in Nodes \cup {Null}

(* head_ and tail_ are both null or both ends of the list, and next and    *)
(* prev of the linked nodes L stay within L and are inverse to each other. *)
Links(d, L) ==
  /\ d.head = Null <=> d.tail = Null
  /\ d.head # Null => d.head \in L /\ d.prev[d.head] = Null
  /\ d.tail # Null => d.tail \in L /\ d.next[d.tail] = Null
  /\ \A n \in L :
       /\ d.next[n] = Null => n = d.tail
       /\ d.next[n] # Null => d.next[n] \in L /\ d.prev[d.next[n]] = n
       /\ d.prev[n] = Null => n = d.head
       /\ d.prev[n] # Null => d.prev[n] \in L /\ d.next[d.prev[n]] = n

(* map_ and the nodes' keys are inverse to each other, size_ counts them.  *)
Index(d) ==
  /\ \A n \in d.live : d.key[n] \in Keys /\ d.map[d.key[n]] = n
  /\ \A k \in Keys :
       d.map[k] # Null => d.map[k] \in d.live /\ d.key[d.map[k]] = k
  /\ d.size = Cardinality(d.live)

(* The list and the index are two views of the same set of live nodes, and *)
(* no reachable pointer dangles, so no get, put or eviction dereferences a *)
(* deleted node, and size_-- cannot wrap round.                            *)
CacheWellFormed == TypeOK /\ (pc \in {"ready", "evict"} =>
                              Links(c, c.live) /\ Index(c))

(* A positive capacity is respected between calls, whatever mixture of     *)
(* puts, resizes and partial evictions came before, growing out of a       *)
(* capacity of zero included.                                              *)
PositiveCapacityRespected ==
  pc = "ready" /\ capacity > 0 => c.size <= capacity

(* The destructor deletes every node exactly once: it never visits a node  *)
(* it has already deleted, and leaves none behind.                         *)
DestructorExact ==
  /\ pc = "destroy" /\ curr # Null => curr \in c.live
  /\ pc = "dead" => c.live = {}

(* evict_to always returns: each round removes an entry as long as size_   *)
(* is above the target, even when the target is zero.                      *)
EvictionTerminates == pc = "evict" ~> pc = "ready"

-----------------------------------------------------------------------------
(* The entries as the abstract specification sees them: the list from      *)
(* head_ on, already cut to the target while evict_to is still working.    *)

Walk(d) ==
  LET at[i \in Nat] == IF i = 0 THEN d.head
                       ELSE IF at[i - 1] = Null THEN Null ELSE d.next[at[i - 1]]
  IN  at

Kept == IF pc = "evict" /\ target < c.size THEN target ELSE c.size

Entry(d, n) ==
  IF n = Null THEN Nil ELSE [key |-> d.key[n], value |-> d.value[n]]

Listed(d, n) == [i \in 1 .. n |-> Entry(d, Walk(d)[i - 1])]

Entries == IF pc \in {"destroy", "dead"} THEN <<>> ELSE Listed(c, Kept)

Abstract == INSTANCE LRU WITH
  entries <- Entries, destroyed <- pc \in {"destroy", "dead"}

(* Every call of the linked-list implementation does what the abstract     *)
(* cache says: get returns the value last put unless it was evicted, and   *)
(* the entries evicted are always the least recently used ones.            *)
ImplementsLRU == Abstract!Spec

=============================================================================
