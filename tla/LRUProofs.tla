----------------------------- MODULE LRUProofs -----------------------------
(***************************************************************************)
(* The linked list in governed_cache.h, for any number of keys, nodes and  *)
(* capacities, in three parts.  Memory safety: each list primitive         *)
(* preserves Links for the set of nodes it leaves linked; the operations   *)
(* compose the primitives and keep the index in step.  Order: the live     *)
(* nodes form one list and no ring, so a full cache has a tail to evict    *)
(* and the destructor reaches everything.  Refinement: the list read from  *)
(* head_ on is the sequence of entries of LRU, and every primitive does to *)
(* it what LRU says.                                                       *)
(***************************************************************************)
EXTENDS LRUCache, FunctionTheorems, FiniteSetTheorems, SequenceTheorems, NaturalFacts

Pointer == Nodes \cup {Null}

(* The fields of a cache that Links reads, with their types. *)
LEMMA CacheFields ==
  ASSUME NEW d \in CacheType
  PROVE  /\ d.head \in Pointer /\ d.tail \in Pointer
         /\ d.size \in Nat /\ d.live \subseteq Nodes
         /\ d.map \in [Keys -> Pointer]
         /\ d.key \in [Nodes -> Keys \cup {Nil}]
         /\ d.value \in [Nodes -> Values \cup {Nil}]
         /\ d.prev \in [Nodes -> Pointer] /\ d.next \in [Nodes -> Pointer]
  BY DEF CacheType, Pointer

(* delete clears the fields of one node and touches nothing else. *)
LEMMA DeleteFields ==
  ASSUME NEW d \in CacheType, NEW n \in Nodes
  PROVE  /\ Delete(d, n) \in CacheType
         /\ Delete(d, n).head = d.head /\ Delete(d, n).tail = d.tail
         /\ Delete(d, n).size = d.size /\ Delete(d, n).map = d.map
         /\ Delete(d, n).live = d.live \ {n}
         /\ \A m \in Nodes \ {n} :
              /\ Delete(d, n).key[m] = d.key[m] /\ Delete(d, n).value[m] = d.value[m]
              /\ Delete(d, n).prev[m] = d.prev[m]
              /\ Delete(d, n).next[m] = d.next[m]
  BY DEF CacheType, Delete

(* add_to_front, field by field. *)
LEMMA AddToFrontFields ==
  ASSUME NEW d \in CacheType, NEW n \in Nodes
  PROVE  /\ AddToFront(d, n) \in CacheType
         /\ AddToFront(d, n).head = n
         /\ AddToFront(d, n).tail = IF d.tail = Null THEN n ELSE d.tail
         /\ AddToFront(d, n).size = d.size /\ AddToFront(d, n).map = d.map
         /\ AddToFront(d, n).live = d.live /\ AddToFront(d, n).key = d.key
         /\ AddToFront(d, n).value = d.value
         /\ \A m \in Nodes :
              /\ AddToFront(d, n).next[m] = IF m = n THEN d.head ELSE d.next[m]
              /\ AddToFront(d, n).prev[m] =
                   IF m = d.head THEN n ELSE IF m = n THEN Null ELSE d.prev[m]
  BY DEF CacheType, AddToFront

(* The first half of move_to_front, field by field. *)
LEMMA UnlinkFields ==
  ASSUME NEW d \in CacheType, NEW n \in Nodes
  PROVE  /\ Unlink(d, n) \in CacheType
         /\ Unlink(d, n).head = d.head
         /\ Unlink(d, n).tail = IF n = d.tail THEN d.prev[n] ELSE d.tail
         /\ Unlink(d, n).size = d.size /\ Unlink(d, n).map = d.map
         /\ Unlink(d, n).live = d.live /\ Unlink(d, n).key = d.key
         /\ Unlink(d, n).value = d.value
         /\ \A m \in Nodes :
              /\ Unlink(d, n).next[m] =
                   IF m = d.prev[n] THEN d.next[n] ELSE d.next[m]
              /\ Unlink(d, n).prev[m] =
                   IF m = d.next[n] THEN d.prev[n] ELSE d.prev[m]
  BY DEF CacheType, Unlink

(* add_to_front links one more node. *)
LEMMA AddToFrontLinks ==
  ASSUME NEW d \in CacheType, NEW L \in SUBSET Nodes, Links(d, L),
         NEW n \in Nodes \ L
  PROVE  Links(AddToFront(d, n), L \cup {n})
  <1> DEFINE e == AddToFront(d, n)
  <1> HIDE DEF e
  <1>1. /\ e.head = n
        /\ e.tail = IF d.tail = Null THEN n ELSE d.tail
        /\ \A m \in Nodes :
             /\ e.next[m] = IF m = n THEN d.head ELSE d.next[m]
             /\ e.prev[m] =
                  IF m = d.head THEN n ELSE IF m = n THEN Null ELSE d.prev[m]
    BY AddToFrontFields DEF e
  <1>2. Null \notin Nodes
    BY CacheAssumption
  <1>3. d.head # n /\ d.tail # n
    BY <1>2 DEF Links
  <1>4. Links(e, L \cup {n})
    BY <1>1, <1>2, <1>3 DEF Links
  <1> QED BY <1>4 DEF e

(* Unlinking a node that is not the head unlinks exactly that node. *)
LEMMA UnlinkLinks ==
  ASSUME NEW d \in CacheType, NEW L \in SUBSET Nodes, Links(d, L),
         NEW n \in L, n # d.head
  PROVE  Links(Unlink(d, n), L \ {n})
  <1> DEFINE e == Unlink(d, n)
             p == d.prev[n]
             q == d.next[n]
  <1> HIDE DEF e
  <1>1. /\ e.head = d.head
        /\ e.tail = IF n = d.tail THEN p ELSE d.tail
        /\ \A m \in Nodes :
             /\ e.next[m] = IF m = p THEN q ELSE d.next[m]
             /\ e.prev[m] = IF m = q THEN p ELSE d.prev[m]
    BY UnlinkFields DEF e
  <1>2. Null \notin Nodes
    BY CacheAssumption
  <1>3. p # Null /\ p \in L /\ d.next[p] = n
    BY DEF Links
  <1>4. q # Null => q \in L /\ d.prev[q] = n
    BY DEF Links
  <1>5. q = Null => n = d.tail
    BY DEF Links
  <1>6. n = d.tail => q = Null /\ p # n
    BY <1>2, <1>3 DEF Links
  <1>7. ASSUME NEW m \in L \ {n}
        PROVE  /\ e.next[m] = Null => m = e.tail
               /\ e.next[m] # Null =>
                    e.next[m] \in L \ {n} /\ e.prev[e.next[m]] = m
               /\ e.prev[m] = Null => m = e.head
               /\ e.prev[m] # Null =>
                    e.prev[m] \in L \ {n} /\ e.next[e.prev[m]] = m
    <2>1. /\ d.next[m] = Null => m = d.tail
          /\ d.next[m] # Null => d.next[m] \in L /\ d.prev[d.next[m]] = m
          /\ d.prev[m] = Null => m = d.head
          /\ d.prev[m] # Null => d.prev[m] \in L /\ d.next[d.prev[m]] = m
      BY DEF Links
    <2>2. m # p => d.next[m] # n
      BY <2>1, <1>2
    <2>3. m # q => d.prev[m] # n
      BY <2>1, <1>2
    <2>4. /\ e.next[m] = Null => m = e.tail
          /\ e.next[m] # Null =>
               e.next[m] \in L \ {n} /\ e.prev[e.next[m]] = m
      <3>1. CASE m = p
        BY <3>1, <1>1, <1>2, <1>3, <1>4, <1>5, <1>6, <2>1
      <3>2. CASE m # p
        BY <3>2, <1>1, <1>2, <1>3, <1>4, <1>5, <1>6, <2>1, <2>2
      <3> QED BY <3>1, <3>2
    <2>5. /\ e.prev[m] = Null => m = e.head
          /\ e.prev[m] # Null =>
               e.prev[m] \in L \ {n} /\ e.next[e.prev[m]] = m
      <3>1. CASE m = q
        BY <3>1, <1>1, <1>2, <1>3, <1>4, <1>5, <1>6, <2>1
      <3>2. CASE m # q
        BY <3>2, <1>1, <1>2, <1>3, <1>4, <1>5, <1>6, <2>1, <2>3
      <3> QED BY <3>1, <3>2
    <2> QED BY <2>4, <2>5
  <1>8. /\ e.head = Null <=> e.tail = Null
        /\ e.head # Null => e.head \in L \ {n} /\ e.prev[e.head] = Null
        /\ e.tail # Null => e.tail \in L \ {n} /\ e.next[e.tail] = Null
    BY <1>1, <1>2, <1>3, <1>4, <1>5, <1>6 DEF Links
  <1>9. Links(e, L \ {n})
    BY <1>7, <1>8 DEF Links
  <1> QED BY <1>9 DEF e

(* move_to_front permutes the list: the same nodes stay linked. *)
LEMMA MoveToFrontLinks ==
  ASSUME NEW d \in CacheType, Links(d, d.live), Index(d), NEW n \in d.live
  PROVE  /\ MoveToFront(d, n) \in CacheType
         /\ Links(MoveToFront(d, n), d.live)
         /\ MoveToFront(d, n).live = d.live
         /\ Index(MoveToFront(d, n))
  <1>1. CASE n = d.head
    BY <1>1 DEF MoveToFront
  <1>2. CASE n # d.head
    <2> DEFINE u == Unlink(d, n)
    <2>1. d.live \in SUBSET Nodes /\ n \in Nodes
      BY CacheFields
    <2>2. u \in CacheType /\ Links(u, d.live \ {n})
      BY <1>2, <2>1, UnlinkFields, UnlinkLinks
    <2>3. u.live = d.live /\ u.key = d.key /\ u.map = d.map /\ u.size = d.size
      BY <2>1, UnlinkFields
    <2> HIDE DEF u
    <2> DEFINE e == AddToFront(u, n)
    <2>4. e \in CacheType
      BY <2>1, <2>2, AddToFrontFields
    <2>5. e.live = d.live /\ e.key = d.key /\ e.map = d.map /\ e.size = d.size
      BY <2>1, <2>2, <2>3, AddToFrontFields
    <2>6. Links(e, (d.live \ {n}) \cup {n})
      BY <2>1, <2>2, AddToFrontLinks
    <2>7. (d.live \ {n}) \cup {n} = d.live
      OBVIOUS
    <2>8. Index(e)
      <3> HIDE DEF e
      <3> QED BY <2>5 DEF Index
    <2>9. MoveToFront(d, n) = e
      BY <1>2 DEF MoveToFront, u
    <2> HIDE DEF e
    <2> QED BY <2>4, <2>5, <2>6, <2>7, <2>8, <2>9
  <1> QED BY <1>1, <1>2

(* evict_lru unlinks, unindexes and deletes the tail, if there is one. *)
LEMMA EvictLruStep ==
  ASSUME NEW d \in CacheType, Links(d, d.live), Index(d)
  PROVE  LET e == EvictLru(d) IN
         /\ e \in CacheType /\ Links(e, e.live) /\ Index(e)
         /\ \A k \in Keys : d.map[k] = Null => e.map[k] = Null
  <1>1. CASE d.tail = Null
    BY <1>1 DEF EvictLru
  <1>2. CASE d.tail # Null
    <2> DEFINE n == d.tail
               p == d.prev[n]
               f == [d EXCEPT
                       !.map = [@ EXCEPT ![d.key[n]] = Null],
                       !.tail = p,
                       !.next = [m \in Nodes |->
                                   IF m = p THEN Null ELSE d.next[m]],
                       !.head = IF p = Null THEN Null ELSE @,
                       !.size = @ - 1]
               e == Delete(f, n)
    <2>1. /\ n \in Nodes /\ n \in d.live /\ d.live \subseteq Nodes
          /\ p \in Pointer /\ d.key[n] \in Keys /\ Null \notin Nodes
          /\ IsFiniteSet(d.live)
      BY <1>2, CacheFields, CacheAssumption, FS_Subset DEF Links, Index
    <2>2. /\ Cardinality(d.live \ {n}) = d.size - 1
          /\ d.size - 1 \in Nat
      <3>1. IsFiniteSet(d.live \ {n})
        BY <2>1, FS_RemoveElement
      <3>2. Cardinality(d.live \ {n}) \in Nat
        BY <3>1, FS_CardinalityType
      <3>3. Cardinality(d.live \ {n}) = Cardinality(d.live) - 1
        <4>1. Cardinality(d.live \ {n}) =
                IF n \in d.live THEN Cardinality(d.live) - 1
                ELSE Cardinality(d.live)
          BY <2>1, FS_RemoveElement
        <4> QED BY <2>1, <4>1
      <3>4. d.size = Cardinality(d.live)
        BY DEF Index
      <3> QED BY <3>2, <3>3, <3>4
    <2>3. f \in CacheType
      <3>1. [d.map EXCEPT ![d.key[n]] = Null] \in [Keys -> Nodes \cup {Null}]
        BY CacheFields DEF Pointer
      <3>2. [m \in Nodes |-> IF m = p THEN Null ELSE d.next[m]]
              \in [Nodes -> Nodes \cup {Null}]
        BY CacheFields DEF Pointer
      <3> QED BY <2>1, <2>2, <3>1, <3>2 DEF CacheType, Pointer
    <2>4. /\ f.map = [d.map EXCEPT ![d.key[n]] = Null]
          /\ f.tail = p /\ f.head = (IF p = Null THEN Null ELSE d.head)
          /\ f.next = [m \in Nodes |-> IF m = p THEN Null ELSE d.next[m]]
          /\ f.prev = d.prev /\ f.key = d.key /\ f.live = d.live
          /\ f.size = d.size - 1
      BY DEF CacheType
    <2> HIDE DEF f
    <2>5. /\ e \in CacheType
          /\ e.head = (IF p = Null THEN Null ELSE d.head) /\ e.tail = p
          /\ e.size = d.size - 1 /\ e.map = [d.map EXCEPT ![d.key[n]] = Null]
          /\ e.live = d.live \ {n}
          /\ \A m \in Nodes \ {n} :
               /\ e.key[m] = d.key[m]
               /\ e.prev[m] = d.prev[m]
               /\ e.next[m] = IF m = p THEN Null ELSE d.next[m]
      BY <2>1, <2>3, <2>4, DeleteFields
    <2> HIDE DEF e
    <2>6. Links(e, e.live)
      <3>1. /\ p = Null => n = d.head
            /\ p # Null => p \in d.live /\ d.next[p] = n
            /\ d.next[n] = Null /\ p # n
        BY <1>2, <2>1 DEF Links, Pointer
      <3>2. /\ e.head = Null <=> e.tail = Null
            /\ e.head # Null => e.head \in e.live /\ e.prev[e.head] = Null
            /\ e.tail # Null => e.tail \in e.live /\ e.next[e.tail] = Null
        BY <1>2, <2>1, <2>5, <3>1 DEF Links, Pointer
      <3>3. ASSUME NEW m \in e.live
            PROVE  /\ e.next[m] = Null => m = e.tail
                   /\ e.next[m] # Null =>
                        e.next[m] \in e.live /\ e.prev[e.next[m]] = m
                   /\ e.prev[m] = Null => m = e.head
                   /\ e.prev[m] # Null =>
                        e.prev[m] \in e.live /\ e.next[e.prev[m]] = m
        <4>1. m \in d.live /\ m # n /\ m \in Nodes
          BY <2>1, <2>5
        <4>2. /\ d.next[m] # Null /\ d.next[m] \in d.live
              /\ d.prev[d.next[m]] = m
              /\ d.prev[m] = Null => m = d.head
              /\ d.prev[m] # Null => d.prev[m] \in d.live /\ d.next[d.prev[m]] = m
          BY <4>1 DEF Links
        <4>3. m # p => d.next[m] # n
          BY <4>2
        <4>4. d.prev[m] # Null => d.prev[m] # n /\ (d.prev[m] = p => m = n)
          BY <3>1, <4>1, <4>2, <2>1
        <4>5. /\ e.next[m] = Null => m = e.tail
              /\ e.next[m] # Null =>
                   e.next[m] \in e.live /\ e.prev[e.next[m]] = m
          BY <2>1, <2>5, <4>1, <4>2, <4>3
        <4>6. e.prev[m] = Null => m = e.head
          BY <2>1, <2>5, <3>1, <4>1, <4>2
        <4>7. e.prev[m] # Null =>
                e.prev[m] \in e.live /\ e.next[e.prev[m]] = m
          BY <2>1, <2>5, <4>1, <4>2, <4>4
        <4> QED BY <4>5, <4>6, <4>7
      <3> QED BY <3>2, <3>3 DEF Links
    <2>7. /\ Index(e)
          /\ \A k \in Keys : d.map[k] = Null => e.map[k] = Null
      <3>1. d.map[d.key[n]] = n
        BY <2>1 DEF Index
      <3>2. \A k \in Keys : e.map[k] = IF k = d.key[n] THEN Null ELSE d.map[k]
        BY <2>5, <2>1, CacheFields
      <3>3. ASSUME NEW m \in e.live
            PROVE  e.key[m] \in Keys /\ e.map[e.key[m]] = m
        <4>1. m \in d.live /\ m # n /\ m \in Nodes
          BY <2>1, <2>5
        <4>2. e.key[m] = d.key[m] /\ d.key[m] \in Keys /\ d.map[d.key[m]] = m
          BY <2>5, <4>1 DEF Index
        <4>3. d.key[m] # d.key[n]
          BY <3>1, <4>1, <4>2
        <4> QED BY <3>2, <4>2, <4>3
      <3>4. ASSUME NEW k \in Keys, e.map[k] # Null
            PROVE  e.map[k] \in e.live /\ e.key[e.map[k]] = k
        <4>1. k # d.key[n] /\ e.map[k] = d.map[k]
          BY <3>2, <3>4
        <4>2. d.map[k] \in d.live /\ d.key[d.map[k]] = k
          BY <3>4, <4>1 DEF Index
        <4>3. d.map[k] # n /\ d.map[k] \in Nodes
          BY <2>1, <4>1, <4>2
        <4> QED BY <2>5, <4>1, <4>2, <4>3
      <3> QED BY <2>2, <2>5, <3>2, <3>3, <3>4 DEF Index
    <2>8. EvictLru(d) = e
      BY <1>2 DEF EvictLru, e, f
    <2> QED BY <2>5, <2>6, <2>7, <2>8
  <1> QED BY <1>1, <1>2

(* put's insertion of a free node under a key that is not cached. *)
LEMMA InsertStep ==
  ASSUME NEW d \in CacheType, Links(d, d.live), Index(d),
         NEW n \in Nodes \ d.live, NEW k \in Keys, NEW v \in Values,
         d.map[k] = Null
  PROVE  LET e == Insert(d, n, k, v) IN
         e \in CacheType /\ Links(e, e.live) /\ Index(e)
  <1> DEFINE f == [d EXCEPT !.live = @ \cup {n},
                            !.key = [@ EXCEPT ![n] = k],
                            !.value = [@ EXCEPT ![n] = v],
                            !.map = [@ EXCEPT ![k] = n],
                            !.size = @ + 1]
             e == AddToFront(f, n)
  <1>1. f \in CacheType
    <2>1. /\ d.live \cup {n} \in SUBSET Nodes
          /\ [d.key EXCEPT ![n] = k] \in [Nodes -> Keys \cup {Nil}]
          /\ [d.value EXCEPT ![n] = v] \in [Nodes -> Values \cup {Nil}]
          /\ [d.map EXCEPT ![k] = n] \in [Keys -> Nodes \cup {Null}]
          /\ d.size + 1 \in Nat
      BY CacheFields DEF Pointer
    <2> QED BY <2>1 DEF CacheType
  <1>2. /\ f.live = d.live \cup {n} /\ f.key = [d.key EXCEPT ![n] = k]
        /\ f.map = [d.map EXCEPT ![k] = n] /\ f.size = d.size + 1
        /\ f.head = d.head /\ f.tail = d.tail
        /\ f.prev = d.prev /\ f.next = d.next
    BY DEF CacheType
  <1> HIDE DEF f
  <1>3. Links(f, d.live)
    BY <1>2 DEF Links
  <1>4. d.live \in SUBSET Nodes
    BY CacheFields
  <1>5. e \in CacheType /\ Links(e, d.live \cup {n})
    BY <1>1, <1>3, <1>4, AddToFrontFields, AddToFrontLinks
  <1>6. /\ e.live = d.live \cup {n} /\ e.key = [d.key EXCEPT ![n] = k]
        /\ e.map = [d.map EXCEPT ![k] = n] /\ e.size = d.size + 1
    BY <1>1, <1>2, AddToFrontFields
  <1> HIDE DEF e
  <1>7. Cardinality(d.live \cup {n}) = d.size + 1
    <2>1. IsFiniteSet(d.live)
      BY <1>4, CacheAssumption, FS_Subset
    <2>2. Cardinality(d.live \cup {n}) =
            IF n \in d.live THEN Cardinality(d.live) ELSE Cardinality(d.live) + 1
      BY <2>1, FS_AddElement
    <2> QED BY <2>2 DEF Index
  <1>8. Index(e)
    <2>1. /\ \A m \in Nodes : e.key[m] = IF m = n THEN k ELSE d.key[m]
          /\ \A j \in Keys : e.map[j] = IF j = k THEN n ELSE d.map[j]
      BY <1>6, CacheFields
    <2>2. ASSUME NEW m \in e.live
          PROVE  e.key[m] \in Keys /\ e.map[e.key[m]] = m
      <3>1. CASE m = n
        BY <2>1, <3>1
      <3>2. CASE m # n
        <4>1. m \in d.live /\ m \in Nodes /\ Null \notin Nodes
          BY <1>4, <1>6, <2>2, <3>2, CacheAssumption
        <4>2. d.key[m] \in Keys /\ d.map[d.key[m]] = m
          BY <4>1 DEF Index
        <4>3. d.key[m] # k
          BY <4>1, <4>2
        <4> QED BY <2>1, <3>2, <4>1, <4>2, <4>3
      <3> QED BY <3>1, <3>2
    <2>3. ASSUME NEW j \in Keys, e.map[j] # Null
          PROVE  e.map[j] \in e.live /\ e.key[e.map[j]] = j
      BY <1>4, <1>6, <2>1, <2>3 DEF Index
    <2> QED BY <1>6, <1>7, <2>2, <2>3 DEF Index
  <1>9. Insert(d, n, k, v) = e
    BY DEF Insert, e, f
  <1> QED BY <1>5, <1>6, <1>8, <1>9

(* The constructor leaves an empty, consistent cache. *)
LEMMA InitWellFormed == Init => CacheWellFormed
  <1> SUFFICES ASSUME Init PROVE CacheWellFormed
    OBVIOUS
  <1>1. c \in CacheType
    BY DEF Init, CacheType
  <1>2. Links(c, c.live)
    BY DEF Init, Links
  <1>3. Index(c)
    BY FS_EmptySet DEF Init, Index
  <1> QED
    BY <1>1, <1>2, <1>3, CacheAssumption DEF Init, TypeOK, CacheWellFormed

(* get: a miss touches nothing, a hit moves a live node to the front. *)
LEMMA GetStep ==
  ASSUME CacheWellFormed, NEW k \in Keys, Get(k)
  PROVE  CacheWellFormed'
  <1>1. c \in CacheType /\ Links(c, c.live) /\ Index(c)
    BY DEF CacheWellFormed, TypeOK, Get
  <1>2. CASE c.map[k] = Null
    BY <1>1, <1>2 DEF Get, CacheWellFormed, TypeOK
  <1>3. CASE c.map[k] # Null
    <2> DEFINE n == c.map[k]
    <2>1. n \in c.live /\ n \in Nodes
      BY <1>1, <1>3, CacheFields DEF Index
    <2>2. c' = MoveToFront(c, n) /\ result' = c.value[n]
      BY <1>3 DEF Get
    <2>3. c' \in CacheType /\ Links(c', c'.live) /\ Index(c')
      BY <1>1, <2>1, <2>2, MoveToFrontLinks
    <2>4. result' \in Values \cup {Nil}
      BY <1>1, <2>1, <2>2, CacheFields
    <2>5. /\ hits' \in Nat /\ misses' \in Nat /\ capacity' \in Nat
          /\ pc' = "ready" /\ target' \in Nat /\ curr' \in Nodes \cup {Null}
      BY <1>3 DEF Get, CacheWellFormed, TypeOK
    <2> QED BY <2>3, <2>4, <2>5 DEF CacheWellFormed, TypeOK
  <1> QED BY <1>2, <1>3

(* put of a cached key: the value changes, which neither Links nor Index   *)
(* reads, and the node moves to the front.                                 *)
LEMMA PutCachedStep ==
  ASSUME CacheWellFormed, NEW k \in Keys, NEW v \in Values, PutCached(k, v)
  PROVE  CacheWellFormed'
  <1>1. /\ c \in CacheType /\ Links(c, c.live) /\ Index(c)
        /\ c.map[k] \in c.live /\ c.map[k] \in Nodes
    BY CacheFields DEF CacheWellFormed, TypeOK, PutCached, Index
  <1> DEFINE d == [c EXCEPT !.value = [@ EXCEPT ![c.map[k]] = v]]
  <1>2. d \in CacheType
    <2>1. [c.value EXCEPT ![c.map[k]] = v] \in [Nodes -> Values \cup {Nil}]
      BY <1>1, CacheFields
    <2> QED BY <1>1, <2>1 DEF CacheType
  <1>3. /\ d.head = c.head /\ d.tail = c.tail /\ d.size = c.size
        /\ d.live = c.live /\ d.map = c.map /\ d.key = c.key
        /\ d.prev = c.prev /\ d.next = c.next
    BY <1>1 DEF CacheType
  <1>4. c' = MoveToFront(d, c.map[k])
    BY DEF PutCached
  <1> HIDE DEF d
  <1>5. Links(d, d.live) /\ Index(d)
    BY <1>1, <1>3 DEF Links, Index
  <1>6. c' \in CacheType /\ Links(c', c'.live) /\ Index(c')
    BY <1>1, <1>2, <1>3, <1>4, <1>5, MoveToFrontLinks
  <1> QED BY <1>6 DEF PutCached, CacheWellFormed, TypeOK

(* put of a new key: an eviction if the cache is full, then an insertion. *)
LEMMA PutNewStep ==
  ASSUME CacheWellFormed, NEW k \in Keys, NEW v \in Values, PutNew(k, v)
  PROVE  CacheWellFormed'
  <1>1. c \in CacheType /\ Links(c, c.live) /\ Index(c) /\ c.map[k] = Null
    BY DEF CacheWellFormed, TypeOK, PutNew
  <1> DEFINE d == IF c.size = capacity THEN EvictLru(c) ELSE c
  <1>2. d \in CacheType /\ Links(d, d.live) /\ Index(d) /\ d.map[k] = Null
    BY <1>1, EvictLruStep
  <1>3. PICK n \in Nodes \ d.live : c' = Insert(d, n, k, v)
    BY DEF PutNew
  <1> HIDE DEF d
  <1>4. c' \in CacheType /\ Links(c', c'.live) /\ Index(c')
    BY <1>2, <1>3, InsertStep
  <1> QED BY <1>4 DEF PutNew, CacheWellFormed, TypeOK

(* One round of evict_to, with or without an eviction. *)
LEMMA EvictLoopStep ==
  ASSUME CacheWellFormed, EvictLoop
  PROVE  CacheWellFormed'
  <1>1. c \in CacheType /\ Links(c, c.live) /\ Index(c)
    BY DEF CacheWellFormed, TypeOK, EvictLoop
  <1>2. c' \in CacheType /\ Links(c', c'.live) /\ Index(c')
    BY <1>1, EvictLruStep DEF EvictLoop
  <1> QED BY <1>2 DEF EvictLoop, CacheWellFormed, TypeOK

(* One round of the destructor keeps the types; the list is being taken   *)
(* apart and no longer claimed to be linked.                               *)
LEMMA DestroyLoopStep ==
  ASSUME CacheWellFormed, DestroyLoop
  PROVE  CacheWellFormed'
  <1>1. c \in CacheType /\ curr \in Nodes \cup {Null}
    BY DEF CacheWellFormed, TypeOK
  <1>2. c' \in CacheType /\ curr' \in Nodes \cup {Null}
    BY <1>1, DeleteFields, CacheFields DEF DestroyLoop, Pointer
  <1> QED BY <1>2 DEF DestroyLoop, CacheWellFormed, TypeOK

(* Every step, the ones that touch no list included. *)
LEMMA StepWellFormed == CacheWellFormed /\ [Next]_vars => CacheWellFormed'
  <1> SUFFICES ASSUME CacheWellFormed, [Next]_vars PROVE CacheWellFormed'
    OBVIOUS
  <1>1. CASE \E n \in Capacities : EvictTo(n) \/ Resize(n)
    BY <1>1, CacheAssumption
    DEF EvictTo, Resize, CacheWellFormed, TypeOK
  <1>2. CASE ResetStats
    BY <1>2 DEF ResetStats, CacheWellFormed, TypeOK
  <1>3. CASE Destroy
    <2>1. c.head \in Nodes \cup {Null}
      BY CacheFields DEF CacheWellFormed, TypeOK, Pointer
    <2> QED BY <1>3, <2>1 DEF Destroy, CacheWellFormed, TypeOK
  <1>4. CASE UNCHANGED vars
    BY <1>4 DEF vars, CacheWellFormed, TypeOK, Links, Index
  <1> QED
    BY <1>1, <1>2, <1>3, <1>4, GetStep, PutCachedStep, PutNewStep,
       EvictLoopStep, DestroyLoopStep
    DEF Next

(* No operation of LRUCache ever leaves a dangling pointer, a broken link, *)
(* a stale index entry or a wrong size_, for any keys and capacities.      *)
THEOREM WellFormedAlways == Spec => []CacheWellFormed
  BY InitWellFormed, StepWellFormed, PTL DEF Spec

-----------------------------------------------------------------------------
(* Links alone would allow a ring beside the list.  Every node lies ahead  *)
(* of the next one, so there is none: what evict_lru finds at the tail,    *)
(* and where the destructor ends, depends on it.                           *)

(* r counts down along the list, below b. *)
CountsDown(d, L, r, b) ==
  \A m \in L : r[m] < b /\ (d.next[m] # Null => r[d.next[m]] < r[m])

NoRing(d, L) == \E r \in [Nodes -> Nat], b \in Nat : CountsDown(d, L, r, b)

(* A list that is not empty has a last node, and it is the tail. *)
LEMMA TailThere ==
  ASSUME NEW d \in CacheType, NEW L \in SUBSET Nodes, Links(d, L), NoRing(d, L),
         L # {}
  PROVE  d.tail # Null
<1>1. PICK r \in [Nodes -> Nat], b \in Nat : CountsDown(d, L, r, b)
  BY DEF NoRing
<1>2. PICK n \in L : \A m \in L : r[n] <= r[m]
  <2> DEFINE S == {r[m] : m \in L}
  <2>1. S \in SUBSET Nat /\ S # {}
    OBVIOUS
  <2> HIDE DEF S
  <2>2. PICK x \in S : \A y \in S : x <= y
    BY <2>1, LeastNatural
  <2> QED
    BY <2>2 DEF S
<1>3. ASSUME d.next[n] # Null PROVE FALSE
  <2>1. d.next[n] \in L /\ r[d.next[n]] < r[n]
    BY <1>1, <1>3 DEF Links, CountsDown
  <2>2. r[n] \in Nat /\ r[d.next[n]] \in Nat
    BY <2>1
  <2> QED
    BY <1>2, <2>1, <2>2
<1>4. n = d.tail /\ n # Null
  BY <1>3, CacheAssumption DEF Links
<1> QED
  BY <1>4

(* A set of nodes that is not empty has a first one. *)
LEMMA FirstThere ==
  ASSUME NEW L \in SUBSET Nodes, L # {}, NEW r \in [Nodes -> Nat], NEW b \in Nat,
         \A m \in L : r[m] < b
  PROVE  \E n \in L : \A m \in L : r[m] <= r[n]
<1> DEFINE S == {b - r[m] : m \in L}
<1>1. S \in SUBSET Nat /\ S # {}
  OBVIOUS
<1> HIDE DEF S
<1>2. PICK x \in S : \A y \in S : x <= y
  BY <1>1, LeastNatural
<1>3. PICK n \in L : x = b - r[n]
  BY <1>2 DEF S
<1>4. ASSUME NEW m \in L PROVE r[m] <= r[n]
  <2>1. b - r[n] <= b - r[m]
    BY <1>2, <1>3 DEF S
  <2>2. r[m] \in Nat /\ r[n] \in Nat
    OBVIOUS
  <2> QED
    BY <2>1, <2>2
<1> QED
  BY <1>4

(* add_to_front puts a node before all others. *)
LEMMA AddToFrontNoRing ==
  ASSUME NEW d \in CacheType, NEW L \in SUBSET Nodes, Links(d, L), NoRing(d, L),
         NEW n \in Nodes \ L
  PROVE  NoRing(AddToFront(d, n), L \cup {n})
<1>1. PICK r \in [Nodes -> Nat], b \in Nat : CountsDown(d, L, r, b)
  BY DEF NoRing
<1> DEFINE q == [r EXCEPT ![n] = b]
           e == AddToFront(d, n)
<1>2. q \in [Nodes -> Nat] /\ b + 1 \in Nat
  OBVIOUS
<1>3. \A m \in Nodes : e.next[m] = IF m = n THEN d.head ELSE d.next[m]
  BY AddToFrontFields
<1> HIDE DEF e
<1>4. ASSUME NEW m \in L \cup {n}
      PROVE  q[m] < b + 1 /\ (e.next[m] # Null => q[e.next[m]] < q[m])
  <2>1. CASE m = n
    <3>1. d.head # Null => d.head \in L /\ d.head # n
      BY DEF Links
    <3> QED
      BY <1>1, <1>3, <2>1, <3>1 DEF CountsDown
  <2>2. CASE m # n
    <3>1. m \in L /\ m \in Nodes
      BY <2>2
    <3>2. d.next[m] # Null => d.next[m] \in L /\ d.next[m] # n
      BY <3>1 DEF Links
    <3> QED
      BY <1>1, <1>3, <2>2, <3>1, <3>2 DEF CountsDown
  <2> QED
    BY <2>1, <2>2
<1>5. CountsDown(e, L \cup {n}, q, b + 1)
  BY <1>4 DEF CountsDown
<1>6. NoRing(e, L \cup {n})
  BY <1>2, <1>5 DEF NoRing
<1> QED
  BY <1>6 DEF e

(* Unlinking a node shortens the way past it. *)
LEMMA UnlinkNoRing ==
  ASSUME NEW d \in CacheType, NEW L \in SUBSET Nodes, Links(d, L), NoRing(d, L),
         NEW n \in L
  PROVE  NoRing(Unlink(d, n), L \ {n})
<1>1. PICK r \in [Nodes -> Nat], b \in Nat : CountsDown(d, L, r, b)
  BY DEF NoRing
<1> DEFINE e == Unlink(d, n)
<1>2. \A m \in Nodes : e.next[m] = IF m = d.prev[n] THEN d.next[n] ELSE d.next[m]
  BY UnlinkFields
<1> HIDE DEF e
<1>3. ASSUME NEW m \in L \ {n}
      PROVE  r[m] < b /\ (e.next[m] # Null => r[e.next[m]] < r[m])
  <2>1. CASE m = d.prev[n]
    <3>1. d.next[m] = n /\ n # Null
      BY <2>1, CacheAssumption DEF Links
    <3>2. r[n] < r[m] /\ (d.next[n] # Null => d.next[n] \in L /\ r[d.next[n]] < r[n])
      BY <1>1, <3>1 DEF CountsDown, Links
    <3>3. r[n] \in Nat /\ r[m] \in Nat /\ (d.next[n] # Null => r[d.next[n]] \in Nat)
      BY <3>2
    <3> QED
      BY <1>1, <1>2, <2>1, <3>2, <3>3 DEF CountsDown
  <2>2. CASE m # d.prev[n]
    BY <1>1, <1>2, <2>2 DEF CountsDown
  <2> QED
    BY <2>1, <2>2
<1>4. CountsDown(e, L \ {n}, r, b)
  BY <1>3 DEF CountsDown
<1>5. NoRing(e, L \ {n})
  BY <1>4 DEF NoRing
<1> QED
  BY <1>5 DEF e

(* move_to_front keeps the size as well. *)
LEMMA MoveToFrontNoRing ==
  ASSUME NEW d \in CacheType, Links(d, d.live), NoRing(d, d.live), NEW n \in d.live
  PROVE  NoRing(MoveToFront(d, n), d.live) /\ MoveToFront(d, n).size = d.size
<1>1. CASE n = d.head
  BY <1>1 DEF MoveToFront
<1>2. CASE n # d.head
  <2> DEFINE u == Unlink(d, n)
  <2>1. d.live \in SUBSET Nodes /\ n \in Nodes
    BY CacheFields
  <2>2. u \in CacheType /\ u.size = d.size /\ Links(u, d.live \ {n}) /\ NoRing(u, d.live \ {n})
    BY <1>2, <2>1, UnlinkFields, UnlinkLinks, UnlinkNoRing
  <2> HIDE DEF u
  <2>3. NoRing(AddToFront(u, n), (d.live \ {n}) \cup {n}) /\ AddToFront(u, n).size = d.size
    BY <2>1, <2>2, AddToFrontNoRing, AddToFrontFields
  <2>4. (d.live \ {n}) \cup {n} = d.live
    OBVIOUS
  <2>5. MoveToFront(d, n) = AddToFront(u, n)
    BY <1>2 DEF MoveToFront, u
  <2> QED
    BY <2>3, <2>4, <2>5
<1> QED
  BY <1>1, <1>2

(* evict_lru removes exactly one node, or none if there is none. *)
LEMMA EvictLruFields ==
  ASSUME NEW d \in CacheType, d.tail # Null
  PROVE  /\ EvictLru(d).size = d.size - 1
         /\ EvictLru(d).live = d.live \ {d.tail}
         /\ EvictLru(d).head = IF d.prev[d.tail] = Null THEN Null ELSE d.head
         /\ \A m \in Nodes \ {d.tail} :
              /\ EvictLru(d).next[m] = IF m = d.prev[d.tail] THEN Null ELSE d.next[m]
              /\ EvictLru(d).key[m] = d.key[m] /\ EvictLru(d).value[m] = d.value[m]
  BY DEF EvictLru, Delete, CacheType

LEMMA EvictLruNoRing ==
  ASSUME NEW d \in CacheType, Links(d, d.live), Index(d), NoRing(d, d.live)
  PROVE  /\ NoRing(EvictLru(d), EvictLru(d).live)
         /\ EvictLru(d).size = IF d.size = 0 THEN 0 ELSE d.size - 1
<1>1. d.live \in SUBSET Nodes /\ IsFiniteSet(d.live) /\ d.size = Cardinality(d.live)
  BY CacheFields, CacheAssumption, FS_Subset DEF Index
<1>2. d.size = 0 <=> d.live = {}
  BY <1>1, FS_EmptySet
<1>3. CASE d.tail = Null
  <2>1. d.size = 0
    BY <1>1, <1>2, <1>3, TailThere
  <2> QED
    BY <1>3, <2>1 DEF EvictLru
<1>4. CASE d.tail # Null
  <2>1. d.size # 0
    BY <1>2, <1>4 DEF Links
  <2> DEFINE e == EvictLru(d)
  <2>2. /\ e.size = d.size - 1 /\ e.live = d.live \ {d.tail}
        /\ \A m \in Nodes \ {d.tail} : e.next[m] = IF m = d.prev[d.tail] THEN Null ELSE d.next[m]
    BY <1>4, EvictLruFields
  <2> HIDE DEF e
  <2>3. PICK r \in [Nodes -> Nat], b \in Nat : CountsDown(d, d.live, r, b)
    BY DEF NoRing
  <2>4. CountsDown(e, e.live, r, b)
    BY <1>1, <2>2, <2>3 DEF CountsDown
  <2>5. NoRing(e, e.live)
    BY <2>4 DEF NoRing
  <2> QED
    BY <2>1, <2>2, <2>5 DEF e
<1> QED
  BY <1>3, <1>4

(* An insertion adds one node at the front. *)
LEMMA InsertNoRing ==
  ASSUME NEW d \in CacheType, Links(d, d.live), NoRing(d, d.live),
         NEW n \in Nodes \ d.live, NEW k \in Keys, NEW v \in Values
  PROVE  /\ NoRing(Insert(d, n, k, v), Insert(d, n, k, v).live)
         /\ Insert(d, n, k, v).size = d.size + 1
<1> DEFINE f == [d EXCEPT !.live = @ \cup {n},
                          !.key = [@ EXCEPT ![n] = k],
                          !.value = [@ EXCEPT ![n] = v],
                          !.map = [@ EXCEPT ![k] = n],
                          !.size = @ + 1]
<1>1. f \in CacheType
  <2>1. /\ d.live \cup {n} \in SUBSET Nodes
        /\ [d.key EXCEPT ![n] = k] \in [Nodes -> Keys \cup {Nil}]
        /\ [d.value EXCEPT ![n] = v] \in [Nodes -> Values \cup {Nil}]
        /\ [d.map EXCEPT ![k] = n] \in [Keys -> Nodes \cup {Null}]
        /\ d.size + 1 \in Nat
    BY CacheFields DEF Pointer
  <2> QED BY <2>1 DEF CacheType
<1>2. /\ f.live = d.live \cup {n} /\ f.size = d.size + 1
      /\ f.head = d.head /\ f.tail = d.tail /\ f.prev = d.prev /\ f.next = d.next
  BY DEF CacheType
<1>3. Insert(d, n, k, v) = AddToFront(f, n)
  BY DEF Insert
<1> HIDE DEF f
<1>4. Links(f, d.live) /\ NoRing(f, d.live)
  BY <1>2 DEF Links, NoRing, CountsDown
<1>5. d.live \in SUBSET Nodes
  BY CacheFields
<1>6. NoRing(AddToFront(f, n), d.live \cup {n})
  BY <1>1, <1>4, <1>5, AddToFrontNoRing
<1>7. AddToFront(f, n).live = d.live \cup {n} /\ AddToFront(f, n).size = d.size + 1
  BY <1>1, <1>2, AddToFrontFields
<1> QED
  BY <1>3, <1>6, <1>7

(* What the destructor has left: the list from curr on. *)
Remaining ==
  /\ NoRing(c, c.live)
  /\ curr # Null => curr \in c.live /\ c.prev[curr] \notin c.live
  /\ \A m \in c.live :
       /\ c.next[m] # Null => c.next[m] \in c.live /\ c.prev[c.next[m]] = m
       /\ m # curr => c.prev[m] \in c.live /\ c.next[c.prev[m]] = m

(* While evict_to runs, either the capacity was kept to before, or it is   *)
(* what the loop is working towards.                                       *)
ListInv ==
  /\ CacheWellFormed
  /\ pc \in {"ready", "evict"} => NoRing(c, c.live)
  /\ PositiveCapacityRespected
  /\ pc = "evict" /\ capacity > 0 => c.size <= capacity \/ target = capacity
  /\ pc = "destroy" => Remaining
  /\ DestructorExact

(* The constructor. *)
LEMMA InitList == Init => ListInv
<1> SUFFICES ASSUME Init PROVE ListInv
  OBVIOUS
<1>1. NoRing(c, c.live)
  <2>1. CountsDown(c, c.live, [n \in Nodes |-> 0], 0)
    BY DEF Init, CountsDown
  <2> QED
    BY <2>1 DEF NoRing
<1>2. PositiveCapacityRespected /\ DestructorExact
  BY CacheAssumption DEF Init, PositiveCapacityRespected, DestructorExact
<1> QED
  BY <1>1, <1>2, InitWellFormed DEF Init, ListInv

(* get moves a node or nothing. *)
LEMMA GetList ==
  ASSUME ListInv, NEW k \in Keys, Get(k)
  PROVE  ListInv'
<1>1. c \in CacheType /\ Links(c, c.live) /\ Index(c) /\ NoRing(c, c.live)
  BY DEF ListInv, CacheWellFormed, TypeOK, Get
<1>2. NoRing(c', c'.live) /\ c'.size = c.size
  <2>1. CASE c.map[k] = Null
    BY <1>1, <2>1 DEF Get
  <2>2. CASE c.map[k] # Null
    <3>1. c.map[k] \in c.live /\ c' = MoveToFront(c, c.map[k])
      BY <1>1, <2>2 DEF Get, Index
    <3> QED
      BY <1>1, <3>1, MoveToFrontLinks, MoveToFrontNoRing
  <2> QED
    BY <2>1, <2>2
<1> QED
  BY <1>2, GetStep DEF Get, ListInv, PositiveCapacityRespected, DestructorExact

(* So does put of a cached key. *)
LEMMA PutCachedList ==
  ASSUME ListInv, NEW k \in Keys, NEW v \in Values, PutCached(k, v)
  PROVE  ListInv'
<1>1. /\ c \in CacheType /\ Links(c, c.live) /\ Index(c) /\ NoRing(c, c.live)
      /\ c.map[k] \in c.live /\ c.map[k] \in Nodes
  BY CacheFields DEF ListInv, CacheWellFormed, TypeOK, PutCached, Index
<1> DEFINE d == [c EXCEPT !.value = [@ EXCEPT ![c.map[k]] = v]]
<1>2. d \in CacheType
  <2>1. [c.value EXCEPT ![c.map[k]] = v] \in [Nodes -> Values \cup {Nil}]
    BY <1>1, CacheFields
  <2> QED BY <1>1, <2>1 DEF CacheType
<1>3. /\ d.head = c.head /\ d.tail = c.tail /\ d.size = c.size
      /\ d.live = c.live /\ d.map = c.map /\ d.key = c.key
      /\ d.prev = c.prev /\ d.next = c.next
  BY <1>1 DEF CacheType
<1>4. c' = MoveToFront(d, c.map[k])
  BY DEF PutCached
<1> HIDE DEF d
<1>5. Links(d, d.live) /\ Index(d) /\ NoRing(d, d.live)
  BY <1>1, <1>3 DEF Links, Index, NoRing, CountsDown
<1>6. NoRing(c', c'.live) /\ c'.size = c.size
  BY <1>1, <1>2, <1>3, <1>4, <1>5, MoveToFrontLinks, MoveToFrontNoRing
<1> QED
  BY <1>6, PutCachedStep DEF PutCached, ListInv, PositiveCapacityRespected, DestructorExact

(* put of a new key: at a positive capacity a full cache is not empty, so  *)
(* evict_lru does make room.                                               *)
LEMMA PutNewList ==
  ASSUME ListInv, NEW k \in Keys, NEW v \in Values, PutNew(k, v)
  PROVE  ListInv'
<1>1. /\ c \in CacheType /\ Links(c, c.live) /\ Index(c) /\ NoRing(c, c.live)
      /\ capacity \in Nat /\ c.size \in Nat
  BY CacheFields DEF ListInv, CacheWellFormed, TypeOK, PutNew
<1> DEFINE d == IF c.size = capacity THEN EvictLru(c) ELSE c
<1>2. /\ d \in CacheType /\ Links(d, d.live) /\ NoRing(d, d.live)
      /\ d.size = IF c.size = capacity /\ c.size # 0 THEN c.size - 1 ELSE c.size
  BY <1>1, EvictLruStep, EvictLruNoRing
<1>3. PICK n \in Nodes \ d.live : c' = Insert(d, n, k, v)
  BY DEF PutNew
<1> HIDE DEF d
<1>4. NoRing(c', c'.live) /\ c'.size = d.size + 1
  BY <1>2, <1>3, InsertNoRing
<1>5. PositiveCapacityRespected'
  BY <1>1, <1>2, <1>4 DEF PutNew, ListInv, PositiveCapacityRespected
<1> QED
  BY <1>4, <1>5, PutNewStep DEF PutNew, ListInv, DestructorExact

(* A round of evict_to removes one entry; it ends at or below the target. *)
LEMMA EvictLoopList ==
  ASSUME ListInv, EvictLoop
  PROVE  ListInv'
<1>1. /\ c \in CacheType /\ Links(c, c.live) /\ Index(c) /\ NoRing(c, c.live)
      /\ capacity \in Nat /\ c.size \in Nat /\ target \in Nat
  BY CacheFields DEF ListInv, CacheWellFormed, TypeOK, EvictLoop
<1>2. CASE c.size > target /\ c.size > 0
  <2>1. NoRing(c', c'.live) /\ c'.size = c.size - 1 /\ pc' = "evict"
    BY <1>1, <1>2, EvictLruNoRing DEF EvictLoop
  <2> QED
    BY <1>1, <1>2, <2>1, EvictLoopStep
    DEF EvictLoop, ListInv, PositiveCapacityRespected, DestructorExact
<1>3. CASE ~(c.size > target /\ c.size > 0)
  BY <1>1, <1>3, EvictLoopStep DEF EvictLoop, ListInv, PositiveCapacityRespected, DestructorExact
<1> QED
  BY <1>2, <1>3

(* The destructor starts at the head, from which every node is reached. *)
LEMMA DestroyList ==
  ASSUME ListInv, Destroy, CacheWellFormed'
  PROVE  ListInv'
<1>1. c \in CacheType /\ Links(c, c.live) /\ NoRing(c, c.live) /\ c.live \subseteq Nodes
  BY CacheFields DEF ListInv, CacheWellFormed, TypeOK, Destroy
<1>2. Remaining'
  BY <1>1, CacheAssumption DEF Destroy, Remaining, Links
<1> QED
  BY <1>1, <1>2 DEF Destroy, ListInv, Remaining, PositiveCapacityRespected, DestructorExact

(* The destructor deletes curr and goes on to a node that is still there;  *)
(* it stops only when none is left.                                        *)
LEMMA DestroyLoopList ==
  ASSUME ListInv, DestroyLoop
  PROVE  ListInv'
<1>1. /\ c \in CacheType /\ c.live \in SUBSET Nodes /\ Remaining
      /\ curr \in Nodes \cup {Null} /\ Null \notin Nodes
  BY CacheFields, CacheAssumption DEF ListInv, CacheWellFormed, TypeOK, DestroyLoop
<1>2. PICK r \in [Nodes -> Nat], b \in Nat : CountsDown(c, c.live, r, b)
  BY <1>1 DEF Remaining, NoRing
<1>3. CASE curr # Null
  <2>1. curr \in Nodes /\ curr \in c.live /\ c' = Delete(c, curr) /\ curr' = c.next[curr]
        /\ pc' = "destroy"
    BY <1>1, <1>3 DEF DestroyLoop, Remaining
  <2>2. /\ c'.live = c.live \ {curr}
        /\ \A m \in Nodes \ {curr} : c'.prev[m] = c.prev[m] /\ c'.next[m] = c.next[m]
    BY <1>1, <2>1, DeleteFields
  <2>3. NoRing(c', c'.live)
    <3>1. CountsDown(c', c'.live, r, b)
      BY <1>1, <1>2, <2>2 DEF CountsDown
    <3> QED
      BY <3>1 DEF NoRing
  <2>4. c.next[curr] # curr
    <3>1. c.next[curr] # Null => r[c.next[curr]] < r[curr]
      BY <1>2, <2>1 DEF CountsDown
    <3>2. r[curr] \in Nat
      BY <2>1
    <3> QED
      BY <1>3, <3>1, <3>2
  <2>5. curr' # Null => curr' \in c'.live /\ c'.prev[curr'] \notin c'.live
    BY <1>1, <2>1, <2>2, <2>4 DEF Remaining
  <2>6. ASSUME NEW m \in c'.live
        PROVE  /\ c'.next[m] # Null => c'.next[m] \in c'.live /\ c'.prev[c'.next[m]] = m
               /\ m # curr' => c'.prev[m] \in c'.live /\ c'.next[c'.prev[m]] = m
    <3>1. m \in c.live /\ m # curr /\ m \in Nodes
      BY <1>1, <2>2
    <3>2. c.next[m] # curr
      BY <1>1, <1>3, <2>1, <3>1 DEF Remaining
    <3>3. m # curr' => c.prev[m] # curr
      BY <1>1, <2>1, <3>1 DEF Remaining
    <3> QED
      BY <1>1, <2>2, <3>1, <3>2, <3>3 DEF Remaining
  <2>7. Remaining'
    BY <2>3, <2>5, <2>6 DEF Remaining
  <2> QED
    BY <2>1, <2>5, <2>7, DestroyLoopStep DEF ListInv, PositiveCapacityRespected, DestructorExact, DestroyLoop
<1>4. CASE curr = Null
  <2>1. c.live = {}
    <3> SUFFICES ASSUME c.live # {} PROVE FALSE
      OBVIOUS
    <3>1. \A m \in c.live : r[m] < b
      BY <1>2 DEF CountsDown
    <3>2. PICK n \in c.live : \A m \in c.live : r[m] <= r[n]
      BY <1>1, <3>1, FirstThere
    <3>3. c.prev[n] \in c.live /\ c.next[c.prev[n]] = n
      BY <1>1, <1>4 DEF Remaining
    <3>4. r[n] < r[c.prev[n]]
      BY <1>1, <1>2, <3>3 DEF CountsDown
    <3>5. r[n] \in Nat /\ r[c.prev[n]] \in Nat /\ r[c.prev[n]] <= r[n]
      BY <1>1, <3>2, <3>3
    <3> QED
      BY <3>4, <3>5
  <2> QED
    BY <1>4, <2>1, DestroyLoopStep DEF DestroyLoop, ListInv, PositiveCapacityRespected, DestructorExact
<1> QED
  BY <1>3, <1>4

LEMMA StepList == ListInv /\ [Next]_vars => ListInv'
<1> SUFFICES ASSUME ListInv, [Next]_vars PROVE ListInv'
  OBVIOUS
<1>1. CacheWellFormed'
  BY StepWellFormed DEF ListInv
<1>2. capacity \in Nat /\ c.size \in Nat
  BY CacheFields DEF ListInv, CacheWellFormed, TypeOK
<1>3. CASE \E n \in Capacities : EvictTo(n) \/ Resize(n)
  BY <1>1, <1>2, <1>3 DEF EvictTo, Resize, ListInv, PositiveCapacityRespected, DestructorExact
<1>4. CASE ResetStats
  BY <1>1, <1>4 DEF ResetStats, ListInv, PositiveCapacityRespected, DestructorExact
<1>5. CASE Destroy
  BY <1>1, <1>5, DestroyList
<1>6. CASE UNCHANGED vars
  BY <1>1, <1>6 DEF vars, ListInv, NoRing, CountsDown, Remaining, PositiveCapacityRespected,
     DestructorExact
<1> QED
  BY <1>3, <1>4, <1>5, <1>6, GetList, PutCachedList, PutNewList, EvictLoopList, DestroyLoopList
  DEF Next

LEMMA ListInvariant == Spec => []ListInv
  BY InitList, StepList, PTL DEF Spec

(* Between calls a positive capacity_ is respected, for any sequence of    *)
(* puts, resizes and partial evictions: put makes room because a full list *)
(* has a tail, and resize evicts what a capacity of zero let in.           *)
THEOREM CapacityRespected == Spec => []PositiveCapacityRespected
<1>1. ListInv => PositiveCapacityRespected
  BY DEF ListInv
<1> QED
  BY <1>1, ListInvariant, PTL

(* ~LRUCache deletes every node once: curr is always a live node, and the  *)
(* loop ends with none left, whatever was put, moved and evicted before.   *)
THEOREM DestructorIsExact == Spec => []DestructorExact
<1>1. ListInv => DestructorExact
  BY DEF ListInv
<1> QED
  BY <1>1, ListInvariant, PTL

-----------------------------------------------------------------------------
(* The list as a sequence, from head_ on.                                  *)

IsWalk(d, w) ==
  /\ w \in [Nat -> Pointer]
  /\ w[0] = d.head
  /\ \A i \in Nat : w[i + 1] = IF w[i] = Null THEN Null ELSE d.next[w[i]]

(* The recursive definition of Walk has a solution: it steps from node to  *)
(* node, and stays at Null.                                                *)
LEMMA WalkIsWalk ==
  ASSUME NEW d \in CacheType
  PROVE  IsWalk(d, Walk(d))
<1> DEFINE step == [p \in Pointer |-> IF p = Null THEN Null ELSE d.next[p]]
           Equation(g) == g = [i \in Nat |-> IF i = 0 THEN d.head
                                 ELSE IF g[i - 1] = Null THEN Null ELSE d.next[g[i - 1]]]
<1>1. step \in [Pointer -> Pointer] /\ d.head \in Pointer
  BY CacheFields DEF Pointer
<1>2. \A p \in Pointer : step[p] = IF p = Null THEN Null ELSE d.next[p]
  OBVIOUS
<1> HIDE DEF step
<1>3. PICK f : IsIteration(Pointer, step, d.head, f)
  BY <1>1, Iteration
<1>4. f \in [Nat -> Pointer] /\ f[0] = d.head /\ \A i \in Nat : f[i + 1] = step[f[i]]
  BY <1>3 DEF IsIteration
<1>5. Equation(f)
  <2>1. ASSUME NEW i \in Nat, i # 0
        PROVE  f[i] = IF f[i - 1] = Null THEN Null ELSE d.next[f[i - 1]]
    <3>1. i - 1 \in Nat /\ (i - 1) + 1 = i
      BY <2>1
    <3>2. f[i] = step[f[i - 1]]
      BY <1>4, <3>1
    <3> QED
      BY <1>2, <1>4, <3>1, <3>2
  <2> DEFINE h == [i \in Nat |-> IF i = 0 THEN d.head
                                 ELSE IF f[i - 1] = Null THEN Null ELSE d.next[f[i - 1]]]
  <2>2. \A i \in Nat : f[i] = h[i]
    BY <1>4, <2>1
  <2>3. f = h
    BY <1>4, <2>2
  <2> QED
    BY <2>3
<1>6. Walk(d) = CHOOSE g : Equation(g)
  BY DEF Walk
<1>7. Equation(Walk(d))
  <2> HIDE DEF Equation
  <2> QED
    BY <1>5, <1>6
<1> DEFINE w == Walk(d)
<1> HIDE DEF w
<1>8. /\ w = [i \in Nat |-> IF i = 0 THEN d.head
                            ELSE IF w[i - 1] = Null THEN Null ELSE d.next[w[i - 1]]]
  BY <1>7 DEF w
<1>9. w[0] = d.head
  BY <1>8
<1>10. ASSUME NEW i \in Nat
      PROVE  w[i + 1] = IF w[i] = Null THEN Null ELSE d.next[w[i]]
  <2>1. i + 1 \in Nat /\ i + 1 # 0 /\ (i + 1) - 1 = i
    OBVIOUS
  <2> QED
    BY <1>8, <2>1
<1>11. \A i \in Nat : w[i] \in Pointer
  <2> DEFINE S == {i \in Nat : w[i] \in Pointer}
  <2>1. 0 \in S
    BY <1>1, <1>9
  <2>2. ASSUME NEW i \in S PROVE i + 1 \in S
    BY <1>10, CacheFields DEF Pointer
  <2>3. \A i \in Nat : i \in S
    <3>1. S \in SUBSET Nat
      OBVIOUS
    <3> HIDE DEF S
    <3> QED
      BY <2>1, <2>2, <3>1, Induction
  <2> QED
    BY <2>3
<1>12. w \in [Nat -> Pointer]
  <2>1. DOMAIN w = Nat /\ w = [i \in Nat |-> w[i]]
    BY <1>8
  <2> QED
    BY <1>11, <2>1
<1> QED
  BY <1>9, <1>10, <1>12 DEF w, IsWalk

(* Whatever steps the same way is the same walk. *)
LEMMA WalkUnique ==
  ASSUME NEW d \in CacheType, NEW w, IsWalk(d, w)
  PROVE  Walk(d) = w
<1> DEFINE v == Walk(d)
<1>1. IsWalk(d, v)
  BY WalkIsWalk
<1> HIDE DEF v
<1> DEFINE S == {i \in Nat : v[i] = w[i]}
<1>2. 0 \in S
  BY <1>1 DEF IsWalk
<1>3. ASSUME NEW i \in S PROVE i + 1 \in S
  BY <1>1 DEF IsWalk
<1>4. \A i \in Nat : i \in S
  <2>1. S \in SUBSET Nat
    OBVIOUS
  <2> HIDE DEF S
  <2> QED
    BY <1>2, <1>3, <2>1, Induction
<1>5. \A i \in Nat : v[i] = w[i]
  BY <1>4
<1>6. v = w
  BY <1>1, <1>5 DEF IsWalk
<1> QED
  BY <1>6 DEF v

(* The list, its index and its nodes fit together. *)
Sound(d) == d \in CacheType /\ Links(d, d.live) /\ NoRing(d, d.live) /\ Index(d)

(* The walk meets every live node once, size_ of them, and then Null. *)
Visits(d, w) ==
  /\ \A i \in Nat : w[i] # Null <=> i < d.size
  /\ \A i \in Nat : w[i] # Null => w[i] \in d.live
  /\ \A i, j \in Nat : i < j /\ w[j] # Null => w[i] # w[j]
  /\ \A n \in d.live : \E i \in Nat : w[i] = n

(* It stays among the live nodes, and once at Null it stays there. *)
LEMMA WalkLive ==
  ASSUME NEW d \in CacheType, Links(d, d.live), NEW w, IsWalk(d, w)
  PROVE  \A i \in Nat : w[i] # Null => w[i] \in d.live
<1> DEFINE S == {i \in Nat : w[i] # Null => w[i] \in d.live}
<1>1. 0 \in S
  BY DEF IsWalk, Links
<1>2. ASSUME NEW i \in S PROVE i + 1 \in S
  BY DEF IsWalk, Links
<1>3. \A i \in Nat : i \in S
  <2>1. S \in SUBSET Nat
    OBVIOUS
  <2> HIDE DEF S
  <2> QED
    BY <1>1, <1>2, <2>1, Induction
<1> QED
  BY <1>3

(* Every step loses rank, so no node is met twice. *)
LEMMA WalkOnce ==
  ASSUME NEW d \in CacheType, Links(d, d.live), NoRing(d, d.live), NEW w, IsWalk(d, w)
  PROVE  \A i, j \in Nat : i < j /\ w[j] # Null => w[i] # Null /\ w[i] # w[j]
<1>1. PICK r \in [Nodes -> Nat], b \in Nat : CountsDown(d, d.live, r, b)
  BY DEF NoRing
<1>2. d.live \subseteq Nodes /\ \A i \in Nat : w[i] # Null => w[i] \in d.live
  BY CacheFields, WalkLive
<1> SUFFICES ASSUME NEW i \in Nat
             PROVE  \A j \in Nat : i < j /\ w[j] # Null => w[i] # Null /\ w[i] # w[j]
  OBVIOUS
<1> DEFINE S == {j \in Nat : i < j /\ w[j] # Null => w[i] # Null /\ r[w[j]] < r[w[i]]}
<1>3. 0 \in S
  OBVIOUS
<1>4. ASSUME NEW j \in S PROVE j + 1 \in S
  <2> SUFFICES ASSUME i < j + 1, w[j + 1] # Null
               PROVE  w[i] # Null /\ r[w[j + 1]] < r[w[i]]
    OBVIOUS
  <2>1. w[j] # Null /\ w[j + 1] = d.next[w[j]]
    BY DEF IsWalk
  <2>2. w[j] \in d.live /\ w[j + 1] \in d.live
    BY <1>2, <2>1
  <2>3. r[w[j + 1]] < r[w[j]]
    BY <1>1, <2>1, <2>2 DEF CountsDown
  <2>4. i = j \/ i < j
    OBVIOUS
  <2>5. r[w[j]] \in Nat /\ r[w[j + 1]] \in Nat
    BY <1>2, <2>2
  <2>6. CASE i < j
    <3>1. w[i] # Null /\ r[w[j]] < r[w[i]]
      BY <2>1, <2>6
    <3>2. r[w[i]] \in Nat
      BY <1>2, <3>1
    <3> QED
      BY <2>3, <2>5, <3>1, <3>2
  <2> QED
    BY <2>1, <2>3, <2>4, <2>6
<1>5. \A j \in Nat : j \in S
  <2>1. S \in SUBSET Nat
    OBVIOUS
  <2> HIDE DEF S
  <2> QED
    BY <1>3, <1>4, <2>1, Induction
<1> SUFFICES ASSUME NEW j \in Nat, i < j, w[j] # Null
             PROVE  w[i] # Null /\ w[i] # w[j]
  OBVIOUS
<1>6. w[i] # Null /\ r[w[j]] < r[w[i]]
  BY <1>5
<1>7. r[w[j]] \in Nat
  BY <1>2
<1> QED
  BY <1>6, <1>7

(* A first live node that is not met would have a predecessor that is. *)
LEMMA WalkAll ==
  ASSUME NEW d \in CacheType, Links(d, d.live), NoRing(d, d.live), NEW w, IsWalk(d, w),
         NEW n \in d.live
  PROVE  \E i \in Nat : w[i] = n
<1>1. PICK r \in [Nodes -> Nat], b \in Nat : CountsDown(d, d.live, r, b)
  BY DEF NoRing
<1> DEFINE U == {m \in d.live : ~\E i \in Nat : w[i] = m}
<1> SUFFICES ASSUME U # {} PROVE FALSE
  OBVIOUS
<1>2. PICK m \in U : \A k \in U : r[k] <= r[m]
  <2>1. U \in SUBSET Nodes /\ \A k \in U : r[k] < b
    BY <1>1, CacheFields DEF CountsDown
  <2> HIDE DEF U
  <2> QED
    BY <2>1, FirstThere
<1>3. m # d.head
  BY <1>2 DEF IsWalk
<1>4. d.prev[m] \in d.live /\ d.next[d.prev[m]] = m
  BY <1>2, <1>3 DEF Links
<1>5. m \in Nodes /\ d.prev[m] \in Nodes /\ m # Null /\ d.prev[m] # Null
  BY <1>2, <1>4, CacheFields, CacheAssumption
<1>6. r[m] < r[d.prev[m]] /\ r[m] \in Nat /\ r[d.prev[m]] \in Nat
  BY <1>1, <1>4, <1>5 DEF CountsDown
<1>7. d.prev[m] \notin U
  BY <1>2, <1>6
<1>8. PICK i \in Nat : w[i] = d.prev[m]
  BY <1>4, <1>7
<1>9. i + 1 \in Nat /\ w[i + 1] = m
  BY <1>4, <1>5, <1>8 DEF IsWalk
<1> QED
  BY <1>2, <1>9

(* So it is a bijection between 0 .. size_ - 1 and the live nodes. *)
LEMMA WalkVisits ==
  ASSUME NEW d, Sound(d), NEW w, IsWalk(d, w)
  PROVE  Visits(d, w)
<1>1. d \in CacheType /\ Links(d, d.live) /\ NoRing(d, d.live) /\ Index(d)
  BY DEF Sound
<1>2. \A i \in Nat : w[i] # Null => w[i] \in d.live
  BY <1>1, WalkLive
<1>3. \A i, j \in Nat : i < j /\ w[j] # Null => w[i] # Null /\ w[i] # w[j]
  BY <1>1, WalkOnce
<1>4. \A n \in d.live : \E i \in Nat : w[i] = n
  BY <1>1, WalkAll
<1>5. Null \notin d.live
  BY <1>1, CacheFields, CacheAssumption
<1> DEFINE E == {i \in Nat : w[i] = Null}
<1>6. E # {}
  <2>1. CASE d.head = Null
    BY <2>1 DEF IsWalk
  <2>2. CASE d.head # Null
    <3>1. d.tail \in d.live /\ d.next[d.tail] = Null
      BY <1>1, <2>2 DEF Links
    <3>2. PICK i \in Nat : w[i] = d.tail
      BY <1>4, <3>1
    <3>3. i + 1 \in Nat /\ w[i + 1] = Null
      BY <1>5, <3>1, <3>2 DEF IsWalk
    <3> QED
      BY <3>3
  <2> QED
    BY <2>1, <2>2
<1>7. PICK s \in E : \A i \in E : s <= i
  <2>1. E \in SUBSET Nat
    OBVIOUS
  <2> HIDE DEF E
  <2> QED
    BY <1>6, <2>1, LeastNatural
<1>8. ASSUME NEW i \in Nat PROVE w[i] # Null <=> i < s
  <2>1. s \in Nat /\ w[s] = Null
    BY <1>7
  <2>2. CASE i < s
    BY <1>7, <2>1, <2>2
  <2>3. CASE i >= s
    BY <1>3, <2>1, <2>3
  <2> QED
    BY <2>1, <2>2, <2>3
<1>9. d.size = s
  <2>1. s \in Nat
    BY <1>7
  <2> DEFINE I == 0 .. s - 1
             f == [i \in I |-> w[i]]
  <2>2. IsFiniteSet(I) /\ Cardinality(I) = s
    BY <2>1, FS_Interval
  <2>3. I \subseteq Nat /\ \A i \in Nat : i \in I <=> i < s
    BY <2>1
  <2> HIDE DEF I
  <2>4. f \in [I -> d.live]
    BY <1>2, <1>8, <2>3
  <2>5. ASSUME NEW i \in I, NEW j \in I, f[i] = f[j] PROVE i = j
    <3>1. i \in Nat /\ j \in Nat /\ w[i] = w[j] /\ w[i] # Null
      BY <1>8, <2>3, <2>5
    <3>2. ~(i < j) /\ ~(j < i)
      BY <1>3, <3>1
    <3> QED
      BY <3>1, <3>2
  <2>6. ASSUME NEW n \in d.live PROVE \E i \in I : f[i] = n
    <3>1. PICK i \in Nat : w[i] = n
      BY <1>4
    <3>2. i \in I
      BY <1>5, <1>8, <2>3, <3>1
    <3> QED
      BY <3>1, <3>2
  <2> HIDE DEF f
  <2>7. f \in Bijection(I, d.live)
    BY <2>4, <2>5, <2>6, Fun_IsBij
  <2>8. ExistsBijection(I, d.live)
    BY <2>7 DEF ExistsBijection
  <2>9. Cardinality(d.live) = s
    BY <2>2, <2>8, FS_Bijection
  <2> QED
    BY <1>1, <2>9 DEF Index
<1> QED
  BY <1>2, <1>3, <1>4, <1>8, <1>9 DEF Visits

(* The values of the fields that move_to_front touches. *)
LEMMA MoveToFrontFields ==
  ASSUME NEW d \in CacheType, NEW n \in Nodes
  PROVE  /\ MoveToFront(d, n).key = d.key /\ MoveToFront(d, n).value = d.value
         /\ n # d.head =>
              /\ MoveToFront(d, n).head = n
              /\ \A m \in Nodes : MoveToFront(d, n).next[m] =
                   IF m = n THEN d.head ELSE IF m = d.prev[n] THEN d.next[n] ELSE d.next[m]
<1>1. CASE n = d.head
  BY <1>1 DEF MoveToFront
<1>2. CASE n # d.head
  <2> DEFINE u == Unlink(d, n)
  <2>1. /\ u \in CacheType /\ u.head = d.head /\ u.key = d.key /\ u.value = d.value
        /\ \A m \in Nodes : u.next[m] = IF m = d.prev[n] THEN d.next[n] ELSE d.next[m]
    BY UnlinkFields
  <2>2. MoveToFront(d, n) = AddToFront(u, n)
    BY <1>2 DEF MoveToFront
  <2> HIDE DEF u
  <2>3. /\ AddToFront(u, n).key = u.key /\ AddToFront(u, n).value = u.value
        /\ AddToFront(u, n).head = n
        /\ \A m \in Nodes : AddToFront(u, n).next[m] = IF m = n THEN u.head ELSE u.next[m]
    BY <2>1, AddToFrontFields
  <2> QED
    BY <2>1, <2>2, <2>3
<1> QED
  BY <1>1, <1>2

(* move_to_front takes the j-th node out of the walk and starts with it. *)
LEMMA MoveToFrontWalk ==
  ASSUME NEW d, Sound(d), NEW j \in Nat, j < d.size
  PROVE  LET n == Walk(d)[j]
             e == MoveToFront(d, n)
         IN  /\ Sound(e) /\ e.size = d.size /\ e.key = d.key /\ e.value = d.value
             /\ \A i \in Nat : Walk(e)[i] = IF i = 0 THEN n
                                            ELSE IF i <= j THEN Walk(d)[i - 1] ELSE Walk(d)[i]
<1>1. d \in CacheType /\ Links(d, d.live) /\ NoRing(d, d.live) /\ Index(d)
  BY DEF Sound
<1> DEFINE w == Walk(d)
           n == w[j]
           e == MoveToFront(d, n)
           v == [i \in Nat |-> IF i = 0 THEN n ELSE IF i <= j THEN w[i - 1] ELSE w[i]]
<1>2. IsWalk(d, w) /\ Visits(d, w)
  BY <1>1, WalkIsWalk, WalkVisits
<1> HIDE DEF w
<1>3. n # Null /\ n \in d.live /\ n \in Nodes /\ Null \notin Nodes /\ d.live \subseteq Nodes
  BY <1>1, <1>2, CacheFields, CacheAssumption DEF Visits
<1>4. Sound(e) /\ e.size = d.size /\ e \in CacheType
  BY <1>1, <1>3, MoveToFrontLinks, MoveToFrontNoRing DEF Sound
<1>5. e.key = d.key /\ e.value = d.value
  BY <1>1, <1>3, MoveToFrontFields
<1>6. IsWalk(e, v)
  <2>1. CASE n = d.head
    <3>1. j = 0
      BY <1>2, <1>3, <2>1 DEF IsWalk, Visits
    <3>2. e = d
      BY <2>1 DEF MoveToFront
    <3>3. v = w
      BY <1>2, <3>1 DEF IsWalk
    <3> QED
      BY <1>2, <3>2, <3>3
  <2>2. CASE n # d.head
    <3>1. /\ e.head = n
          /\ \A m \in Nodes : e.next[m] =
               IF m = n THEN d.head ELSE IF m = d.prev[n] THEN d.next[n] ELSE d.next[m]
      BY <1>1, <1>3, <2>2, MoveToFrontFields
    <3> HIDE DEF e
    <3>2. j # 0 /\ j - 1 \in Nat /\ (j - 1) + 1 = j
      BY <1>2, <2>2 DEF IsWalk
    <3> DEFINE p == w[j - 1]
    <3>3. p # Null /\ p # n
      <4>1. j - 1 < j /\ j - 1 < d.size
        BY <1>1, <3>2, CacheFields
      <4>2. p # Null
        BY <1>2, <3>2, <4>1 DEF Visits
      <4> QED
        BY <1>2, <1>3, <3>2, <4>1, <4>2 DEF Visits
    <3>4. d.next[p] = n /\ d.prev[n] = p /\ p \in Nodes
      <4>1. w[j] = d.next[p]
        BY <1>2, <3>2, <3>3 DEF IsWalk
      <4>2. p \in d.live
        BY <1>2, <3>2, <3>3 DEF Visits
      <4> QED
        BY <1>1, <1>3, <4>1, <4>2 DEF Links
    <3>5. \A i \in Nat : w[i] \in Pointer
      BY <1>2 DEF IsWalk
    <3>6. v \in [Nat -> Pointer]
      <4>1. ASSUME NEW i \in Nat, i # 0 PROVE i - 1 \in Nat
        BY <4>1
      <4> QED
        BY <3>5, <4>1
    <3>7. ASSUME NEW i \in Nat, i # j, w[i] # Null PROVE w[i] # n /\ w[i] \in Nodes
      BY <1>2, <1>3, <3>7 DEF Visits
    <3>8. ASSUME NEW i \in Nat, i # j - 1, w[i] # Null PROVE w[i] # p
      BY <1>2, <3>2, <3>3, <3>8 DEF Visits
    <3>9. ASSUME NEW i \in Nat
          PROVE  v[i + 1] = IF v[i] = Null THEN Null ELSE e.next[v[i]]
      <4>1. CASE i = 0
        <5>1. v[i] = n /\ v[i + 1] = w[0]
          BY <3>2, <4>1
        <5> QED
          BY <1>2, <1>3, <3>1, <5>1 DEF IsWalk
      <4>2. CASE i # 0 /\ i < j
        <5>1. /\ i - 1 \in Nat /\ i - 1 # j /\ i - 1 # j - 1 /\ (i - 1) + 1 = i
              /\ v[i] = w[i - 1] /\ v[i + 1] = w[i]
          BY <3>2, <4>2
        <5>2. w[i - 1] # Null
          <6>1. i - 1 < d.size
            BY <1>1, <4>2, <5>1, CacheFields
          <6> QED
            BY <1>2, <5>1, <6>1 DEF Visits
        <5>3. w[i - 1] # n /\ w[i - 1] # p /\ w[i - 1] \in Nodes
          BY <3>7, <3>8, <5>1, <5>2
        <5>4. w[i] = d.next[w[i - 1]]
          BY <1>2, <5>1, <5>2 DEF IsWalk
        <5> QED
          BY <3>1, <3>4, <5>1, <5>2, <5>3, <5>4
      <4>3. CASE i = j
        <5>1. v[i] = p /\ v[i + 1] = w[j + 1]
          BY <3>2, <4>3
        <5>2. w[j + 1] = d.next[n]
          BY <1>2, <1>3 DEF IsWalk
        <5> QED
          BY <3>1, <3>3, <3>4, <5>1, <5>2
      <4>4. CASE i > j
        <5>1. i # j /\ i # j - 1 /\ v[i] = w[i] /\ v[i + 1] = w[i + 1]
          BY <3>2, <4>4
        <5>2. w[i] # Null => w[i] # n /\ w[i] # p /\ w[i] \in Nodes
          BY <3>7, <3>8, <5>1
        <5>3. w[i + 1] = IF w[i] = Null THEN Null ELSE d.next[w[i]]
          BY <1>2 DEF IsWalk
        <5> QED
          BY <3>1, <3>4, <5>1, <5>2, <5>3
      <4> QED
        BY <4>1, <4>2, <4>3, <4>4
    <3>10. v[0] = e.head
      BY <3>1
    <3> HIDE DEF v
    <3> QED
      BY <3>6, <3>9, <3>10 DEF IsWalk
  <2> QED
    BY <2>1, <2>2
<1>7. Walk(e) = v
  BY <1>4, <1>6, WalkUnique
<1>8. \A i \in Nat : Walk(e)[i] = IF i = 0 THEN n ELSE IF i <= j THEN w[i - 1] ELSE w[i]
  BY <1>7
<1> HIDE DEF e
<1> QED
  BY <1>4, <1>5, <1>8 DEF e, w

(* evict_lru cuts the last node off the walk. *)
LEMMA EvictLruWalk ==
  ASSUME NEW d, Sound(d), d.size # 0
  PROVE  LET e == EvictLru(d)
         IN  /\ Sound(e) /\ e.size = d.size - 1
             /\ \A i \in Nat : i < d.size - 1 =>
                  /\ Walk(e)[i] = Walk(d)[i]
                  /\ e.key[Walk(d)[i]] = d.key[Walk(d)[i]]
                  /\ e.value[Walk(d)[i]] = d.value[Walk(d)[i]]
<1>1. d \in CacheType /\ Links(d, d.live) /\ NoRing(d, d.live) /\ Index(d)
  BY DEF Sound
<1> DEFINE w == Walk(d)
           e == EvictLru(d)
           z == d.size - 1
           v == [i \in Nat |-> IF i < z THEN w[i] ELSE Null]
<1>2. IsWalk(d, w) /\ Visits(d, w)
  BY <1>1, WalkIsWalk, WalkVisits
<1> HIDE DEF w
<1>3. z \in Nat /\ z + 1 = d.size
  BY <1>1, CacheFields
<1>4. Sound(e) /\ e.size = z /\ e \in CacheType
  BY <1>1, EvictLruStep, EvictLruNoRing DEF Sound
<1>5. Null \notin Nodes /\ d.live \subseteq Nodes
  BY <1>1, CacheFields, CacheAssumption
<1>6. w[z] = d.tail /\ d.tail # Null /\ d.tail \in Nodes
  <2>1. w[z] # Null /\ w[z + 1] = Null
    BY <1>2, <1>3 DEF Visits
  <2>2. w[z] \in d.live /\ d.next[w[z]] = Null
    BY <1>2, <1>3, <2>1 DEF Visits, IsWalk
  <2> QED
    BY <1>1, <1>5, <2>1, <2>2 DEF Links
<1>7. /\ e.head = IF d.prev[d.tail] = Null THEN Null ELSE d.head
      /\ \A m \in Nodes \ {d.tail} :
           /\ e.next[m] = IF m = d.prev[d.tail] THEN Null ELSE d.next[m]
           /\ e.key[m] = d.key[m] /\ e.value[m] = d.value[m]
  BY <1>1, <1>6, EvictLruFields
<1> HIDE DEF e
<1> DEFINE p == d.prev[d.tail]
<1>8. ASSUME NEW i \in Nat, i < z
      PROVE  /\ w[i] # Null /\ w[i] \in Nodes /\ w[i] # d.tail
             /\ w[i + 1] = d.next[w[i]] /\ (i + 1 = z <=> w[i] = p)
  <2>1. i < d.size /\ i + 1 < d.size
    BY <1>3, <1>8
  <2>2. w[i] # Null /\ w[i] \in d.live /\ w[i + 1] # Null
    BY <1>2, <2>1 DEF Visits
  <2>3. w[i] # d.tail
    BY <1>2, <1>3, <1>6, <1>8 DEF Visits
  <2>4. w[i + 1] = d.next[w[i]]
    BY <1>2, <2>2 DEF IsWalk
  <2>5. d.prev[w[i + 1]] = w[i]
    BY <1>1, <2>2, <2>4 DEF Links
  <2>6. ASSUME w[i] = p PROVE i + 1 = z
    <3>1. d.next[p] = d.tail
      BY <1>1, <1>5, <1>6, <2>2, <2>6 DEF Links
    <3>2. w[i + 1] = w[z]
      BY <1>6, <2>4, <2>6, <3>1
    <3>3. ~(i + 1 < z)
      BY <1>2, <1>3, <1>6, <3>2 DEF Visits
    <3> QED
      BY <1>3, <1>8, <3>3
  <2> QED
    BY <1>5, <1>6, <2>2, <2>3, <2>4, <2>5, <2>6
<1>9. IsWalk(e, v)
  <2>1. v \in [Nat -> Pointer]
    BY <1>2 DEF IsWalk, Pointer
  <2>2. v[0] = e.head
    <3>1. CASE z = 0
      <4>1. d.tail = d.head
        BY <1>2, <1>6, <3>1 DEF IsWalk
      <4>2. p = Null
        BY <1>1, <1>6, <4>1 DEF Links
      <4> QED
        BY <1>7, <3>1, <4>2
    <3>2. CASE z # 0
      <4>1. d.tail # d.head
        BY <1>2, <1>3, <1>6, <3>2 DEF IsWalk, Visits
      <4>2. p # Null
        BY <1>1, <1>6, <4>1 DEF Links
      <4>3. v[0] = w[0]
        BY <1>3, <3>2
      <4> QED
        BY <1>2, <1>7, <4>2, <4>3 DEF IsWalk
    <3> QED
      BY <3>1, <3>2
  <2>3. ASSUME NEW i \in Nat
        PROVE  v[i + 1] = IF v[i] = Null THEN Null ELSE e.next[v[i]]
    <3>1. CASE i < z
      <4>1. v[i] = w[i] /\ v[i + 1] = IF i + 1 = z THEN Null ELSE w[i + 1]
        BY <1>3, <3>1
      <4> QED
        BY <1>7, <1>8, <3>1, <4>1
    <3>2. CASE ~(i < z)
      BY <1>3, <3>2
    <3> QED
      BY <3>1, <3>2
  <2> HIDE DEF v
  <2> QED
    BY <2>1, <2>2, <2>3 DEF IsWalk
<1>10. Walk(e) = v
  BY <1>4, <1>9, WalkUnique
<1>11. ASSUME NEW i \in Nat, i < z
       PROVE  Walk(e)[i] = w[i] /\ e.key[w[i]] = d.key[w[i]] /\ e.value[w[i]] = d.value[w[i]]
  BY <1>7, <1>8, <1>10, <1>11
<1> QED
  BY <1>4, <1>11 DEF e, w

(* put's insertion starts the walk with the new node. *)
LEMMA InsertFields ==
  ASSUME NEW d \in CacheType, NEW n \in Nodes, NEW k \in Keys, NEW v \in Values
  PROVE  /\ Insert(d, n, k, v).head = n
         /\ Insert(d, n, k, v).key = [d.key EXCEPT ![n] = k]
         /\ Insert(d, n, k, v).value = [d.value EXCEPT ![n] = v]
         /\ \A m \in Nodes : Insert(d, n, k, v).next[m] = IF m = n THEN d.head ELSE d.next[m]
  BY DEF Insert, AddToFront, CacheType

LEMMA InsertWalk ==
  ASSUME NEW d, Sound(d), NEW n \in Nodes \ d.live, NEW k \in Keys, NEW u \in Values,
         d.map[k] = Null
  PROVE  LET e == Insert(d, n, k, u)
         IN  /\ Sound(e) /\ e.size = d.size + 1
             /\ e.key[n] = k /\ e.value[n] = u
             /\ \A m \in d.live : e.key[m] = d.key[m] /\ e.value[m] = d.value[m]
             /\ \A i \in Nat : Walk(e)[i] = IF i = 0 THEN n ELSE Walk(d)[i - 1]
<1>1. d \in CacheType /\ Links(d, d.live) /\ NoRing(d, d.live) /\ Index(d)
  BY DEF Sound
<1> DEFINE w == Walk(d)
           e == Insert(d, n, k, u)
           v == [i \in Nat |-> IF i = 0 THEN n ELSE w[i - 1]]
<1>2. IsWalk(d, w) /\ Visits(d, w)
  BY <1>1, WalkIsWalk, WalkVisits
<1> HIDE DEF w
<1>3. Sound(e) /\ e.size = d.size + 1 /\ e \in CacheType
  BY <1>1, InsertStep, InsertNoRing DEF Sound
<1>4. Null \notin Nodes /\ d.live \subseteq Nodes
  BY <1>1, CacheFields, CacheAssumption
<1>5. /\ e.head = n
      /\ e.key = [d.key EXCEPT ![n] = k] /\ e.value = [d.value EXCEPT ![n] = u]
      /\ \A m \in Nodes : e.next[m] = IF m = n THEN d.head ELSE d.next[m]
  BY <1>1, InsertFields
<1> HIDE DEF e
<1>6. /\ e.key[n] = k /\ e.value[n] = u
      /\ \A m \in d.live : e.key[m] = d.key[m] /\ e.value[m] = d.value[m]
  BY <1>1, <1>4, <1>5, CacheFields
<1>7. IsWalk(e, v)
  <2>1. ASSUME NEW i \in Nat, i # 0 PROVE i - 1 \in Nat /\ (i - 1) + 1 = i
    BY <2>1
  <2>2. v \in [Nat -> Pointer]
    BY <1>2, <2>1 DEF IsWalk, Pointer
  <2>3. ASSUME NEW i \in Nat
        PROVE  v[i + 1] = IF v[i] = Null THEN Null ELSE e.next[v[i]]
    <3>1. v[i + 1] = w[i]
      OBVIOUS
    <3>2. CASE i = 0
      BY <1>2, <1>4, <1>5, <3>1, <3>2 DEF IsWalk
    <3>3. CASE i # 0
      <4>1. i - 1 \in Nat /\ v[i] = w[i - 1]
        BY <2>1, <3>3
      <4>2. w[i] = IF w[i - 1] = Null THEN Null ELSE d.next[w[i - 1]]
        BY <1>2, <2>1, <3>3 DEF IsWalk
      <4>3. w[i - 1] # Null => w[i - 1] \in Nodes /\ w[i - 1] # n
        BY <1>2, <1>4, <4>1 DEF Visits
      <4> QED
        BY <1>5, <3>1, <4>1, <4>2, <4>3
    <3> QED
      BY <3>2, <3>3
  <2>4. v[0] = e.head
    BY <1>5
  <2> HIDE DEF v
  <2> QED
    BY <2>2, <2>3, <2>4 DEF IsWalk
<1>8. Walk(e) = v
  BY <1>3, <1>7, WalkUnique
<1>9. \A i \in Nat : Walk(e)[i] = IF i = 0 THEN n ELSE w[i - 1]
  BY <1>8
<1> QED
  BY <1>3, <1>6, <1>9 DEF e, w

-----------------------------------------------------------------------------
(* The entries of a cache as a sequence.                                   *)

AnyEntry == [key : Keys \cup {Nil}, value : Values \cup {Nil}] \cup {Nil}

LEMMA EntryType ==
  ASSUME NEW d \in CacheType, NEW n \in Pointer
  PROVE  Entry(d, n) \in AnyEntry
  BY CacheFields DEF Entry, AnyEntry, Pointer

LEMMA ListedSeq ==
  ASSUME NEW d \in CacheType, NEW n \in Nat
  PROVE  /\ Listed(d, n) \in Seq(AnyEntry) /\ Len(Listed(d, n)) = n
         /\ \A i \in 1 .. n : Listed(d, n)[i] = Entry(d, Walk(d)[i - 1])
<1> DEFINE w == Walk(d)
<1>1. IsWalk(d, w)
  BY WalkIsWalk
<1> HIDE DEF w
<1>2. ASSUME NEW i \in 1 .. n PROVE Entry(d, w[i - 1]) \in AnyEntry
  <2>1. w[i - 1] \in Pointer
    BY <1>1 DEF IsWalk
  <2> QED
    BY <2>1, EntryType
<1> DEFINE s == [i \in 1 .. n |-> Entry(d, w[i - 1])]
<1>3. s \in [1 .. n -> AnyEntry]
  BY <1>2
<1>4. \A i \in 1 .. n : s[i] = Entry(d, w[i - 1])
  OBVIOUS
<1>5. Listed(d, n) = s
  BY DEF Listed, w
<1> HIDE DEF s
<1>6. s \in Seq(AnyEntry)
  BY <1>3, SeqDef
<1>7. Len(s) = n
  BY <1>3, <1>6, LenProperties
<1> QED
  BY <1>4, <1>5, <1>6, <1>7 DEF w

(* An entry in front of a sequence. *)
LEMMA Prepended ==
  ASSUME NEW S, NEW e \in S, NEW s \in Seq(S)
  PROVE  /\ <<e>> \o s \in Seq(S) /\ Len(<<e>> \o s) = Len(s) + 1
         /\ \A i \in 1 .. Len(s) + 1 : (<<e>> \o s)[i] = IF i = 1 THEN e ELSE s[i - 1]
<1>1. <<e>> \in Seq(S) /\ Len(<<e>>) = 1 /\ <<e>>[1] = e
  OBVIOUS
<1> DEFINE f == <<e>>
<1> HIDE DEF f
<1>2. f \in Seq(S) /\ Len(f) = 1 /\ f[1] = e /\ Len(s) \in Nat
  BY <1>1, LenProperties DEF f
<1>3. /\ f \o s \in Seq(S) /\ Len(f \o s) = Len(f) + Len(s)
      /\ \A i \in 1 .. Len(f) + Len(s) :
           (f \o s)[i] = IF i <= Len(f) THEN f[i] ELSE s[i - Len(f)]
  BY <1>2, ConcatProperties, Zenon
<1>4. ASSUME NEW i \in 1 .. Len(s) + 1
      PROVE  (f \o s)[i] = IF i = 1 THEN e ELSE s[i - 1]
  BY <1>2, <1>3
<1> QED
  BY <1>2, <1>3, <1>4 DEF f

(* The first entries of the list. *)
LEMMA CutListed ==
  ASSUME NEW d \in CacheType, NEW n \in Nat, NEW m \in Nat, m <= n
  PROVE  SubSeq(Listed(d, n), 1, m) = Listed(d, m)
<1> DEFINE s == Listed(d, n)
           t == Listed(d, m)
           u == SubSeq(s, 1, m)
<1>1. /\ s \in Seq(AnyEntry) /\ Len(s) = n
      /\ \A i \in 1 .. n : s[i] = Entry(d, Walk(d)[i - 1])
      /\ t \in Seq(AnyEntry) /\ Len(t) = m
      /\ \A i \in 1 .. m : t[i] = Entry(d, Walk(d)[i - 1])
  BY ListedSeq
<1> HIDE DEF s, t
<1>2. \A i \in 1 .. m : s[i] \in AnyEntry
  <2> SUFFICES ASSUME NEW i \in 1 .. m PROVE s[i] \in AnyEntry
    OBVIOUS
  <2>1. i \in 1 .. Len(s)
    BY <1>1
  <2> QED
    BY <1>1, <2>1, ElementOfSeq
<1>3. /\ u \in Seq(AnyEntry)
      /\ Len(u) = (IF 1 <= m THEN m - 1 + 1 ELSE 0)
      /\ \A i \in 1 .. m - 1 + 1 : u[i] = s[1 + i - 1]
  <2>1. 1 \in Int /\ m \in Int
    OBVIOUS
  <2> QED
    BY <1>2, <2>1, SubSeqProperties
<1> HIDE DEF u
<1>4. Len(u) = m
  BY <1>3
<1>5. ASSUME NEW i \in 1 .. m PROVE u[i] = t[i]
  <2>1. 1 + i - 1 = i /\ i \in 1 .. m - 1 + 1 /\ i \in 1 .. n
    OBVIOUS
  <2> QED
    BY <1>1, <1>3, <2>1
<1>6. u = t
  BY <1>1, <1>3, <1>4, <1>5, SeqEqual
<1> QED
  BY <1>6 DEF u, t, s

(* A sequence with x in front and its i-th element taken out. *)
Shifted(s, x, i) ==
  <<x>> \o [m \in 1 .. Len(s) - 1 |-> s[IF m < i THEN m ELSE m + 1]]

(* move_to_front on entries: s may differ from the list in the entry that  *)
(* is moved, as it does for a put of a cached key.                         *)
LEMMA MovedListed ==
  ASSUME NEW d, Sound(d), NEW j \in Nat, j < d.size,
         NEW s \in Seq(AnyEntry), Len(s) = d.size,
         \A i \in 1 .. d.size : i # j + 1 => s[i] = Entry(d, Walk(d)[i - 1])
  PROVE  Listed(MoveToFront(d, Walk(d)[j]), d.size) = Shifted(s, Entry(d, Walk(d)[j]), j + 1)
<1> DEFINE w == Walk(d)
           n == w[j]
           e == MoveToFront(d, n)
           x == Entry(d, n)
           z == d.size
           t == [i \in 1 .. z - 1 |-> s[IF i < j + 1 THEN i ELSE i + 1]]
           l == Listed(e, z)
           u == <<x>> \o t
<1>1. d \in CacheType /\ z \in Nat
  BY CacheFields DEF Sound
<1>2. /\ Sound(e) /\ e.size = z /\ e.key = d.key /\ e.value = d.value
      /\ \A i \in Nat : Walk(e)[i] = IF i = 0 THEN n ELSE IF i <= j THEN w[i - 1] ELSE w[i]
  BY MoveToFrontWalk
<1>3. IsWalk(d, w)
  BY <1>1, WalkIsWalk
<1> HIDE DEF w, e, z
<1>4. e \in CacheType /\ \A m \in Pointer : Entry(e, m) = Entry(d, m)
  BY <1>2 DEF Sound, Entry
<1>5. n \in Pointer /\ x \in AnyEntry
  <2>1. n \in Pointer
    BY <1>3 DEF IsWalk
  <2> QED
    BY <1>1, <2>1, EntryType
<1>6. l \in Seq(AnyEntry) /\ Len(l) = z /\ \A i \in 1 .. z : l[i] = Entry(e, Walk(e)[i - 1])
  BY <1>1, <1>4, ListedSeq
<1> HIDE DEF l
<1>7. z - 1 \in Nat /\ (z - 1) + 1 = z /\ j < z /\ Len(s) = z
  BY <1>1 DEF z
<1>8. t \in Seq(AnyEntry) /\ Len(t) = z - 1 /\
        \A i \in 1 .. z - 1 : t[i] = s[IF i < j + 1 THEN i ELSE i + 1]
  <2>1. ASSUME NEW i \in 1 .. z - 1 PROVE s[IF i < j + 1 THEN i ELSE i + 1] \in AnyEntry
    <3>1. (IF i < j + 1 THEN i ELSE i + 1) \in 1 .. Len(s)
      BY <1>7
    <3> QED
      BY <3>1, ElementOfSeq
  <2>2. t \in [1 .. z - 1 -> AnyEntry]
    BY <2>1
  <2>3. \A i \in 1 .. z - 1 : t[i] = s[IF i < j + 1 THEN i ELSE i + 1]
    OBVIOUS
  <2> HIDE DEF t
  <2>4. t \in Seq(AnyEntry)
    BY <1>7, <2>2, SeqDef
  <2>5. Len(t) = z - 1
    BY <1>7, <2>2, <2>4, LenProperties
  <2> QED
    BY <2>3, <2>4, <2>5
<1> HIDE DEF t, x
<1>9. /\ u \in Seq(AnyEntry) /\ Len(u) = Len(t) + 1
      /\ \A i \in 1 .. Len(t) + 1 : u[i] = IF i = 1 THEN x ELSE t[i - 1]
  BY <1>5, <1>8, Prepended
<1> HIDE DEF u
<1>10. Len(u) = z
  BY <1>7, <1>8, <1>9
<1>11. ASSUME NEW i \in 1 .. z PROVE l[i] = u[i]
  <2>1. /\ i \in Nat /\ i - 1 \in Nat /\ i \in 1 .. Len(t) + 1
        /\ l[i] = Entry(e, Walk(e)[i - 1])
    BY <1>1, <1>6, <1>7, <1>8
  <2>2. CASE i = 1
    <3>1. Walk(e)[i - 1] = n /\ u[i] = x
      BY <1>2, <1>9, <2>1, <2>2
    <3> QED
      BY <1>4, <1>5, <2>1, <3>1 DEF x
  <2>3. CASE i # 1
    <3>1. /\ u[i] = t[i - 1] /\ i - 1 \in 1 .. z - 1
          /\ t[i - 1] = s[IF i - 1 < j + 1 THEN i - 1 ELSE (i - 1) + 1]
      BY <1>1, <1>8, <1>9, <2>1, <2>3
    <3>2. CASE i - 1 <= j
      <4>1. /\ (i - 1) - 1 \in Nat /\ i - 1 # j + 1 /\ i - 1 # 0 /\ i - 1 < j + 1
            /\ i - 1 \in 1 .. z
        BY <1>1, <2>1, <2>3, <3>2
      <4>2. u[i] = s[i - 1] /\ s[i - 1] = Entry(d, w[(i - 1) - 1])
        BY <3>1, <4>1 DEF w, z
      <4>3. Walk(e)[i - 1] = w[(i - 1) - 1]
        BY <1>2, <2>1, <3>2, <4>1
      <4>4. w[(i - 1) - 1] \in Pointer
        BY <1>3, <4>1 DEF IsWalk
      <4> QED
        BY <1>4, <2>1, <4>2, <4>3, <4>4
    <3>3. CASE ~(i - 1 <= j)
      <4>1. (i - 1) + 1 = i /\ i # j + 1 /\ i - 1 # 0 /\ ~(i - 1 < j + 1)
        BY <2>1, <2>3, <3>3
      <4>2. u[i] = s[i] /\ s[i] = Entry(d, w[i - 1])
        BY <3>1, <4>1 DEF w, z
      <4>3. Walk(e)[i - 1] = w[i - 1]
        BY <1>2, <2>1, <3>3, <4>1
      <4>4. w[i - 1] \in Pointer
        BY <1>3, <2>1 DEF IsWalk
      <4> QED
        BY <1>4, <2>1, <4>2, <4>3, <4>4
    <3> QED
      BY <3>2, <3>3
  <2> QED
    BY <2>2, <2>3
<1>12. l = u
  BY <1>6, <1>9, <1>10, <1>11, SeqEqual
<1> QED
  BY <1>7, <1>12 DEF l, u, t, x, e, w, z, Shifted

(* evict_lru leaves the entries before the last as they are. *)
LEMMA EvictedListed ==
  ASSUME NEW d, Sound(d), d.size # 0, NEW m \in Nat, m <= d.size - 1
  PROVE  Listed(EvictLru(d), m) = Listed(d, m)
<1> DEFINE e == EvictLru(d)
           w == Walk(d)
           z == d.size - 1
<1>1. d \in CacheType /\ z \in Nat /\ z < d.size
  BY CacheFields DEF Sound
<1>2. \A i \in Nat : i < z =>
        /\ Walk(e)[i] = w[i] /\ e.key[w[i]] = d.key[w[i]] /\ e.value[w[i]] = d.value[w[i]]
  BY EvictLruWalk
<1> HIDE DEF e, w, z
<1>3. ASSUME NEW i \in 1 .. m PROVE Entry(e, Walk(e)[i - 1]) = Entry(d, w[i - 1])
  <2>1. i - 1 \in Nat /\ i - 1 < z
    BY <1>1 DEF z
  <2> QED
    BY <1>2, <2>1 DEF Entry
<1>4. [i \in 1 .. m |-> Entry(e, Walk(e)[i - 1])] = [i \in 1 .. m |-> Entry(d, w[i - 1])]
  BY <1>3
<1> QED
  BY <1>4 DEF Listed, e, w

(* put's insertion on entries: what s holds beyond the list is cut off, as *)
(* after an eviction.                                                      *)
LEMMA InsertedListed ==
  ASSUME NEW d, Sound(d), NEW n \in Nodes \ d.live, NEW k \in Keys, NEW v \in Values,
         d.map[k] = Null,
         NEW s \in Seq(AnyEntry), d.size <= Len(s), SubSeq(s, 1, d.size) = Listed(d, d.size)
  PROVE  Listed(Insert(d, n, k, v), d.size + 1) =
           SubSeq(<<[key |-> k, value |-> v]>> \o s, 1, d.size + 1)
<1> DEFINE w == Walk(d)
           e == Insert(d, n, k, v)
           x == [key |-> k, value |-> v]
           z == d.size + 1
           a == <<x>> \o s
           l == Listed(e, z)
           u == SubSeq(a, 1, z)
<1>1. d \in CacheType /\ d.size \in Nat /\ z \in Nat /\ Len(s) \in Nat /\ Null \notin Nodes
  BY CacheFields, CacheAssumption, LenProperties DEF Sound
<1>2. /\ Sound(e) /\ e.size = z
      /\ e.key[n] = k /\ e.value[n] = v
      /\ \A m \in d.live : e.key[m] = d.key[m] /\ e.value[m] = d.value[m]
      /\ \A i \in Nat : Walk(e)[i] = IF i = 0 THEN n ELSE w[i - 1]
  BY InsertWalk
<1>3. Visits(d, w)
  BY <1>1, WalkIsWalk, WalkVisits
<1> HIDE DEF w, e
<1>4. ASSUME NEW i \in 1 .. d.size PROVE s[i] = Entry(e, w[i - 1])
  <2> DEFINE b == SubSeq(s, 1, d.size)
  <2>1. b[i] = Entry(d, w[i - 1])
    BY <1>1, ListedSeq DEF w
  <2>2. b[i] = s[i]
    <3>1. \A h \in 1 .. d.size : s[h] \in AnyEntry
      <4> SUFFICES ASSUME NEW h \in 1 .. d.size PROVE s[h] \in AnyEntry
        OBVIOUS
      <4>1. h \in 1 .. Len(s)
        BY <1>1
      <4> QED
        BY <4>1, ElementOfSeq
    <3>2. 1 \in Int /\ d.size \in Int
      BY <1>1
    <3>3. \A h \in 1 .. d.size - 1 + 1 : b[h] = s[1 + h - 1]
      BY <3>1, <3>2, SubSeqProperties
    <3>4. i \in 1 .. d.size - 1 + 1 /\ 1 + i - 1 = i
      BY <1>1
    <3> HIDE DEF b
    <3> QED
      BY <3>3, <3>4
  <2> HIDE DEF b
  <2>3. i - 1 \in Nat /\ i - 1 < d.size
    BY <1>1
  <2>4. w[i - 1] \in d.live
    BY <1>3, <2>3 DEF Visits
  <2> QED
    BY <1>2, <2>1, <2>2, <2>4 DEF Entry
<1>5. x \in AnyEntry /\ Entry(e, n) = x
  BY <1>1, <1>2 DEF AnyEntry, Entry
<1> HIDE DEF x
<1>6. /\ a \in Seq(AnyEntry) /\ Len(a) = Len(s) + 1
      /\ \A i \in 1 .. Len(s) + 1 : a[i] = IF i = 1 THEN x ELSE s[i - 1]
  BY <1>5, Prepended
<1> HIDE DEF a
<1>7. /\ u \in Seq(AnyEntry) /\ Len(u) = z
      /\ \A i \in 1 .. z : u[i] = a[i]
  <2>1. \A i \in 1 .. z : a[i] \in AnyEntry
    <3> SUFFICES ASSUME NEW i \in 1 .. z PROVE a[i] \in AnyEntry
      OBVIOUS
    <3>1. i \in 1 .. Len(a)
      BY <1>1, <1>6
    <3> QED
      BY <1>6, <3>1, ElementOfSeq
  <2> HIDE DEF z
  <2>2. 1 \in Int /\ z \in Int
    BY <1>1
  <2>3. /\ u \in Seq(AnyEntry) /\ Len(u) = (IF 1 <= z THEN z - 1 + 1 ELSE 0)
        /\ \A i \in 1 .. z - 1 + 1 : u[i] = a[1 + i - 1]
    BY <2>1, <2>2, SubSeqProperties
  <2> HIDE DEF u
  <2>4. z - 1 + 1 = z /\ 1 <= z /\ \A i \in 1 .. z : 1 + i - 1 = i
    BY <1>1 DEF z
  <2>5. Len(u) = z
    BY <2>3, <2>4
  <2>6. ASSUME NEW i \in 1 .. z PROVE u[i] = a[i]
    BY <2>3, <2>4
  <2> QED
    BY <2>3, <2>5, <2>6
<1> HIDE DEF u
<1>8. l \in Seq(AnyEntry) /\ Len(l) = z /\ \A i \in 1 .. z : l[i] = Entry(e, Walk(e)[i - 1])
  <2>1. e \in CacheType
    BY <1>2 DEF Sound
  <2> QED
    BY <1>1, <2>1, ListedSeq
<1> HIDE DEF l
<1>9. ASSUME NEW i \in 1 .. z PROVE l[i] = u[i]
  <2>1. l[i] = Entry(e, Walk(e)[i - 1]) /\ u[i] = a[i]
    BY <1>7, <1>8
  <2>2. i - 1 \in Nat /\ i \in 1 .. Len(s) + 1
    BY <1>1
  <2>3. CASE i = 1
    BY <1>2, <1>5, <1>6, <2>1, <2>2, <2>3
  <2>4. CASE i # 1
    <3>1. i - 1 \in 1 .. d.size /\ i - 1 # 0
      BY <1>1, <2>4
    <3>2. Walk(e)[i - 1] = w[(i - 1) - 1] /\ a[i] = s[i - 1]
      BY <1>2, <1>6, <2>2, <2>4, <3>1
    <3> QED
      BY <1>4, <2>1, <3>1, <3>2
  <2> QED
    BY <2>3, <2>4
<1>10. l = u
  BY <1>7, <1>8, <1>9, SeqEqual
<1> QED
  BY <1>10 DEF l, u, a, x, e

-----------------------------------------------------------------------------
(* The refinement.                                                         *)

(* Between calls the abstract entries are the whole list. *)
LEMMA ReadyEntries ==
  ASSUME ListInv, pc = "ready"
  PROVE  /\ Sound(c) /\ c \in CacheType /\ c.size \in Nat
         /\ Entries = Listed(c, c.size)
         /\ Entries \in Seq(AnyEntry) /\ Len(Entries) = c.size
         /\ \A i \in 1 .. c.size : Entries[i] = Entry(c, Walk(c)[i - 1])
<1>1. Sound(c) /\ c \in CacheType /\ c.size \in Nat
  BY CacheFields DEF ListInv, CacheWellFormed, TypeOK, Sound
<1>2. Entries = Listed(c, c.size)
  BY DEF Entries, Kept
<1> QED
  BY <1>1, <1>2, ListedSeq

(* The index finds a key exactly where the list has it. *)
LEMMA Found ==
  ASSUME ListInv, pc = "ready", NEW k \in Keys
  PROVE  /\ c.map[k] = Null => Abstract!At(k) = {}
         /\ c.map[k] # Null => \E j \in Nat :
              /\ j < c.size /\ Walk(c)[j] = c.map[k] /\ j + 1 \in Abstract!At(k)
              /\ Entries[j + 1] = [key |-> k, value |-> c.value[c.map[k]]]
<1> DEFINE w == Walk(c)
<1>1. /\ Sound(c) /\ c \in CacheType /\ c.size \in Nat /\ Len(Entries) = c.size
      /\ \A i \in 1 .. c.size : Entries[i] = Entry(c, w[i - 1])
  BY ReadyEntries
<1>2. IsWalk(c, w) /\ Visits(c, w)
  BY <1>1, WalkIsWalk, WalkVisits
<1>3. Index(c) /\ Null \notin c.live
  BY <1>1, CacheFields, CacheAssumption DEF Sound
<1> HIDE DEF w
<1>4. ASSUME NEW i \in 1 .. c.size
      PROVE  /\ w[i - 1] \in c.live
             /\ Entries[i] = [key |-> c.key[w[i - 1]], value |-> c.value[w[i - 1]]]
  <2>1. i - 1 \in Nat /\ i - 1 < c.size
    BY <1>1
  <2>2. w[i - 1] # Null /\ w[i - 1] \in c.live
    BY <1>2, <2>1 DEF Visits
  <2> QED
    BY <1>1, <2>2 DEF Entry
<1>5. ASSUME c.map[k] = Null, NEW i \in 1 .. c.size PROVE Entries[i].key # k
  <2>1. c.map[c.key[w[i - 1]]] = w[i - 1] /\ w[i - 1] # Null
    BY <1>3, <1>4 DEF Index
  <2>2. c.key[w[i - 1]] # k
    BY <1>5, <2>1
  <2>3. Entries[i] = [key |-> c.key[w[i - 1]], value |-> c.value[w[i - 1]]]
    BY <1>4
  <2>4. Entries[i].key = c.key[w[i - 1]]
    BY <2>3
  <2> QED
    BY <2>2, <2>4
<1>6. ASSUME c.map[k] # Null
      PROVE  \E j \in Nat : /\ j < c.size /\ w[j] = c.map[k] /\ j + 1 \in Abstract!At(k)
                            /\ Entries[j + 1] = [key |-> k, value |-> c.value[c.map[k]]]
  <2>1. c.map[k] \in c.live /\ c.key[c.map[k]] = k
    BY <1>3, <1>6 DEF Index
  <2>2. PICK j \in Nat : w[j] = c.map[k]
    BY <1>2, <2>1 DEF Visits
  <2>3. j < c.size
    BY <1>2, <1>6, <2>2 DEF Visits
  <2>4. j + 1 \in 1 .. c.size /\ (j + 1) - 1 = j
    BY <1>1, <2>3
  <2>5. Entries[j + 1] = [key |-> k, value |-> c.value[c.map[k]]]
    BY <1>4, <2>1, <2>2, <2>4
  <2>6. Entries[j + 1].key = k
    BY <2>5
  <2>7. j + 1 \in Abstract!At(k)
    BY <1>1, <2>4, <2>6 DEF Abstract!At
  <2> QED
    BY <2>2, <2>3, <2>5, <2>7
<1>7. c.map[k] = Null => Abstract!At(k) = {}
  BY <1>1, <1>5 DEF Abstract!At
<1> QED
  BY <1>6, <1>7 DEF w

(* A call that returns at once leaves the cache ready. *)
LEMMA ReadyStep ==
  ASSUME ListInv, pc = "ready", pc' = "ready", Abstract!Operation
  PROVE  Abstract!Next
  BY DEF Abstract!Next

(* get *)
LEMMA GetRefines ==
  ASSUME ListInv, NEW k \in Keys, Get(k)
  PROVE  Abstract!Next
<1>1. pc = "ready" /\ pc' = "ready"
  BY DEF Get
<1>2. CASE c.map[k] = Null
  <2>1. Entries' = Entries
    BY <1>1, <1>2 DEF Get, Entries, Kept
  <2>2. Abstract!Miss(k)
    BY <1>1, <1>2, <2>1, Found DEF Get, Abstract!Miss
  <2>3. Abstract!Operation
    BY <2>2 DEF Abstract!Operation
  <2> QED
    BY <1>1, <2>3, ReadyStep
<1>3. CASE c.map[k] # Null
  <2>1. PICK j \in Nat : /\ j < c.size /\ Walk(c)[j] = c.map[k] /\ j + 1 \in Abstract!At(k)
                         /\ Entries[j + 1] = [key |-> k, value |-> c.value[c.map[k]]]
    BY <1>1, <1>3, Found
  <2>2. /\ Sound(c) /\ c \in CacheType /\ c.size \in Nat
        /\ Entries \in Seq(AnyEntry) /\ Len(Entries) = c.size
        /\ \A i \in 1 .. c.size : Entries[i] = Entry(c, Walk(c)[i - 1])
    BY <1>1, ReadyEntries
  <2>3. j + 1 \in 1 .. c.size /\ (j + 1) - 1 = j
    BY <2>1, <2>2
  <2>4. Entry(c, c.map[k]) = Entries[j + 1]
    BY <2>1, <2>2, <2>3
  <2>5. Listed(MoveToFront(c, c.map[k]), c.size) = Abstract!Refreshed(Entries[j + 1], j + 1)
    <3>1. Listed(MoveToFront(c, Walk(c)[j]), c.size) = Shifted(Entries, Entry(c, Walk(c)[j]), j + 1)
      BY <2>1, <2>2, MovedListed
    <3> QED
      BY <2>1, <2>4, <3>1 DEF Shifted, Abstract!Refreshed
  <2>6. c' = MoveToFront(c, c.map[k]) /\ c'.size = c.size
    BY <1>3, <2>1, <2>2, MoveToFrontWalk DEF Get
  <2>7. Entries' = Listed(MoveToFront(c, c.map[k]), c.size)
    BY <1>1, <2>6 DEF Entries, Kept
  <2>8. result' = Entries[j + 1].value
    BY <1>3, <2>1 DEF Get
  <2>9. Abstract!Hit(k)
    BY <1>3, <2>1, <2>5, <2>7, <2>8 DEF Get, Abstract!Hit
  <2>10. Abstract!Operation
    BY <2>9 DEF Abstract!Operation
  <2> QED
    BY <1>1, <2>10, ReadyStep
<1> QED
  BY <1>2, <1>3

(* put of a cached key *)
LEMMA PutCachedRefines ==
  ASSUME ListInv, NEW k \in Keys, NEW v \in Values, PutCached(k, v)
  PROVE  Abstract!Next
<1>1. pc = "ready" /\ pc' = "ready" /\ c.map[k] # Null
  BY DEF PutCached
<1>2. PICK j \in Nat : /\ j < c.size /\ Walk(c)[j] = c.map[k] /\ j + 1 \in Abstract!At(k)
                       /\ Entries[j + 1] = [key |-> k, value |-> c.value[c.map[k]]]
  BY <1>1, Found
<1>3. /\ Sound(c) /\ c \in CacheType /\ c.size \in Nat
      /\ Entries \in Seq(AnyEntry) /\ Len(Entries) = c.size
      /\ \A i \in 1 .. c.size : Entries[i] = Entry(c, Walk(c)[i - 1])
  BY <1>1, ReadyEntries
<1> DEFINE n == c.map[k]
           d == [c EXCEPT !.value = [@ EXCEPT ![n] = v]]
<1>4. n \in c.live /\ c.key[n] = k /\ n \in Nodes /\ Null \notin Nodes
  BY <1>1, <1>3, CacheFields, CacheAssumption DEF Sound, Index
<1>5. d \in CacheType
  <2>1. [c.value EXCEPT ![n] = v] \in [Nodes -> Values \cup {Nil}]
    BY <1>3, CacheFields
  <2> QED
    BY <1>3, <2>1 DEF CacheType
<1>6. /\ d.head = c.head /\ d.tail = c.tail /\ d.size = c.size
      /\ d.live = c.live /\ d.map = c.map /\ d.key = c.key
      /\ d.prev = c.prev /\ d.next = c.next /\ d.value = [c.value EXCEPT ![n] = v]
  BY <1>3 DEF CacheType
<1>7. c' = MoveToFront(d, n)
  BY DEF PutCached
<1> HIDE DEF d
<1>8. Sound(d)
  <2>1. Links(c, c.live) /\ NoRing(c, c.live) /\ Index(c)
    BY <1>3 DEF Sound
  <2>2. Links(d, d.live)
    BY <1>6, <2>1 DEF Links
  <2>3. NoRing(d, d.live)
    BY <1>6, <2>1 DEF NoRing, CountsDown
  <2>4. Index(d)
    BY <1>6, <2>1 DEF Index
  <2> QED
    BY <1>5, <2>2, <2>3, <2>4 DEF Sound
<1>9. Walk(d) = Walk(c)
  <2>1. IsWalk(c, Walk(c))
    BY <1>3, WalkIsWalk
  <2>2. IsWalk(d, Walk(c))
    BY <1>6, <2>1 DEF IsWalk
  <2> QED
    BY <1>5, <2>2, WalkUnique
<1>10. Entry(d, n) = [key |-> k, value |-> v]
  BY <1>3, <1>4, <1>6, CacheFields DEF Entry
<1>11. ASSUME NEW i \in 1 .. d.size, i # j + 1
       PROVE  Entries[i] = Entry(d, Walk(d)[i - 1])
  <2>1. /\ i \in 1 .. c.size /\ i - 1 \in Nat /\ i - 1 < c.size /\ i - 1 # j
        /\ Entries[i] = Entry(c, Walk(c)[i - 1])
    BY <1>3, <1>6, <1>11
  <2>2. Visits(c, Walk(c))
    BY <1>3, WalkIsWalk, WalkVisits
  <2>3. Walk(c)[i - 1] # n /\ Walk(c)[i - 1] \in c.live
    BY <1>1, <1>2, <2>1, <2>2 DEF Visits
  <2> QED
    BY <1>3, <1>6, <1>9, <2>1, <2>3, CacheFields DEF Entry
<1>12. Listed(MoveToFront(d, n), c.size) = Abstract!Refreshed([key |-> k, value |-> v], j + 1)
  <2>1. j < d.size /\ Len(Entries) = d.size
    BY <1>2, <1>3, <1>6
  <2>2. Listed(MoveToFront(d, Walk(d)[j]), d.size) = Shifted(Entries, Entry(d, Walk(d)[j]), j + 1)
    BY <1>3, <1>8, <1>11, <2>1, MovedListed
  <2>3. Walk(d)[j] = n /\ d.size = c.size
    BY <1>2, <1>6, <1>9
  <2> QED
    BY <1>10, <2>2, <2>3 DEF Shifted, Abstract!Refreshed
<1>13. c'.size = c.size
  BY <1>2, <1>6, <1>7, <1>8, <1>9, MoveToFrontWalk
<1>14. Entries' = Listed(MoveToFront(d, n), c.size)
  BY <1>1, <1>7, <1>13 DEF Entries, Kept
<1>15. Abstract!PutCached(k, v)
  BY <1>2, <1>12, <1>14 DEF PutCached, Abstract!PutCached
<1>16. Abstract!Operation
  BY <1>15 DEF Abstract!Operation
<1> QED
  BY <1>1, <1>16, ReadyStep

(* put of a new key: the entry that makes room is the least recently used, *)
(* and at a capacity of zero none does.                                    *)
LEMMA PutNewRefines ==
  ASSUME ListInv, NEW k \in Keys, NEW v \in Values, PutNew(k, v)
  PROVE  Abstract!Next
<1>1. pc = "ready" /\ pc' = "ready" /\ c.map[k] = Null
  BY DEF PutNew
<1>2. /\ Sound(c) /\ c \in CacheType /\ c.size \in Nat
      /\ Entries = Listed(c, c.size) /\ Entries \in Seq(AnyEntry) /\ Len(Entries) = c.size
  BY <1>1, ReadyEntries
<1>3. capacity \in Nat /\ (capacity > 0 => c.size <= capacity)
  BY <1>1 DEF ListInv, CacheWellFormed, TypeOK, PositiveCapacityRespected
<1> DEFINE d == IF c.size = capacity THEN EvictLru(c) ELSE c
           x == [key |-> k, value |-> v]
           all == <<x>> \o Entries
<1>4. PICK n \in Nodes \ d.live : c' = Insert(d, n, k, v)
  BY DEF PutNew
<1>5. /\ Sound(d) /\ d.map[k] = Null
      /\ d.size = IF c.size = capacity /\ c.size # 0 THEN c.size - 1 ELSE c.size
      /\ Listed(d, d.size) = Listed(c, d.size)
  <2>1. CASE c.size # capacity
    BY <1>1, <1>2, <2>1
  <2>2. CASE c.size = capacity /\ c.size = 0
    <3>1. Links(c, c.live) /\ Index(c) /\ IsFiniteSet(c.live)
      BY <1>2, CacheFields, CacheAssumption, FS_Subset DEF Sound
    <3>2. c.live = {}
      BY <2>2, <3>1, FS_EmptySet DEF Index
    <3>3. c.tail = Null
      BY <3>1, <3>2 DEF Links
    <3>4. d = c
      BY <2>2, <3>3 DEF EvictLru
    <3> QED
      BY <1>1, <1>2, <2>2, <3>4
  <2>3. CASE c.size = capacity /\ c.size # 0
    <3>1. d = EvictLru(c)
      BY <2>3
    <3> HIDE DEF d
    <3>2. Sound(d) /\ d.size = c.size - 1
      BY <1>2, <2>3, <3>1, EvictLruWalk
    <3>3. d.map[k] = Null
      BY <1>1, <1>2, <3>1, EvictLruStep DEF Sound
    <3>4. d.size \in Nat /\ d.size <= c.size - 1
      BY <1>2, <2>3, <3>2
    <3>5. Listed(d, d.size) = Listed(c, d.size)
      BY <1>2, <2>3, <3>1, <3>4, EvictedListed
    <3> QED
      BY <2>3, <3>2, <3>3, <3>5
  <2> QED
    BY <2>1, <2>2, <2>3
<1> HIDE DEF d
<1>6. d.size \in Nat /\ d.size <= Len(Entries)
  BY <1>2, <1>5
<1>7. SubSeq(Entries, 1, d.size) = Listed(d, d.size)
  BY <1>2, <1>5, <1>6, CutListed
<1>8. Listed(Insert(d, n, k, v), d.size + 1) = SubSeq(all, 1, d.size + 1)
  BY <1>2, <1>4, <1>5, <1>6, <1>7, InsertedListed
<1>9. c'.size = d.size + 1
  BY <1>4, <1>5, InsertWalk
<1>10. Entries' = Listed(c', c'.size)
  BY <1>1 DEF Entries, Kept
<1>11. Entries' = SubSeq(all, 1, d.size + 1)
  BY <1>4, <1>8, <1>9, <1>10
<1>12. all \in Seq(AnyEntry) /\ Len(all) = c.size + 1
  <2>1. x \in AnyEntry
    BY DEF AnyEntry
  <2> QED
    BY <1>2, <2>1, Prepended
<1> HIDE DEF all
<1>13. Entries' = IF capacity = 0 THEN all ELSE Abstract!Newest(all, capacity)
  <2>1. CASE capacity = 0
    <3>1. d.size + 1 = Len(all)
      BY <1>2, <1>5, <1>12, <2>1
    <3> QED
      BY <1>11, <1>12, <2>1, <3>1, SubSeqFull
  <2>2. CASE capacity # 0
    <3>1. d.size + 1 = IF capacity < Len(all) THEN capacity ELSE Len(all)
      BY <1>2, <1>3, <1>5, <1>12, <2>2
    <3> QED
      BY <1>11, <2>2, <3>1 DEF Abstract!Newest
  <2> QED
    BY <2>1, <2>2
<1>14. Abstract!PutNew(k, v)
  <2>1. Abstract!At(k) = {}
    BY <1>1, Found
  <2> QED
    BY <1>13, <2>1 DEF PutNew, Abstract!PutNew, all
<1>15. Abstract!Operation
  BY <1>14 DEF Abstract!Operation
<1> QED
  BY <1>1, <1>15, ReadyStep

(* evict_to and resize cut the abstract list at once. *)
LEMMA EvictRefines ==
  ASSUME ListInv, NEW n \in Capacities, EvictTo(n) \/ Resize(n)
  PROVE  Abstract!Next
<1>1. pc = "ready" /\ pc' = "evict" /\ c' = c /\ target' = n /\ n \in Nat
  BY CacheAssumption DEF EvictTo, Resize
<1>2. /\ c \in CacheType /\ c.size \in Nat
      /\ Entries = Listed(c, c.size) /\ Len(Entries) = c.size
  BY <1>1, ReadyEntries
<1> DEFINE m == IF n < c.size THEN n ELSE c.size
<1>3. m \in Nat /\ m <= c.size
  BY <1>1, <1>2
<1>4. Entries' = Listed(c, m)
  BY <1>1 DEF Entries, Kept
<1>5. Abstract!Newest(Entries, n) = SubSeq(Entries, 1, m)
  BY <1>2 DEF Abstract!Newest
<1> HIDE DEF m
<1>6. Entries' = Abstract!Newest(Entries, n)
  BY <1>2, <1>3, <1>4, <1>5, CutListed
<1>7. Abstract!EvictTo(n) \/ Abstract!Resize(n)
  BY <1>6 DEF EvictTo, Resize, Abstract!EvictTo, Abstract!Resize
<1>8. Abstract!Operation
  BY <1>7 DEF Abstract!Operation
<1> QED
  BY <1>1, <1>8 DEF Abstract!Next

(* A round of evict_to removes what the abstract list has lost already. *)
LEMMA EvictLoopRefines ==
  ASSUME ListInv, EvictLoop
  PROVE  UNCHANGED Abstract!vars
<1>1. /\ Sound(c) /\ c.size \in Nat /\ target \in Nat
      /\ pc = "evict" /\ pc' \in {"evict", "ready"}
  BY CacheFields DEF ListInv, CacheWellFormed, TypeOK, Sound, EvictLoop
<1>2. Entries' = Entries
  <2>1. CASE c.size > target /\ c.size > 0
    <3>1. c' = EvictLru(c) /\ pc' = "evict" /\ target' = target
      BY <2>1 DEF EvictLoop
    <3>2. c'.size = c.size - 1
      BY <1>1, <2>1, <3>1, EvictLruWalk
    <3>3. Entries = Listed(c, target)
      BY <1>1, <2>1 DEF Entries, Kept
    <3>4. Entries' = Listed(c', target)
      BY <1>1, <2>1, <3>1, <3>2 DEF Entries, Kept
    <3>5. target <= c.size - 1 /\ c.size # 0
      BY <1>1, <2>1
    <3> QED
      BY <1>1, <3>1, <3>3, <3>4, <3>5, EvictedListed
  <2>2. CASE ~(c.size > target /\ c.size > 0)
    <3>1. c' = c /\ pc' = "ready"
      BY <2>2 DEF EvictLoop
    <3> QED
      BY <1>1, <2>2, <3>1 DEF Entries, Kept
  <2> QED
    BY <2>1, <2>2
<1> QED
  BY <1>1, <1>2 DEF EvictLoop, Abstract!vars

(* Every step of the linked list is a step of the abstract cache or none. *)
LEMMA StepRefines ==
  ASSUME ListInv, [Next]_vars
  PROVE  [Abstract!Next]_(Abstract!vars)
<1>1. CASE ResetStats
  <2>1. Entries' = Entries /\ pc = "ready" /\ pc' = "ready"
    BY <1>1 DEF ResetStats, Entries, Kept
  <2>2. Abstract!ResetStats
    BY <1>1, <2>1 DEF ResetStats, Abstract!ResetStats
  <2>3. Abstract!Operation
    BY <2>2 DEF Abstract!Operation
  <2> QED
    BY <2>1, <2>3, ReadyStep
<1>2. CASE Destroy
  <2>1. Entries' = <<>> /\ pc = "ready" /\ pc' = "destroy"
    BY <1>2 DEF Destroy, Entries
  <2>2. Abstract!Destroy
    BY <1>2, <2>1 DEF Destroy, Abstract!Destroy
  <2> QED
    BY <2>1, <2>2 DEF Abstract!Next
<1>3. CASE DestroyLoop
  <2>1. Entries' = <<>> /\ Entries = <<>> /\ pc = "destroy" /\ pc' \in {"destroy", "dead"}
    BY <1>3 DEF DestroyLoop, Entries
  <2> QED
    BY <1>3, <2>1 DEF DestroyLoop, Abstract!vars
<1>4. CASE UNCHANGED vars
  <2>1. Entries' = Entries
    BY <1>4 DEF vars, Entries, Kept
  <2> QED
    BY <1>4, <2>1 DEF vars, Abstract!vars
<1> QED
  BY <1>1, <1>2, <1>3, <1>4, GetRefines, PutCachedRefines, PutNewRefines, EvictRefines,
     EvictLoopRefines
  DEF Next

(* LRUCache implements LRU: whatever the pointer code does to nodes and    *)
(* links, get returns the value last put under a key that has not been     *)
(* evicted, and put, resize and evict_to drop the least recently used      *)
(* entries, for any keys, values, nodes and capacities.                    *)
THEOREM ListImplementsLRU == Spec => ImplementsLRU
<1>1. Init => Abstract!Init
  <2> SUFFICES ASSUME Init PROVE Abstract!Init
    OBVIOUS
  <2>1. pc = "ready" /\ c.size = 0
    BY DEF Init
  <2>2. Entries = Listed(c, 0)
    BY <2>1 DEF Entries, Kept
  <2>3. Listed(c, 0) = <<>>
    BY DEF Listed
  <2> QED
    BY <2>1, <2>2, <2>3 DEF Init, Abstract!Init
<1> QED
  BY <1>1, ListInvariant, StepRefines, PTL DEF Spec, ImplementsLRU, Abstract!Spec

=============================================================================
