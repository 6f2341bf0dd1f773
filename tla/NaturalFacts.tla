---------------------------- MODULE NaturalFacts ----------------------------
(***************************************************************************)
(* What the proofs use of the naturals beyond arithmetic: a least element, *)
(* for the lowest free descriptor and for induction by least               *)
(* counterexample, and the iteration of a function, for walking a list.    *)
(***************************************************************************)
EXTENDS Naturals, WellFoundedInduction, TLAPS

(* Every nonempty set of naturals has a least element. *)
THEOREM LeastNatural ==
  ASSUME NEW S \in SUBSET Nat, S # {}
  PROVE  \E x \in S : \A y \in S : x <= y
<1> DEFINE Less == {p \in Nat \X Nat : p[1] < p[2]}
<1>1. IsWellFoundedOn(Less, Nat)
  BY NatLessThanWellFounded, Zenon DEF OpToRel
<1>2. \A y, z \in Nat : y < z => <<y, z>> \in Less
  OBVIOUS
<1> HIDE DEF Less
<1>3. PICK x \in S : \A y \in S : <<y, x>> \notin Less
  BY <1>1, WFMin
<1>4. \A y \in S : x <= y
  <2> SUFFICES ASSUME NEW y \in S PROVE x <= y
    OBVIOUS
  <2>1. x \in Nat /\ y \in Nat
    OBVIOUS
  <2>2. ~(y < x)
    BY <2>1, <1>2, <1>3
  <2> QED
    BY <2>1, <2>2
<1> QED
  BY <1>4

(* Induction, for a property given by the set of naturals that have it: a  *)
(* least one without it would not be zero, and its predecessor would have  *)
(* it.                                                                     *)
THEOREM Induction ==
  ASSUME NEW S \in SUBSET Nat, 0 \in S, \A n \in S : n + 1 \in S
  PROVE  \A n \in Nat : n \in S
<1> DEFINE T == Nat \ S
<1> SUFFICES ASSUME T # {} PROVE FALSE
  OBVIOUS
<1>1. PICK k \in T : \A j \in T : k <= j
  <2>1. T \in SUBSET Nat
    OBVIOUS
  <2> HIDE DEF T
  <2> QED
    BY <2>1, LeastNatural
<1>2. k \in Nat /\ k \notin S /\ k # 0
  BY <1>1
<1>3. k - 1 \in Nat /\ k - 1 \notin T /\ (k - 1) + 1 = k
  BY <1>1, <1>2
<1> QED
  BY <1>2, <1>3

(* The first n values of iterating step from x. *)
Iterates(P, step, x, n, g) ==
  /\ g \in [0 .. n -> P]
  /\ g[0] = x
  /\ \A i \in 1 .. n : g[i] = step[g[i - 1]]

(* They exist for every n: a least n without them would have its first     *)
(* n - 1 and could be given one more.                                      *)
LEMMA IteratesExist ==
  ASSUME NEW P, NEW step \in [P -> P], NEW x \in P, NEW n \in Nat
  PROVE  \E g : Iterates(P, step, x, n, g)
<1> DEFINE S == {m \in Nat : ~\E g : Iterates(P, step, x, m, g)}
<1> SUFFICES ASSUME S # {} PROVE FALSE
  OBVIOUS
<1>1. PICK m \in S : \A k \in S : m <= k
  <2>1. S \in SUBSET Nat
    OBVIOUS
  <2> HIDE DEF S
  <2> QED
    BY <2>1, LeastNatural
<1>2. CASE m = 0
  <2>1. Iterates(P, step, x, 0, [i \in 0 .. 0 |-> x])
    BY DEF Iterates
  <2> QED
    BY <1>2, <2>1
<1>3. CASE m # 0
  <2>1. m \in Nat /\ m - 1 \in Nat /\ m - 1 \notin S
    BY <1>1, <1>3
  <2>2. PICK g : Iterates(P, step, x, m - 1, g)
    BY <2>1
  <2> DEFINE h == [i \in 0 .. m |-> IF i = m THEN step[g[m - 1]] ELSE g[i]]
  <2>3. g[m - 1] \in P
    BY <2>1, <2>2 DEF Iterates
  <2>4. h \in [0 .. m -> P]
    BY <2>1, <2>2, <2>3 DEF Iterates
  <2>5. h[0] = x
    BY <1>3, <2>1, <2>2 DEF Iterates
  <2>6. ASSUME NEW i \in 1 .. m PROVE h[i] = step[h[i - 1]]
    <3>1. CASE i = m
      BY <2>1, <3>1
    <3>2. CASE i # m
      BY <2>1, <2>2, <3>2 DEF Iterates
    <3> QED
      BY <3>1, <3>2
  <2>7. Iterates(P, step, x, m, h)
    BY <2>4, <2>5, <2>6 DEF Iterates
  <2> QED
    BY <2>7
<1> QED
  BY <1>2, <1>3

(* Two of them agree as far as both go. *)
LEMMA IteratesAgree ==
  ASSUME NEW P, NEW step \in [P -> P], NEW x \in P, NEW n \in Nat, NEW m \in Nat,
         NEW g, Iterates(P, step, x, n, g), NEW h, Iterates(P, step, x, m, h),
         NEW k \in Nat, k <= n, k <= m
  PROVE  g[k] = h[k]
<1> DEFINE S == {i \in Nat : i <= n /\ i <= m /\ g[i] # h[i]}
<1> SUFFICES ASSUME S # {} PROVE FALSE
  OBVIOUS
<1>1. PICK i \in S : \A j \in S : i <= j
  <2>1. S \in SUBSET Nat
    OBVIOUS
  <2> HIDE DEF S
  <2> QED
    BY <2>1, LeastNatural
<1>2. i \in Nat /\ i <= n /\ i <= m /\ g[i] # h[i]
  BY <1>1
<1>3. i # 0
  BY <1>2 DEF Iterates
<1>4. i - 1 \in Nat /\ i - 1 \notin S
  BY <1>1, <1>2, <1>3
<1>5. g[i - 1] = h[i - 1]
  BY <1>2, <1>4
<1>6. i \in 1 .. n /\ i \in 1 .. m
  BY <1>2, <1>3
<1> QED
  BY <1>2, <1>5, <1>6 DEF Iterates

(* A function may be iterated for ever. *)
IsIteration(P, step, x, f) ==
  /\ f \in [Nat -> P]
  /\ f[0] = x
  /\ \A i \in Nat : f[i + 1] = step[f[i]]

THEOREM Iteration ==
  ASSUME NEW P, NEW step \in [P -> P], NEW x \in P
  PROVE  \E f : IsIteration(P, step, x, f)
<1> DEFINE G(n) == CHOOSE g : Iterates(P, step, x, n, g)
           f == [n \in Nat |-> G(n)[n]]
<1>1. ASSUME NEW n \in Nat PROVE Iterates(P, step, x, n, G(n))
  BY IteratesExist
<1> HIDE DEF G
<1>2. f \in [Nat -> P]
  <2>1. ASSUME NEW n \in Nat PROVE G(n)[n] \in P
    BY <1>1 DEF Iterates
  <2> QED
    BY <2>1
<1>3. f[0] = x
  BY <1>1 DEF Iterates
<1>4. ASSUME NEW i \in Nat PROVE f[i + 1] = step[f[i]]
  <2>1. i + 1 \in Nat /\ i + 1 \in 1 .. i + 1 /\ i <= i + 1 /\ i <= i /\ (i + 1) - 1 = i
    OBVIOUS
  <2>2. Iterates(P, step, x, i + 1, G(i + 1)) /\ Iterates(P, step, x, i, G(i))
    BY <1>1, <2>1
  <2>3. G(i + 1)[i] = G(i)[i]
    BY <2>1, <2>2, IteratesAgree
  <2>4. G(i + 1)[i + 1] = step[G(i + 1)[i]]
    BY <2>1, <2>2 DEF Iterates
  <2> QED
    BY <2>1, <2>3, <2>4
<1> HIDE DEF f
<1>5. IsIteration(P, step, x, f)
  BY <1>2, <1>3, <1>4 DEF IsIteration
<1> QED
  BY <1>5

=============================================================================
