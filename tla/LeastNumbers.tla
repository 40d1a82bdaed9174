---------------------------- MODULE LeastNumbers ----------------------------
(* Least and greatest numbers, for Min and Max of the community modules.   *)
EXTENDS Integers, FiniteSetsExt, FiniteSetTheorems, TLAPS

(* A set of numbers has a least one.  Without one, the numbers below it     *)
(* would, with -1, fit into themselves one place up.                       *)
LEMMA HasLeast ==
  ASSUME NEW T \in SUBSET Nat, T # {}
  PROVE  \E x \in T : \A y \in T : x <= y
  <1> SUFFICES ASSUME \A x \in T : \E y \in T : y < x PROVE FALSE
    OBVIOUS
  <1>1. PICK x \in T : TRUE
    OBVIOUS
  <1> DEFINE U == {n \in 0 .. x : \A y \in T : n < y}
             V == U \cup {-1}
             f == [n \in V |-> n + 1]
  <1>2. IsFiniteSet(U)
    <2>1. IsFiniteSet(0 .. x)
      BY FS_Interval
    <2>2. U \in SUBSET (0 .. x)
      OBVIOUS
    <2> QED
      BY <2>1, <2>2, FS_Subset
  <1>3. IsFiniteSet(V) /\ Cardinality(V) = Cardinality(U) + 1 /\ Cardinality(U) \in Nat
    <2>1. -1 \notin U
      OBVIOUS
    <2> HIDE DEF U
    <2> QED
      BY <1>2, <2>1, FS_AddElement, FS_CardinalityType
  <1>4. f \in [V -> U]
    <2> SUFFICES ASSUME NEW n \in V PROVE n + 1 \in U
      OBVIOUS
    <2>1. n \in Int /\ n + 1 \in Nat /\ \A y \in T : n < y
      OBVIOUS
    <2>2. \A y \in T : n + 1 < y
      <3> SUFFICES ASSUME NEW y \in T, ~ n + 1 < y PROVE FALSE
        OBVIOUS
      <3>1. PICK z \in T : z < y
        OBVIOUS
      <3> QED
        BY <2>1, <3>1
    <2> QED
      BY <1>1, <2>1, <2>2
  <1>5. \E n, m \in V : n # m /\ f[n] = f[m]
    <2> HIDE DEF V, f, U
    <2> QED
      BY <1>2, <1>3, <1>4, FS_PigeonHole
  <1>6. V \subseteq Int
    OBVIOUS
  <1> QED
    BY <1>5, <1>6

LEMMA MinIsLeast ==
  ASSUME NEW T \in SUBSET Nat, T # {}
  PROVE  Min(T) \in T /\ \A y \in T : Min(T) <= y
  BY HasLeast DEF Min

(* One that is bounded has a greatest one. *)
LEMMA MaxIsGreatest ==
  ASSUME NEW T \in SUBSET Nat, T # {}, NEW k \in Nat, \A y \in T : y <= k
  PROVE  Max(T) \in T /\ \A y \in T : Max(T) >= y
  <1> DEFINE D == {k - y : y \in T}
  <1>1. D \in SUBSET Nat
    <2> SUFFICES ASSUME NEW y \in T PROVE k - y \in Nat
      OBVIOUS
    <2> QED
      BY y \in Nat /\ y <= k
  <1>2. PICK d \in D : \A e \in D : d <= e
    <2>1. D # {}
      OBVIOUS
    <2> HIDE DEF D
    <2> QED
      BY <1>1, <2>1, HasLeast
  <1>3. PICK x \in T : d = k - x
    BY <1>2
  <1>4. \A y \in T : x >= y
    <2> SUFFICES ASSUME NEW y \in T PROVE x >= y
      OBVIOUS
    <2>1. d <= k - y
      BY <1>2
    <2> QED
      BY <2>1, <1>3
  <1> QED
    BY <1>4 DEF Max
=============================================================================
