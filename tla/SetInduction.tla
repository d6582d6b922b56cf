---------------------------- MODULE SetInduction ----------------------------
(***************************************************************************)
(* Finite sets, as the proofs of several modules need them: induction      *)
(* stated with sets, which the provers can instantiate, and what follows.  *)
(***************************************************************************)
EXTENDS Integers, FiniteSetsExt, TLAPS, FiniteSetTheorems, WellFoundedInduction

-----------------------------------------------------------------------------
(* Induction: a set of good subsets is all of them.                        *)

\* Strict inclusion of the subsets of a finite set is well-founded.
LEMMA SubsetOrder ==
    ASSUME NEW S, IsFiniteSet(S)
    PROVE  IsWellFoundedOn(StrictSubsetOrdering(S), SUBSET S)
  <1>1. FiniteSubsetsOf(S) = SUBSET S
    BY FS_FiniteSubsetsOfFinite
  <1>2. IsWellFoundedOn(StrictSubsetOrdering(S), FiniteSubsetsOf(S))
    BY FS_StrictSubsetOrderingWellFounded
  <1> QED
    BY <1>1, <1>2

\* If a set of subsets of S holds every set all of whose smaller subsets it holds,
\* it holds them all.
LEMMA SubsetInduction ==
    ASSUME NEW S, IsFiniteSet(S), NEW D,
           \A X \in SUBSET S : (\A Y \in SUBSET X : Y # X => Y \in D) => X \in D
    PROVE  \A X \in SUBSET S : X \in D
  <1> SUFFICES ASSUME NEW X \in SUBSET S, X \notin D PROVE FALSE
    OBVIOUS
  <1> DEFINE bad == {Y \in SUBSET S : Y \notin D}
  <1>1. IsWellFoundedOn(StrictSubsetOrdering(S), SUBSET S)
    BY SubsetOrder
  <1>2. bad \subseteq SUBSET S /\ bad # {}
    OBVIOUS
  <1>3. PICK Y \in bad : \A Z \in bad : <<Z, Y>> \notin StrictSubsetOrdering(S)
    <2> HIDE DEF bad
    <2> QED
      BY <1>1, <1>2, WFMin
  <1>4. ASSUME NEW Z \in SUBSET Y, Z # Y PROVE Z \in D
    <2>1. Z \in SUBSET S
      BY <1>3
    <2>2. <<Z, Y>> \in StrictSubsetOrdering(S)
      BY <1>3, <1>4, <2>1 DEF StrictSubsetOrdering
    <2> QED
      BY <1>3, <2>1, <2>2
  <1> QED
    BY <1>3, <1>4

\* If a set of subsets of S holds the empty set, and with every set but S one that has an
\* element more, it holds S.
LEMMA Exhaustion ==
    ASSUME NEW S, IsFiniteSet(S), NEW D, {} \in D,
           \A X \in SUBSET S : X \in D /\ X # S => \E x \in S \ X : X \cup {x} \in D
    PROVE  S \in D
  <1> DEFINE rest == {Y \in SUBSET S : S \ Y \in D}
  <1>1. IsWellFoundedOn(StrictSubsetOrdering(S), SUBSET S)
    BY SubsetOrder
  <1>2. rest \subseteq SUBSET S /\ rest # {}
    <2>1. S \ S = {}
      OBVIOUS
    <2>2. S \in rest
      BY <2>1
    <2> QED
      BY <2>2
  <1>3. PICK Y \in rest : \A Z \in rest : <<Z, Y>> \notin StrictSubsetOrdering(S)
    <2> HIDE DEF rest
    <2> QED
      BY <1>1, <1>2, WFMin
  <1>4. ASSUME Y # {} PROVE FALSE
    <2>1. S \ Y \in SUBSET S /\ S \ Y \in D /\ S \ Y # S
      BY <1>3, <1>4
    <2>2. PICK x \in S \ (S \ Y) : (S \ Y) \cup {x} \in D
      BY <2>1
    <2>3. S \ (Y \ {x}) = (S \ Y) \cup {x}
      BY <1>3, <2>2
    <2>4. Y \ {x} \in rest
      BY <1>3, <2>2, <2>3
    <2>5. <<Y \ {x}, Y>> \in StrictSubsetOrdering(S)
      BY <1>3, <2>2 DEF StrictSubsetOrdering
    <2> QED
      BY <1>3, <2>4, <2>5
  <1>5. S \ Y = S
    BY <1>4
  <1> QED
    BY <1>3, <1>5

-----------------------------------------------------------------------------
(* Least and greatest elements, images.                                    *)

\* A set that is not empty has an element that is least in an order of a finite set.
LEMMA MinimalElement ==
    ASSUME NEW S, IsFiniteSet(S), NEW R,
           \A x \in S : <<x, x>> \notin R,
           \A x, y, z \in S : <<x, y>> \in R /\ <<y, z>> \in R => <<x, z>> \in R,
           NEW X \in SUBSET S, X # {}
    PROVE  \E x \in X : \A y \in X : <<y, x>> \notin R
  <1> DEFINE D == {Z \in SUBSET S : Z # {} => \E x \in Z : \A y \in Z : <<y, x>> \notin R}
  <1>1. ASSUME NEW Z \in SUBSET S, \A Y \in SUBSET Z : Y # Z => Y \in D
        PROVE  Z \in D
    <2> SUFFICES ASSUME NEW z \in Z PROVE \E x \in Z : \A y \in Z : <<y, x>> \notin R
      OBVIOUS
    <2> DEFINE below == {y \in Z : <<y, z>> \in R}
    <2>1. z \notin below /\ below \in SUBSET Z
      OBVIOUS
    <2>2. CASE below = {}
      BY <2>2
    <2>3. CASE below # {}
      <3>1. PICK x \in below : \A y \in below : <<y, x>> \notin R
        BY <1>1, <2>1, <2>3
      <3>2. ASSUME NEW y \in Z, <<y, x>> \in R PROVE FALSE
        <4>1. <<y, z>> \in R
          BY <3>1, <3>2
        <4> QED
          BY <3>1, <3>2, <4>1
      <3> QED
        BY <3>1, <3>2
    <2> QED
      BY <2>2, <2>3
  <1>2. X \in D
    <2> HIDE DEF D
    <2> QED
      BY <1>1, SubsetInduction
  <1> QED
    BY <1>2

\* A set of naturals that is not empty has a least element.
LEMMA LeastNat ==
    ASSUME NEW S \in SUBSET Nat, S # {}
    PROVE  \E x \in S : \A y \in S : x <= y
  <1>1. IsWellFoundedOn(OpToRel(<, Nat), Nat)
    BY NatLessThanWellFounded
  <1>2. PICK x \in S : \A y \in S : <<y, x>> \notin OpToRel(<, Nat)
    BY <1>1, WFMin
  <1>3. \A y \in S : ~(y < x)
    BY <1>2 DEF OpToRel
  <1> QED
    BY <1>3

\* The greatest element of a bounded set of naturals.
LEMMA MaxOf ==
    ASSUME NEW b \in Nat, NEW S, S \subseteq 0 .. b, S # {}
    PROVE  Max(S) \in S /\ \A j \in S : j <= Max(S)
  <1> DEFINE T == {b - k : k \in S}
             R == OpToRel(<, Nat)
  <1>1. T \subseteq Nat /\ T # {}
    <2>1. \A k \in S : b - k \in Nat
      OBVIOUS
    <2>2. PICK k \in S : TRUE
      OBVIOUS
    <2>3. b - k \in T
      OBVIOUS
    <2> QED
      BY <2>1, <2>3
  <1>2. PICK x \in T : \A y \in T : <<y, x>> \notin R
    <2>1. IsWellFoundedOn(R, Nat)
      BY NatLessThanWellFounded
    <2> HIDE DEF R, T
    <2> QED
      BY <1>1, <2>1, WFMin
  <1>3. \A y \in T : ~(y < x)
    BY <1>1, <1>2 DEF OpToRel
  <1>4. PICK k \in S : x = b - k
    OBVIOUS
  <1>5. \A j \in S : ~(b - j < b - k)
    BY <1>3, <1>4
  <1>6. ASSUME NEW j \in S
        PROVE  k >= j
    <2>1. j \in 0 .. b /\ k \in 0 .. b
      OBVIOUS
    <2>2. ~(b - j < b - k)
      BY <1>5
    <2> HIDE DEF T, R
    <2> QED
      BY <2>1, <2>2
  <1> QED
    BY <1>6 DEF Max

\* A finite set of naturals has a bound, and if it is not empty a greatest element.
LEMMA FiniteMax ==
    ASSUME NEW S \in SUBSET Nat, IsFiniteSet(S)
    PROVE  /\ \E b \in Nat : S \subseteq 0 .. b
           /\ S # {} => Max(S) \in S /\ \A j \in S : j <= Max(S)
  <1> DEFINE D == {X \in SUBSET S : \E b \in Nat : X \subseteq 0 .. b}
  <1>1. {} \in D
    <2>1. {} \in SUBSET S /\ {} \subseteq 0 .. 0
      OBVIOUS
    <2> QED
      BY <2>1
  <1>2. ASSUME NEW X \in SUBSET S, X \in D, X # S
        PROVE  \E x \in S \ X : X \cup {x} \in D
    <2>1. PICK b \in Nat : X \subseteq 0 .. b
      BY <1>2
    <2>2. PICK x \in S \ X : TRUE
      BY <1>2
    <2>3. x \in Nat
      OBVIOUS
    <2>4. b + x \in Nat /\ X \cup {x} \subseteq 0 .. (b + x)
      BY <2>1, <2>3
    <2> QED
      BY <2>2, <2>4
  <1>3. S \in D
    <2> HIDE DEF D
    <2> QED
      BY <1>1, <1>2, Exhaustion
  <1>4. PICK b \in Nat : S \subseteq 0 .. b
    BY <1>3
  <1> QED
    BY <1>4, MaxOf

\* The image of a finite set is finite.
LEMMA ImageFinite ==
    ASSUME NEW S, IsFiniteSet(S), NEW f
    PROVE  IsFiniteSet({f[x] : x \in S})
  <1> DEFINE D == {X \in SUBSET S : IsFiniteSet({f[x] : x \in X})}
  <1>1. {} \in D
    <2>1. {f[x] : x \in {}} = {}
      OBVIOUS
    <2> QED
      BY <2>1, FS_EmptySet
  <1>2. ASSUME NEW X \in SUBSET S, X \in D, X # S
        PROVE  \E x \in S \ X : X \cup {x} \in D
    <2>1. PICK y \in S \ X : TRUE
      BY <1>2
    <2>2. {f[x] : x \in X \cup {y}} = {f[x] : x \in X} \cup {f[y]}
      OBVIOUS
    <2>3. IsFiniteSet({f[x] : x \in X} \cup {f[y]})
      BY <1>2, FS_AddElement
    <2> QED
      BY <2>1, <2>2, <2>3
  <1>3. S \in D
    <2> HIDE DEF D
    <2> QED
      BY <1>1, <1>2, Exhaustion
  <1> QED
    BY <1>3

-----------------------------------------------------------------------------
(* Folds.                                                                  *)

\* The element that FoldSet takes first, and the fold of s as step makes it from the fold
\* of the rest.
Picked(s) == CHOOSE k \in s : TRUE

FoldFrom(f, s, base, step) ==
    IF s = {} THEN base ELSE step[<<Picked(s), f[s \ {Picked(s)}]>>]

\* Every subset of a finite set has a fold.
LEMMA FoldExists ==
    ASSUME NEW S, IsFiniteSet(S), NEW A, NEW base \in A, NEW step \in [S \X A -> A]
    PROVE  \E f \in [SUBSET S -> A] : \A s \in SUBSET S : f[s] = FoldFrom(f, s, base, step)
  <1> DEFINE all == SUBSET S
             D == {X \in SUBSET all :
                     /\ \A s \in X : s # {} => s \ {Picked(s)} \in X
                     /\ \E f \in [X -> A] : \A s \in X : f[s] = FoldFrom(f, s, base, step)}
  <1>1. IsFiniteSet(all)
    BY FS_SUBSET
  <1>2. {} \in D
    <2>1. [s \in {} |-> base] \in [{} -> A]
      OBVIOUS
    <2> QED
      BY <2>1
  <1>3. ASSUME NEW X \in SUBSET all, X \in D, X # all
        PROVE  \E x \in all \ X : X \cup {x} \in D
    <2>1. PICK s \in all \ X : \A r \in all \ X : <<r, s>> \notin StrictSubsetOrdering(S)
      <3>1. all \ X \subseteq SUBSET S /\ all \ X # {}
        BY <1>3
      <3>2. IsWellFoundedOn(StrictSubsetOrdering(S), SUBSET S)
        BY SubsetOrder
      <3> HIDE DEF all
      <3> QED
        BY <3>1, <3>2, WFMin
    <2>2. s # {} => s \ {Picked(s)} \in X /\ Picked(s) \in S
      <3> SUFFICES ASSUME s # {} PROVE s \ {Picked(s)} \in X /\ Picked(s) \in S
        OBVIOUS
      <3>1. Picked(s) \in s
        BY DEF Picked
      <3>2. s \ {Picked(s)} \subseteq s /\ s \ {Picked(s)} # s
        BY <3>1
      <3>3. <<s \ {Picked(s)}, s>> \in StrictSubsetOrdering(S)
        BY <2>1, <3>2 DEF StrictSubsetOrdering
      <3> QED
        BY <2>1, <3>1, <3>3
    <2>3. PICK f \in [X -> A] : \A r \in X : f[r] = FoldFrom(f, r, base, step)
      BY <1>3
    <2> DEFINE g == [r \in X \cup {s} |->
                       IF r = s THEN FoldFrom(f, s, base, step) ELSE f[r]]
    <2>4. \A r \in X \cup {s} : r # {} => r \ {Picked(r)} \in X
      BY <1>3, <2>2
    <2>5. ASSUME NEW r \in X \cup {s}
          PROVE  FoldFrom(g, r, base, step) = FoldFrom(f, r, base, step)
      <3>1. r # {} => g[r \ {Picked(r)}] = f[r \ {Picked(r)}]
        BY <2>1, <2>4
      <3> QED
        BY <3>1 DEF FoldFrom
    <2>6. FoldFrom(f, s, base, step) \in A
      BY <2>2, <2>3 DEF FoldFrom
    <2>7. g \in [X \cup {s} -> A]
      BY <2>3, <2>6
    <2>8. \A r \in X \cup {s} : g[r] = FoldFrom(g, r, base, step)
      BY <2>1, <2>3, <2>5
    <2>9. X \cup {s} \in D
      <3> HIDE DEF g
      <3> QED
        BY <2>4, <2>7, <2>8
    <2> QED
      BY <2>9
  <1>4. all \in D
    <2> HIDE DEF D, all
    <2> QED
      BY <1>1, <1>2, <1>3, Exhaustion
  <1> QED
    BY <1>4

=============================================================================
