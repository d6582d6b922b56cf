------------------------- MODULE NodeManagerProofs -------------------------
(***************************************************************************)
(* Theorems about NodeManager, for every description of a graph.           *)
(***************************************************************************)
EXTENDS NodeManager, SetInduction, SequenceTheorems

-----------------------------------------------------------------------------
(* UnionFind.                                                              *)

\* The forests of a set of nodes: in every part of it some node is a root, or hangs on a
\* node outside.
Forests(nodes) ==
    {F \in [nodes -> nodes] :
       \A S \in SUBSET nodes : S # {} => \E n \in S : F[n] = n \/ F[n] \notin S}

\* Going up from every node of a forest ends.
LEMMA RootsExist ==
    ASSUME NEW nodes, IsFiniteSet(nodes), NEW F \in Forests(nodes)
    PROVE  \E root \in [nodes -> nodes] :
             \A n \in nodes : root[n] = IF F[n] = n THEN n ELSE root[F[n]]
  <1> DEFINE D == {X \in SUBSET nodes :
                     /\ \A n \in X : F[n] \in X
                     /\ \E root \in [X -> nodes] :
                          \A n \in X : root[n] = IF F[n] = n THEN n ELSE root[F[n]]}
  <1>0. F \in [nodes -> nodes]
    BY DEF Forests
  <1>1. {} \in D
    <2>1. [n \in {} |-> n] \in [{} -> nodes]
      OBVIOUS
    <2> QED
      BY <2>1
  <1>2. ASSUME NEW X \in SUBSET nodes, X \in D, X # nodes
        PROVE  \E x \in nodes \ X : X \cup {x} \in D
    <2>1. PICK n \in nodes \ X : F[n] = n \/ F[n] \in X
      <3>1. nodes \ X \in SUBSET nodes /\ nodes \ X # {}
        BY <1>2
      <3>2. PICK n \in nodes \ X : F[n] = n \/ F[n] \notin nodes \ X
        BY <3>1 DEF Forests
      <3> QED
        BY <1>0, <3>2
    <2>2. PICK root \in [X -> nodes] :
            \A m \in X : root[m] = IF F[m] = m THEN m ELSE root[F[m]]
      BY <1>2
    <2> DEFINE g == [m \in X \cup {n} |-> IF m # n THEN root[m]
                                          ELSE IF F[n] = n THEN n ELSE root[F[n]]]
    <2>3. g \in [X \cup {n} -> nodes]
      BY <2>1
    <2>4. \A m \in X \cup {n} : F[m] \in X \cup {n}
      BY <1>2, <2>1
    <2>5. ASSUME NEW m \in X PROVE g[m] = IF F[m] = m THEN m ELSE g[F[m]]
      <3>1. m # n /\ F[m] \in X /\ F[m] # n
        BY <1>2, <2>1
      <3>2. g[m] = root[m] /\ g[F[m]] = root[F[m]]
        BY <3>1
      <3> HIDE DEF g
      <3> QED
        BY <2>2, <3>2
    <2>6. g[n] = IF F[n] = n THEN n ELSE g[F[n]]
      <3>1. F[n] # n => F[n] \in X
        BY <2>1
      <3> QED
        BY <3>1
    <2>7. \A m \in X \cup {n} : g[m] = IF F[m] = m THEN m ELSE g[F[m]]
      <3> HIDE DEF g
      <3> QED
        BY <2>5, <2>6
    <2>8. X \cup {n} \in D
      <3> HIDE DEF g
      <3> QED
        BY <2>3, <2>4, <2>7
    <2> QED
      BY <2>1, <2>8
  <1>3. nodes \in D
    <2> HIDE DEF D
    <2> QED
      BY <1>1, <1>2, Exhaustion
  <1> QED
    BY <1>3

\* get_parent goes up.
LEMMA GoesUp ==
    ASSUME NEW nodes, IsFiniteSet(nodes), NEW F \in Forests(nodes)
    PROVE  \A n \in nodes : get_parent(F, n) = IF F[n] = n THEN n ELSE get_parent(F, F[n])
  <1> DEFINE body(h) == [m \in DOMAIN F |-> IF F[m] = m THEN m ELSE h[F[m]]]
             iter == CHOOSE h : h = body(h)
  <1>0. F \in [nodes -> nodes]
    BY DEF Forests
  <1>1. iter = body(iter)
    <2>1. PICK root \in [nodes -> nodes] :
            \A n \in nodes : root[n] = IF F[n] = n THEN n ELSE root[F[n]]
      BY RootsExist
    <2>2. root = body(root)
      BY <1>0, <2>1
    <2> HIDE DEF body
    <2> QED
      BY <2>2
  <1>2. \A n : get_parent(F, n) = iter[n]
    BY DEF get_parent
  <1>3. \A n \in nodes : body(iter)[n] = IF F[n] = n THEN n ELSE iter[F[n]]
    BY <1>0
  <1> HIDE DEF iter, body
  <1>4. \A n \in nodes : iter[n] = IF F[n] = n THEN n ELSE iter[F[n]]
    BY <1>1, <1>3
  <1> QED
    BY <1>2, <1>4

\* What holds of the roots, and of a node when it holds of what the node hangs on, holds of
\* all nodes.
LEMMA UpTheForest ==
    ASSUME NEW nodes, NEW F \in Forests(nodes), NEW Good,
           \A n \in nodes : F[n] = n => n \in Good,
           \A n \in nodes : F[n] # n /\ F[n] \in Good => n \in Good
    PROVE  nodes \subseteq Good
  <1> SUFFICES ASSUME NEW k \in nodes, k \notin Good PROVE FALSE
    OBVIOUS
  <1> DEFINE bad == {n \in nodes : n \notin Good}
  <1>1. PICK n \in bad : F[n] = n \/ F[n] \notin bad
    <2>1. bad \in SUBSET nodes /\ bad # {}
      OBVIOUS
    <2> HIDE DEF bad
    <2> QED
      BY <2>1 DEF Forests
  <1>2. F[n] \in nodes
    BY <1>1 DEF Forests
  <1> QED
    BY <1>1, <1>2

\* get_parent ends at a root.
LEMMA RootFacts ==
    ASSUME NEW nodes, IsFiniteSet(nodes), NEW F \in Forests(nodes)
    PROVE  \A n \in nodes : get_parent(F, n) \in nodes /\ F[get_parent(F, n)] = get_parent(F, n)
  <1> DEFINE Good == {n \in nodes : /\ get_parent(F, n) \in nodes
                                    /\ F[get_parent(F, n)] = get_parent(F, n)}
  <1>1. \A n \in nodes : F[n] \in nodes
    BY DEF Forests
  <1>2. \A n \in nodes : F[n] = n => n \in Good
    BY GoesUp
  <1>3. \A n \in nodes : F[n] # n /\ F[n] \in Good => n \in Good
    BY <1>1, GoesUp
  <1>4. nodes \subseteq Good
    <2> HIDE DEF Good
    <2> QED
      BY <1>2, <1>3, UpTheForest
  <1> QED
    BY <1>4

\* merge gives the tree of p the root of the tree of q, and leaves the others.
LEMMA MergeJoins ==
    ASSUME NEW nodes, IsFiniteSet(nodes), NEW F \in Forests(nodes), NEW p \in nodes, NEW q \in nodes
    PROVE  /\ merge(F, p, q) \in Forests(nodes)
           /\ \A n \in nodes : get_parent(merge(F, p, q), n) =
                IF get_parent(F, n) = get_parent(F, p) THEN get_parent(F, q) ELSE get_parent(F, n)
  <1> DEFINE P == get_parent(F, p)
             Q == get_parent(F, q)
             G == [F EXCEPT ![P] = Q]
  <1>0. F \in [nodes -> nodes]
    BY DEF Forests
  <1>1. /\ P \in nodes /\ F[P] = P
        /\ Q \in nodes /\ F[Q] = Q
    BY RootFacts
  <1>2. merge(F, p, q) = G
    BY DEF merge
  <1> HIDE DEF P, Q
  <1>3. G \in [nodes -> nodes] /\ G[P] = Q /\ \A n \in nodes : n # P => G[n] = F[n]
    BY <1>0, <1>1
  <1> HIDE DEF G
  <1>4. G \in Forests(nodes)
    <2> SUFFICES ASSUME NEW S \in SUBSET nodes, S # {}
                 PROVE  \E n \in S : G[n] = n \/ G[n] \notin S
      BY <1>3 DEF Forests
    <2>1. PICK n \in S : F[n] = n \/ F[n] \notin S
      BY DEF Forests
    <2>2. CASE n # P
      BY <1>3, <2>1, <2>2
    <2>3. CASE n = P
      <3>1. G[Q] = Q
        BY <1>1, <1>3
      <3> QED
        BY <1>3, <2>1, <2>3, <3>1
    <2> QED
      BY <2>2, <2>3
  <1> DEFINE Good == {n \in nodes :
                        get_parent(G, n) = IF get_parent(F, n) = P THEN Q ELSE get_parent(F, n)}
  <1>5. get_parent(G, P) = Q
    <2>1. G[Q] = Q
      BY <1>1, <1>3
    <2>2. get_parent(G, Q) = Q
      BY <1>1, <1>4, <2>1, GoesUp
    <2> QED
      BY <1>1, <1>3, <1>4, <2>2, GoesUp
  <1>6. \A n \in nodes : F[n] = n => n \in Good
    <2> SUFFICES ASSUME NEW n \in nodes, F[n] = n PROVE n \in Good
      OBVIOUS
    <2>1. get_parent(F, n) = n
      BY GoesUp
    <2>2. n # P => get_parent(G, n) = n
      BY <1>3, <1>4, GoesUp
    <2> QED
      BY <1>5, <2>1, <2>2
  <1>7. \A n \in nodes : F[n] # n /\ F[n] \in Good => n \in Good
    <2> SUFFICES ASSUME NEW n \in nodes, F[n] # n, F[n] \in Good PROVE n \in Good
      OBVIOUS
    <2>1. get_parent(F, n) = get_parent(F, F[n])
      BY GoesUp
    <2>2. n # P /\ G[n] = F[n]
      BY <1>1, <1>3
    <2>3. get_parent(G, n) = get_parent(G, F[n])
      BY <1>4, <2>2, GoesUp
    <2> QED
      BY <2>1, <2>3
  <1>8. nodes \subseteq Good
    <2> HIDE DEF Good
    <2> QED
      BY <1>6, <1>7, UpTheForest
  <1> QED
    BY <1>2, <1>4, <1>8 DEF P, Q

\* A set of nodes is closed under links if no link leads in or out.
Closed(S, links) == \A e \in links : e[1] \in S <=> e[2] \in S

\* What links join has one root, and nothing else has.
Joins(F, nodes, links) ==
    /\ \A e \in links : get_parent(F, e[1]) = get_parent(F, e[2])
    /\ \A a, b \in nodes : get_parent(F, a) = get_parent(F, b) =>
         \A S \in SUBSET nodes : a \in S /\ Closed(S, links) => b \in S

\* A link that is merged is joined as well.
LEMMA MergeOneMore ==
    ASSUME NEW nodes, IsFiniteSet(nodes), NEW F \in Forests(nodes), NEW links, NEW e,
           links \subseteq nodes \X nodes, e \in nodes \X nodes, Joins(F, nodes, links)
    PROVE  Joins(merge(F, e[1], e[2]), nodes, links \cup {e})
  <1> DEFINE p == e[1]
             q == e[2]
             G == merge(F, p, q)
  <1>1. p \in nodes /\ q \in nodes
    OBVIOUS
  <1>2. \A n \in nodes : get_parent(G, n) =
          IF get_parent(F, n) = get_parent(F, p) THEN get_parent(F, q) ELSE get_parent(F, n)
    BY <1>1, MergeJoins
  <1> HIDE DEF G
  <1>3. \A l \in links \cup {e} : get_parent(G, l[1]) = get_parent(G, l[2])
    <2>1. get_parent(G, p) = get_parent(G, q)
      BY <1>1, <1>2
    <2>2. ASSUME NEW l \in links PROVE get_parent(G, l[1]) = get_parent(G, l[2])
      <3>1. l[1] \in nodes /\ l[2] \in nodes
        OBVIOUS
      <3>2. get_parent(F, l[1]) = get_parent(F, l[2])
        BY DEF Joins
      <3> QED
        BY <1>2, <3>1, <3>2
    <2> QED
      BY <2>1, <2>2
  <1>4. ASSUME NEW a \in nodes, NEW b \in nodes, get_parent(G, a) = get_parent(G, b),
               NEW S \in SUBSET nodes, a \in S, Closed(S, links \cup {e})
        PROVE  b \in S
    <2>1. Closed(S, links) /\ (p \in S <=> q \in S)
      BY <1>4 DEF Closed
    <2>2. \A m, n \in nodes : get_parent(F, m) = get_parent(F, n) /\ m \in S => n \in S
      BY <2>1 DEF Joins
    <2>3. CASE get_parent(F, a) = get_parent(F, b)
      BY <1>4, <2>2, <2>3
    <2>4. CASE get_parent(F, a) = get_parent(F, p) /\ get_parent(F, b) = get_parent(F, q)
      BY <1>1, <1>4, <2>1, <2>2, <2>4
    <2>5. CASE get_parent(F, a) = get_parent(F, q) /\ get_parent(F, b) = get_parent(F, p)
      BY <1>1, <1>4, <2>1, <2>2, <2>5
    <2> QED
      BY <1>2, <1>4, <2>3, <2>4, <2>5
  <1> QED
    BY <1>3, <1>4 DEF Joins, G

\* The forest after the associates in s are merged, made of the one with one less.
MergedFrom(f, s) ==
    IF s = {} THEN [n \in Nodes |-> n]
              ELSE merge(f[s \ {Picked(s)}], Picked(s)[1], Picked(s)[2])

\* Components is a fold over the associates.
LEMMA ComponentsFold ==
    ASSUME IsFiniteSet(Nodes), IsFiniteSet(Associates), Associates \subseteq Nodes \X Nodes
    PROVE  \E f \in [SUBSET Associates -> Forests(Nodes)] :
             /\ \A s \in SUBSET Associates : f[s] = MergedFrom(f, s)
             /\ Components \in Forests(Nodes)
             /\ Components = f[Associates]
  <1> DEFINE alone == [n \in Nodes |-> n]
             step == [x \in Associates \X Forests(Nodes) |-> merge(x[2], x[1][1], x[1][2])]
             body(h) == [s \in SUBSET Associates |->
                           IF s = {} THEN alone
                           ELSE LET e == CHOOSE e \in s : TRUE
                                IN  merge(h[s \ {e}], e[1], e[2])]
             iter == CHOOSE h : h = body(h)
  <1>1. \A h : body(h) = [s \in SUBSET Associates |-> MergedFrom(h, s)]
    BY DEF MergedFrom, Picked
  <1>2. alone \in Forests(Nodes)
    BY DEF Forests
  <1>3. step \in [Associates \X Forests(Nodes) -> Forests(Nodes)]
    <2> SUFFICES ASSUME NEW x \in Associates \X Forests(Nodes)
                 PROVE  merge(x[2], x[1][1], x[1][2]) \in Forests(Nodes)
      OBVIOUS
    <2>1. x[2] \in Forests(Nodes) /\ x[1][1] \in Nodes /\ x[1][2] \in Nodes
      OBVIOUS
    <2> QED
      BY <2>1, MergeJoins
  <1>4. PICK f \in [SUBSET Associates -> Forests(Nodes)] :
          \A s \in SUBSET Associates : f[s] = FoldFrom(f, s, alone, step)
    <2>1. \A A : \A b \in A : \A g \in [Associates \X A -> A] :
            \E f \in [SUBSET Associates -> A] :
              \A s \in SUBSET Associates : f[s] = FoldFrom(f, s, b, g)
      BY FoldExists
    <2> HIDE DEF step, alone
    <2> QED
      BY <1>2, <1>3, <2>1, Zenon
  <1>5. ASSUME NEW s \in SUBSET Associates
        PROVE  f[s] = MergedFrom(f, s)
    <2>1. s # {} => Picked(s) \in Associates /\ f[s \ {Picked(s)}] \in Forests(Nodes)
      BY DEF Picked
    <2>2. s # {} => step[<<Picked(s), f[s \ {Picked(s)}]>>]
                      = merge(f[s \ {Picked(s)}], Picked(s)[1], Picked(s)[2])
      BY <2>1
    <2> HIDE DEF step
    <2> QED
      BY <1>4, <2>2 DEF FoldFrom, MergedFrom
  <1>6. f = body(f)
    BY <1>1, <1>5
  <1>7. Components = iter[Associates]
    BY DEF Components, FoldSet, MapThenFoldSet
  <1>8. iter = body(iter)
    <2> HIDE DEF body
    <2> QED
      BY <1>6
  <1> HIDE DEF iter, body
  <1>9. \A s \in SUBSET Associates : iter[s] = MergedFrom(iter, s)
    BY <1>1, <1>8
  <1> DEFINE D == {s \in SUBSET Associates : iter[s] = f[s]}
  <1>10. ASSUME NEW s \in SUBSET Associates, \A r \in SUBSET s : r # s => r \in D
         PROVE  s \in D
    <2>1. s # {} => s \ {Picked(s)} \in D
      BY <1>10 DEF Picked
    <2> QED
      BY <1>5, <1>9, <2>1 DEF MergedFrom
  <1>11. Associates \in D
    <2> HIDE DEF D
    <2> QED
      BY <1>10, SubsetInduction
  <1> QED
    BY <1>5, <1>7, <1>11

\* After the merges, two nodes have one root exactly if a chain of associates joins them.
LEMMA ComponentsCorrect ==
    ASSUME IsFiniteSet(Nodes), IsFiniteSet(Associates), Associates \subseteq Nodes \X Nodes
    PROVE  /\ Components \in Forests(Nodes)
           /\ \A a, b \in Nodes :
                get_parent(Components, a) = get_parent(Components, b) <=> Together(a, b)
  <1>1. PICK f \in [SUBSET Associates -> Forests(Nodes)] :
          /\ \A s \in SUBSET Associates : f[s] = MergedFrom(f, s)
          /\ Components \in Forests(Nodes)
          /\ Components = f[Associates]
    BY ComponentsFold
  <1> DEFINE D == {s \in SUBSET Associates : Joins(f[s], Nodes, s)}
  <1>2. ASSUME NEW s \in SUBSET Associates, \A r \in SUBSET s : r # s => r \in D
        PROVE  s \in D
    <2>1. CASE s = {}
      <3> DEFINE alone == [n \in Nodes |-> n]
      <3>1. f[s] = alone /\ alone \in Forests(Nodes)
        BY <1>1, <2>1 DEF MergedFrom
      <3>2. \A n \in Nodes : get_parent(alone, n) = n
        BY <3>1, GoesUp
      <3> QED
        BY <2>1, <3>1, <3>2 DEF Joins
    <2>2. CASE s # {}
      <3> DEFINE e == Picked(s)
                 r == s \ {e}
      <3>1. e \in s
        BY <2>2 DEF Picked
      <3>2. r \in D /\ r \in SUBSET Associates
        BY <1>2, <3>1
      <3>3. f[s] = merge(f[r], e[1], e[2])
        BY <1>1, <2>2 DEF MergedFrom
      <3>4. s = r \cup {e}
        BY <3>1
      <3>5. f[r] \in Forests(Nodes) /\ r \subseteq Nodes \X Nodes /\ e \in Nodes \X Nodes
        BY <3>1, <3>2
      <3>6. Joins(f[r], Nodes, r)
        BY <3>2
      <3> HIDE DEF e, r
      <3>7. Joins(merge(f[r], e[1], e[2]), Nodes, r \cup {e})
        BY <3>5, <3>6, MergeOneMore
      <3> QED
        BY <3>3, <3>4, <3>7
    <2> QED
      BY <2>1, <2>2
  <1>3. Associates \in D
    <2> HIDE DEF D
    <2> QED
      BY <1>2, SubsetInduction
  <1>4. Joins(Components, Nodes, Associates)
    BY <1>1, <1>3
  <1>5. ASSUME NEW a \in Nodes, NEW b \in Nodes,
               get_parent(Components, a) = get_parent(Components, b)
        PROVE  Together(a, b)
    BY <1>4, <1>5 DEF Joins, Closed, Together
  <1>6. ASSUME NEW a \in Nodes, NEW b \in Nodes, Together(a, b)
        PROVE  get_parent(Components, a) = get_parent(Components, b)
    <2> DEFINE S == {n \in Nodes : get_parent(Components, n) = get_parent(Components, a)}
    <2>1. \A e \in Associates : e[1] \in S <=> e[2] \in S
      <3>1. \A e \in Associates : e[1] \in Nodes /\ e[2] \in Nodes
        OBVIOUS
      <3> QED
        BY <1>4, <3>1 DEF Joins
    <2>2. a \in S /\ S \in SUBSET Nodes
      OBVIOUS
    <2>3. b \in S
      <3> HIDE DEF S
      <3> QED
        BY <1>6, <2>1, <2>2 DEF Together
    <2> QED
      BY <2>3
  <1> QED
    BY <1>1, <1>5, <1>6

-----------------------------------------------------------------------------
(* Orders of finite sets, and the stack of a ranking loop.                 *)

\* What an order of a finite set is: a sequence that holds every element once.
LEMMA OrderFacts ==
    ASSUME NEW S, IsFiniteSet(S), NEW order \in SetToSeqs(S)
    PROVE  order \in Seq(S) /\ Len(order) = Cardinality(S) /\ IsInjective(order) /\ ToSet(order) = S
  <1> DEFINE n == Cardinality(S)
  <1>0. n \in Nat
    BY FS_CardinalityType
  <1>1. order \in [1 .. n -> S] /\ \A i, j \in 1 .. n : i # j => order[i] # order[j]
    BY DEF SetToSeqs
  <1>2. order \in Seq(S) /\ Len(order) = n /\ DOMAIN order = 1 .. n
    BY <1>0, <1>1
  <1>3. order \in Injection(1 .. n, S)
    BY <1>1 DEF Injection, IsInjective
  <1>4. Cardinality(1 .. n) = n
    BY <1>0, FS_Interval
  <1>5. order \in Surjection(1 .. n, S)
    BY <1>3, <1>4, FS_Injection
  <1>6. ToSet(order) = S
    BY <1>1, <1>2, <1>5 DEF Surjection, ToSet
  <1>7. IsInjective(order)
    BY <1>1, <1>2 DEF IsInjective
  <1> QED
    BY <1>2, <1>6, <1>7

\* Every finite set of naturals has an ascending order.
LEMMA AscendingOrder ==
    ASSUME NEW S \in SUBSET Nat, IsFiniteSet(S)
    PROVE  Ascending(S) \in SetToSeqs(S)
  <1> DEFINE Up(s) == \A i, j \in DOMAIN s : i < j => s[i] < s[j]
             D == {X \in SUBSET S :
                     /\ \A x \in X, y \in S \ X : x < y
                     /\ \E s \in SetToSeqs(X) : Up(s)}
  <1>1. {} \in D
    <2>1. Cardinality({}) = 0
      BY FS_EmptySet
    <2>2. <<>> \in SetToSeqs({})
      BY <2>1 DEF SetToSeqs
    <2>3. Up(<<>>)
      OBVIOUS
    <2> QED
      BY <2>2, <2>3
  <1>2. ASSUME NEW X \in SUBSET S, X \in D, X # S
        PROVE  \E x \in S \ X : X \cup {x} \in D
    <2>1. PICK x \in S \ X : \A y \in S \ X : x <= y
      <3>1. S \ X \in SUBSET Nat /\ S \ X # {}
        BY <1>2
      <3> QED
        BY <3>1, LeastNat
    <2>2. PICK s \in SetToSeqs(X) : Up(s)
      BY <1>2
    <2>3. IsFiniteSet(X)
      BY FS_Subset
    <2> DEFINE n == Cardinality(X)
               t == [i \in 1 .. (n + 1) |-> IF i = n + 1 THEN x ELSE s[i]]
    <2>4. n \in Nat /\ Cardinality(X \cup {x}) = n + 1
      BY <2>1, <2>3, FS_CardinalityType, FS_AddElement
    <2>5. s \in [1 .. n -> X] /\ \A i, j \in 1 .. n : i # j => s[i] # s[j]
      BY DEF SetToSeqs
    <2> HIDE DEF n, Up
    <2>6. \A i \in 1 .. n : t[i] = s[i] /\ t[i] \in X /\ t[i] < x
      <3> SUFFICES ASSUME NEW i \in 1 .. n PROVE t[i] = s[i] /\ t[i] \in X /\ t[i] < x
        OBVIOUS
      <3>1. t[i] = s[i]
        BY <2>4
      <3>2. s[i] \in X
        BY <2>5
      <3> QED
        BY <1>2, <2>1, <3>1, <3>2
    <2>7. t[n + 1] = x
      BY <2>4
    <2>8. t \in [1 .. (n + 1) -> X \cup {x}]
      BY <2>4, <2>5
    <2>9. DOMAIN t = 1 .. (n + 1)
      OBVIOUS
    <2> HIDE DEF t
    <2>10. \A i \in 1 .. (n + 1) : i # n + 1 => i \in 1 .. n
      BY <2>4
    <2>11. \A i, j \in 1 .. (n + 1) : i # j => t[i] # t[j]
      BY <2>1, <2>5, <2>6, <2>7, <2>10
    <2>12. Up(t)
      <3> SUFFICES ASSUME NEW i \in 1 .. (n + 1), NEW j \in 1 .. (n + 1), i < j PROVE t[i] < t[j]
        BY <2>9 DEF Up
      <3>1. i \in 1 .. n
        BY <2>4
      <3>2. CASE j = n + 1
        BY <2>6, <2>7, <3>1, <3>2
      <3>3. CASE j # n + 1
        <4>1. j \in 1 .. n
          BY <2>10, <3>3
        <4>2. s[i] < s[j]
          BY <2>2, <2>5, <3>1, <4>1 DEF Up
        <4> QED
          BY <2>6, <3>1, <4>1, <4>2
      <3> QED
        BY <3>2, <3>3
    <2>13. t \in SetToSeqs(X \cup {x})
      BY <2>4, <2>8, <2>11 DEF SetToSeqs
    <2>14. \A z \in X \cup {x}, y \in S \ (X \cup {x}) : z < y
      <3> SUFFICES ASSUME NEW z \in X \cup {x}, NEW y \in S \ (X \cup {x}) PROVE z < y
        OBVIOUS
      <3>1. y \in S \ X /\ y # x /\ x <= y /\ x \in Nat /\ y \in Nat
        BY <2>1
      <3>2. z \in X => z < y
        BY <1>2, <3>1
      <3> QED
        BY <3>1, <3>2
    <2>15. X \cup {x} \in D
      BY <2>12, <2>13, <2>14
    <2> QED
      BY <2>1, <2>15
  <1>3. S \in D
    <2> HIDE DEF D
    <2> QED
      BY <1>1, <1>2, Exhaustion
  <1>4. \E s \in SetToSeqs(S) : Up(s)
    BY <1>3
  <1> QED
    BY <1>4 DEF Ascending

\* The stack after its top is replaced by what it frees.
LEMMA StackNext ==
    ASSUME NEW V, NEW U \in Seq(V), U # <<>>, IsInjective(U),
           NEW F \in Seq(V), IsInjective(F), ToSet(F) \cap ToSet(U) = {}
    PROVE  /\ Front(U) \o F \in Seq(V)
           /\ IsInjective(Front(U) \o F)
           /\ Last(U) \in ToSet(U)
           /\ ToSet(Front(U) \o F) = (ToSet(U) \ {Last(U)}) \cup ToSet(F)
  <1> DEFINE n == Len(U)
             k == Len(F)
             W == Front(U) \o F
  <1>1. n \in Nat /\ n > 0 /\ k \in Nat
    OBVIOUS
  <1>2. /\ Front(U) \in Seq(V) /\ Len(Front(U)) = n - 1
        /\ \A i \in 1 .. (n - 1) : Front(U)[i] = U[i]
    <2>1. 1 \in Int /\ n - 1 \in Int /\ \A i \in 1 .. (n - 1) : U[i] \in V
      BY <1>1
    <2> HIDE DEF n, W, k
    <2>2. /\ SubSeq(U, 1, n - 1) \in Seq(V)
          /\ Len(SubSeq(U, 1, n - 1)) = IF 1 <= n - 1 THEN (n - 1) - 1 + 1 ELSE 0
          /\ \A i \in 1 .. (n - 1) - 1 + 1 : SubSeq(U, 1, n - 1)[i] = U[1 + i - 1]
      BY <2>1, SubSeqProperties
    <2>3. (n - 1) - 1 + 1 = n - 1 /\ (1 <= n - 1 \/ n - 1 = 0)
      BY <1>1
    <2>4. \A i \in 1 .. (n - 1) : 1 + i - 1 = i
      BY <1>1
    <2>5. Front(U) = SubSeq(U, 1, n - 1)
      BY DEF Front, n
    <2> QED
      BY <1>1, <2>2, <2>3, <2>4, <2>5
  <1>3. /\ W \in Seq(V) /\ Len(W) = n - 1 + k
        /\ \A i \in 1 .. (n - 1) : W[i] = U[i]
        /\ \A i \in n .. (n - 1 + k) : W[i] = F[i - (n - 1)]
    <2>1. /\ W \in Seq(V) /\ Len(W) = n - 1 + k
          /\ \A i \in 1 .. Len(W) : W[i] = IF i <= n - 1 THEN Front(U)[i] ELSE F[i - (n - 1)]
      <3>1. /\ W \in Seq(V) /\ Len(W) = Len(Front(U)) + k
            /\ \A i \in 1 .. Len(Front(U)) + k :
                 W[i] = IF i <= Len(Front(U)) THEN Front(U)[i] ELSE F[i - Len(Front(U))]
        BY <1>2, ConcatProperties
      <3> HIDE DEF W, n, k
      <3> QED
        BY <1>2, <3>1
    <2> HIDE DEF W, n, k
    <2> QED
      BY <1>1, <1>2, <2>1
  <1>4. /\ DOMAIN U = 1 .. n /\ DOMAIN F = 1 .. k /\ DOMAIN W = 1 .. (n - 1 + k)
        /\ Last(U) = U[n]
    BY <1>1, <1>3 DEF Last
  <1>5. \A i, j \in 1 .. n : U[i] = U[j] => i = j
    BY <1>4 DEF IsInjective
  <1>6. \A i, j \in 1 .. k : F[i] = F[j] => i = j
    BY <1>4 DEF IsInjective
  <1>7. \A i \in 1 .. n, j \in 1 .. k : U[i] # F[j]
    BY <1>4 DEF ToSet
  <1> HIDE DEF W, n, k
  <1>8. \A i \in 1 .. (n - 1 + k) :
          \/ i \in 1 .. (n - 1) /\ i \in 1 .. n /\ i # n
          \/ i \in n .. (n - 1 + k) /\ i - (n - 1) \in 1 .. k
    BY <1>1
  <1>9. IsInjective(W)
    <2> SUFFICES ASSUME NEW i \in 1 .. (n - 1 + k), NEW j \in 1 .. (n - 1 + k), W[i] = W[j]
                 PROVE  i = j
      BY <1>4 DEF IsInjective
    <2>1. CASE i \in 1 .. (n - 1) /\ j \in 1 .. (n - 1)
      BY <1>1, <1>3, <1>5, <2>1
    <2>2. CASE i \in n .. (n - 1 + k) /\ j \in n .. (n - 1 + k)
      <3>1. i - (n - 1) = j - (n - 1)
        BY <1>1, <1>3, <1>6, <1>8, <2>2
      <3> QED
        BY <1>1, <2>2, <3>1
    <2>3. CASE i \in 1 .. (n - 1) /\ j \in n .. (n - 1 + k)
      BY <1>1, <1>3, <1>7, <1>8, <2>3
    <2>4. CASE j \in 1 .. (n - 1) /\ i \in n .. (n - 1 + k)
      BY <1>1, <1>3, <1>7, <1>8, <2>4
    <2> QED
      BY <1>8, <2>1, <2>2, <2>3, <2>4
  <1>10. ToSet(W) = {W[i] : i \in 1 .. (n - 1 + k)} /\ ToSet(U) = {U[i] : i \in 1 .. n}
           /\ ToSet(F) = {F[i] : i \in 1 .. k}
    BY <1>4 DEF ToSet
  <1>11. ToSet(W) \subseteq (ToSet(U) \ {Last(U)}) \cup ToSet(F)
    <2> SUFFICES ASSUME NEW i \in 1 .. (n - 1 + k)
                 PROVE  W[i] \in (ToSet(U) \ {Last(U)}) \cup ToSet(F)
      BY <1>10
    <2>1. CASE i \in 1 .. (n - 1)
      <3>1. W[i] = U[i] /\ i \in 1 .. n /\ i # n /\ n \in 1 .. n
        BY <1>1, <1>3, <2>1
      <3>2. U[i] # U[n]
        BY <1>5, <3>1
      <3> QED
        BY <1>4, <1>10, <3>1, <3>2
    <2>2. CASE i \in n .. (n - 1 + k)
      BY <1>1, <1>3, <1>8, <1>10, <2>2
    <2> QED
      BY <1>8, <2>1, <2>2
  <1>12. (ToSet(U) \ {Last(U)}) \cup ToSet(F) \subseteq ToSet(W)
    <2>1. ASSUME NEW i \in 1 .. n, U[i] # Last(U) PROVE U[i] \in ToSet(W)
      <3>1. i \in 1 .. (n - 1)
        BY <1>1, <1>4, <2>1
      <3>2. U[i] = W[i] /\ i \in 1 .. (n - 1 + k)
        BY <1>1, <1>3, <3>1
      <3> QED
        BY <1>10, <3>2
    <2>2. ASSUME NEW i \in 1 .. k PROVE F[i] \in ToSet(W)
      <3>1. i + (n - 1) \in n .. (n - 1 + k) /\ (i + (n - 1)) - (n - 1) = i
        BY <1>1
      <3>2. W[i + (n - 1)] = F[i] /\ i + (n - 1) \in 1 .. (n - 1 + k)
        BY <1>1, <1>3, <3>1
      <3> QED
        BY <1>10, <3>2
    <2> QED
      BY <1>10, <2>1, <2>2
  <1>13. Last(U) \in ToSet(U)
    BY <1>1, <1>4, <1>10
  <1> QED
    BY <1>3, <1>9, <1>11, <1>12, <1>13 DEF W

-----------------------------------------------------------------------------
(* The two ranking loops.                                                  *)

\* The vertices whose children are lifted.
Ranked(V, P, U) == {v \in V : P[v] = {} /\ v \notin ToSet(U)}

\* Between two turns of a ranking loop over the vertices V and the edges E, with the ranks R,
\* the parents P and the stack U: a vertex waits for its parents that are not ranked, the
\* stack holds those that wait for none, and a rank is the length of the longest chain of
\* ranked parents.
RankingLoop(V, E, R, P, U) ==
    LET done == Ranked(V, P, U)
    IN  /\ R \in [V -> Nat]
        /\ P \in [V -> SUBSET V]
        /\ U \in Seq(V)
        /\ IsInjective(U)
        /\ \A v \in ToSet(U) : P[v] = {}
        /\ \A v \in V : P[v] = {p \in V : <<p, v>> \in E /\ p \notin done}
        /\ \A p, v \in V : <<p, v>> \in E /\ p \in done => R[p] + 1 <= R[v]
        /\ \A v \in V : R[v] = 0 \/ \E p \in done : <<p, v>> \in E /\ R[v] = R[p] + 1
        /\ \A v \in V : R[v] <= Cardinality(done)

\* The ranks and the parents a loop starts with, and the parents left when u is ranked.
NoRanks(V) == [v \in V |-> 0]
ParentsIn(V, E) == [v \in V |-> {p \in V : <<p, v>> \in E}]
ParentsWithout(V, E, P, u) == [v \in V |-> IF <<u, v>> \in E THEN P[v] \ {u} ELSE P[v]]
FreedBy(V, E, P, u) == {v \in V : <<u, v>> \in E /\ P[v] \ {u} = {}}

\* A loop starts with rank 0 everywhere, and those without parents on the stack.
LEMMA RankingStarts ==
    ASSUME NEW V, IsFiniteSet(V), NEW E \in SUBSET (V \X V), NEW U \in Seq(V), IsInjective(U),
           ToSet(U) = {v \in V : \A e \in E : e[2] # v}
    PROVE  RankingLoop(V, E, NoRanks(V), ParentsIn(V, E), U)
  <1> DEFINE R == [v \in V |-> 0]
             P == [v \in V |-> {p \in V : <<p, v>> \in E}]
  <1>1. \A v \in V : P[v] = {p \in V : <<p, v>> \in E} /\ R[v] = 0
    OBVIOUS
  <1>2. R \in [V -> Nat] /\ P \in [V -> SUBSET V]
    OBVIOUS
  <1> HIDE DEF R, P
  <1>3. ASSUME NEW v \in V PROVE v \in ToSet(U) <=> P[v] = {}
    <2>1. ASSUME NEW e \in E, e[2] = v PROVE e[1] \in P[v]
      <3>1. e = <<e[1], v>> /\ e[1] \in V
        BY <2>1
      <3> QED
        BY <1>1, <3>1
    <2>2. ASSUME NEW p \in P[v] PROVE <<p, v>> \in E
      BY <1>1
    <2> QED
      BY <2>1, <2>2
  <1>4. Ranked(V, P, U) = {}
    BY <1>3 DEF Ranked
  <1>5. ToSet(U) \subseteq V
    OBVIOUS
  <1>6. Cardinality({}) = 0
    BY FS_EmptySet
  <1>7. /\ \A v \in ToSet(U) : P[v] = {}
        /\ \A v \in V : P[v] = {p \in V : <<p, v>> \in E /\ p \notin {}}
    BY <1>1, <1>3, <1>5
  <1>8. \A v \in V : R[v] <= Cardinality({})
    BY <1>1, <1>6
  <1>9. RankingLoop(V, E, R, P, U)
    BY <1>1, <1>2, <1>4, <1>7, <1>8 DEF RankingLoop
  <1> QED
    BY <1>9 DEF R, P, NoRanks, ParentsIn

\* A turn of a loop ranks one vertex more.
LEMMA RankingTurns ==
    ASSUME NEW V, IsFiniteSet(V), NEW E \in SUBSET (V \X V), NEW R, NEW P, NEW U,
           RankingLoop(V, E, R, P, U), U # <<>>,
           NEW F \in Seq(V), IsInjective(F), ToSet(F) = FreedBy(V, E, P, Last(U))
    PROVE  RankingLoop(V, E, Lifted(R, E, Last(U)), ParentsWithout(V, E, P, Last(U)), Front(U) \o F)
  <1> DEFINE u == Last(U)
             freed == {v \in V : <<u, v>> \in E /\ P[v] \ {u} = {}}
             R2 == Lifted(R, E, u)
             P2 == [v \in V |-> IF <<u, v>> \in E THEN P[v] \ {u} ELSE P[v]]
             U2 == Front(U) \o F
             done == Ranked(V, P, U)
             done2 == Ranked(V, P2, U2)
  <1>0. ToSet(F) = freed
    BY DEF FreedBy
  <1>1. /\ R \in [V -> Nat] /\ P \in [V -> SUBSET V] /\ U \in Seq(V) /\ IsInjective(U)
        /\ \A v \in ToSet(U) : P[v] = {}
        /\ \A v \in V : P[v] = {p \in V : <<p, v>> \in E /\ p \notin done}
        /\ \A p, v \in V : <<p, v>> \in E /\ p \in done => R[p] + 1 <= R[v]
        /\ \A v \in V : R[v] = 0 \/ \E p \in done : <<p, v>> \in E /\ R[v] = R[p] + 1
        /\ \A v \in V : R[v] <= Cardinality(done)
    BY DEF RankingLoop
  <1>2. \A v \in V : v \in done <=> P[v] = {} /\ v \notin ToSet(U)
    BY DEF Ranked
  <1>3. done \subseteq V /\ ToSet(U) \subseteq V
    BY <1>1 DEF Ranked, ToSet
  <1>4. u \in ToSet(U)
    <2>1. Len(U) \in 1 .. Len(U) /\ DOMAIN U = 1 .. Len(U)
      BY <1>1
    <2> QED
      BY <2>1 DEF ToSet, Last
  <1>5. u \in V /\ P[u] = {} /\ u \notin done
    BY <1>1, <1>2, <1>3, <1>4
  <1> HIDE DEF done
  <1>6. \A v \in V : <<u, v>> \in E => u \in P[v]
    BY <1>1, <1>5
  <1>7. freed \cap ToSet(U) = {} /\ \A v \in freed : v \notin done /\ P[v] # {}
    BY <1>1, <1>2, <1>6
  <1>8. U2 \in Seq(V) /\ IsInjective(U2) /\ ToSet(U2) = (ToSet(U) \ {u}) \cup freed
    <2>1. ToSet(F) \cap ToSet(U) = {}
      BY <1>0, <1>7
    <2>2. /\ Front(U) \o F \in Seq(V) /\ IsInjective(Front(U) \o F)
          /\ ToSet(Front(U) \o F) = (ToSet(U) \ {Last(U)}) \cup ToSet(F)
      BY <1>1, <2>1, StackNext
    <2> QED
      BY <1>0, <2>2
  <1>9. /\ P2 \in [V -> SUBSET V]
        /\ \A v \in V : P2[v] = IF <<u, v>> \in E THEN P[v] \ {u} ELSE P[v]
    BY <1>1
  <1>10. \A v \in V : R2[v] = IF <<u, v>> \in E /\ R[v] <= R[u] THEN R[u] + 1 ELSE R[v]
    BY <1>1, <1>5 DEF Lifted, ensure_after
  <1>11. R2 \in [V -> Nat]
    BY <1>1, <1>5 DEF Lifted, ensure_after
  <1>12. \A v \in V : v \in done2 <=> P2[v] = {} /\ v \notin ToSet(U2)
    BY DEF Ranked
  <1>13. done2 \subseteq V
    BY DEF Ranked
  <1> HIDE DEF u, R2, P2, U2, done2
  <1>14. done2 = done \cup {u}
    <2>1. ASSUME NEW v \in V PROVE v \in done2 <=> v \in done \/ v = u
      <3>1. CASE v = u
        <4>1. <<u, u>> \notin E
          BY <1>5, <1>6
        <4>2. P2[u] = {}
          BY <1>5, <1>9, <4>1
        <4>3. u \notin freed
          BY <1>5, <1>7
        <4> QED
          BY <1>8, <1>12, <3>1, <4>2, <4>3
      <3>2. CASE v # u /\ <<u, v>> \in E
        <4>1. v \in freed <=> P2[v] = {}
          BY <1>9, <3>2 DEF u
        <4>2. v \notin done
          BY <1>2, <1>6, <3>2
        <4> QED
          BY <1>8, <1>12, <3>2, <4>1, <4>2
      <3>3. CASE v # u /\ <<u, v>> \notin E
        <4>1. v \notin freed
          BY <3>3 DEF u
        <4>2. P2[v] = P[v]
          BY <1>9, <3>3
        <4> QED
          BY <1>2, <1>8, <1>12, <3>3, <4>1, <4>2
      <3> QED
        BY <3>1, <3>2, <3>3
    <2> QED
      BY <1>3, <1>5, <1>13, <2>1
  <1>15. \A v \in ToSet(U2) : P2[v] = {}
    <2>1. \A v \in freed : P2[v] = {}
      BY <1>9 DEF u
    <2>2. \A v \in ToSet(U) : P2[v] = {}
      BY <1>1, <1>3, <1>9
    <2> QED
      BY <1>8, <2>1, <2>2
  <1>16. \A v \in V : P2[v] = {p \in V : <<p, v>> \in E /\ p \notin done2}
    BY <1>1, <1>5, <1>9, <1>14
  <1>17. ASSUME NEW v \in V PROVE R[v] <= R2[v]
    <2>1. R[v] \in Nat /\ R[u] \in Nat
      BY <1>1, <1>5
    <2>2. R2[v] = R[v] \/ (R2[v] = R[u] + 1 /\ R[v] <= R[u])
      BY <1>10
    <2> QED
      BY <2>1, <2>2
  <1>18. \A v \in done2 : R2[v] = R[v]
    <2> SUFFICES ASSUME NEW v \in done2, <<u, v>> \in E PROVE FALSE
      BY <1>10, <1>13
    <2>1. v \in V /\ P[v] = {}
      BY <1>2, <1>5, <1>13, <1>14
    <2> QED
      BY <1>6, <2>1
  <1>19. ASSUME NEW p \in V, NEW v \in V, <<p, v>> \in E, p \in done2
         PROVE  R2[p] + 1 <= R2[v]
    <2>1. R[p] \in Nat /\ R[v] \in Nat /\ R2[v] \in Nat /\ R2[p] = R[p]
      BY <1>1, <1>11, <1>18, <1>19
    <2>2. CASE p \in done
      <3>1. R[p] + 1 <= R[v] /\ R[v] <= R2[v]
        BY <1>1, <1>17, <1>19, <2>2
      <3> QED
        BY <2>1, <3>1
    <2>3. CASE p = u
      <3>1. R2[v] = IF R[v] <= R[u] THEN R[u] + 1 ELSE R[v]
        BY <1>10, <1>19, <2>3
      <3> QED
        BY <2>1, <2>3, <3>1
    <2> QED
      BY <1>14, <1>19, <2>2, <2>3
  <1>20. ASSUME NEW v \in V
         PROVE  R2[v] = 0 \/ \E p \in done2 : <<p, v>> \in E /\ R2[v] = R2[p] + 1
    <2>1. CASE R2[v] = R[v]
      BY <1>1, <1>14, <1>18, <2>1
    <2>2. CASE R2[v] # R[v]
      <3>1. <<u, v>> \in E /\ R2[v] = R[u] + 1
        BY <1>10, <2>2
      <3>2. u \in done2 /\ R2[u] = R[u]
        BY <1>14, <1>18
      <3> QED
        BY <3>1, <3>2
    <2> QED
      BY <2>1, <2>2
  <1>21. \A v \in V : R2[v] <= Cardinality(done2)
    <2>1. IsFiniteSet(done)
      BY <1>3, FS_Subset
    <2>2. Cardinality(done) \in Nat /\ Cardinality(done2) = Cardinality(done) + 1
      BY <1>5, <1>14, <2>1, FS_CardinalityType, FS_AddElement
    <2>3. ASSUME NEW v \in V PROVE R2[v] <= Cardinality(done2)
      <3>1. R[v] <= Cardinality(done) /\ R[u] <= Cardinality(done) /\ R[v] \in Nat /\ R[u] \in Nat
        BY <1>1, <1>5
      <3>2. R2[v] = R[v] \/ R2[v] = R[u] + 1
        BY <1>10
      <3> QED
        BY <2>2, <3>1, <3>2
    <2> QED
      BY <2>3
  <1> QED
    BY <1>8, <1>9, <1>11, <1>15, <1>16, <1>19, <1>20, <1>21
    DEF RankingLoop, ParentsWithout, u, R2, P2, U2, done2

\* At the end of a loop, a set of vertices that holds its parents and has no cycle is ranked.
LEMMA RankingEnds ==
    ASSUME NEW V, NEW E, NEW R, NEW P, RankingLoop(V, E, R, P, <<>>), NEW S \in SUBSET V,
           \A p, v \in V : <<p, v>> \in E /\ v \in S => p \in S,
           \A X \in SUBSET S : X # {} => \E v \in X : \A p \in X : <<p, v>> \notin E
    PROVE  \A p, v \in V : <<p, v>> \in E /\ p \in S => R[p] + 1 <= R[v]
  <1> DEFINE done == Ranked(V, P, <<>>)
  <1>1. ToSet(<<>>) = {}
    BY DEF ToSet
  <1>2. \A v \in V : v \in done <=> P[v] = {}
    BY <1>1 DEF Ranked
  <1>3. /\ \A v \in V : P[v] = {p \in V : <<p, v>> \in E /\ p \notin done}
        /\ \A p, v \in V : <<p, v>> \in E /\ p \in done => R[p] + 1 <= R[v]
    BY DEF RankingLoop
  <1> HIDE DEF done
  <1>4. S \subseteq done
    <2> SUFFICES ASSUME NEW k \in S, k \notin done PROVE FALSE
      OBVIOUS
    <2> DEFINE X == S \ done
    <2>1. PICK v \in X : \A p \in X : <<p, v>> \notin E
      <3>1. X \in SUBSET S /\ X # {}
        OBVIOUS
      <3> HIDE DEF X
      <3> QED
        BY <3>1
    <2>2. \A p \in V : <<p, v>> \in E => p \in done
      BY <2>1
    <2>3. P[v] = {}
      BY <1>3, <2>1, <2>2
    <2> QED
      BY <1>2, <2>1, <2>3
  <1> QED
    BY <1>3, <1>4

-----------------------------------------------------------------------------
(* The description of the graph, and the clusters it is split into.        *)

\* The clusters a program declares: their IDs never fall, so an edge leads to a node declared
\* in the same cluster or in a later one, and a loop stays in its cluster.
Declared ==
    /\ cluster_id \in Seq(Nat)
    /\ current_clusters <= current_id
    /\ phase = "describing" =>
         /\ \A n \in Nodes : cluster_id[n] <= current_id
         /\ \A e \in childs : cluster_id[e[1]] <= cluster_id[e[2]]
         /\ \A e \in same_clusters : cluster_id[e[1]] = cluster_id[e[2]]

\* The nodes and what is made of them are finite.
LEMMA GraphFacts ==
    ASSUME TypeOK, Declared
    PROVE  /\ Nodes = 1 .. Len(cluster_id) /\ Len(cluster_id) \in Nat
           /\ IsFiniteSet(Nodes) /\ Cardinality(Nodes) = Len(cluster_id)
           /\ ClusterIds \subseteq Nat
           /\ IsFiniteSet(ClusterIds) /\ Cardinality(ClusterIds) <= Len(cluster_id)
           /\ \A n \in Nodes : cluster_id[n] \in ClusterIds
           /\ ClusterEdges \subseteq ClusterIds \X ClusterIds
           /\ childs \subseteq Nodes \X Nodes
           /\ InnerEdges \subseteq Nodes \X Nodes
  <1>1. cluster_id \in Seq(Nat)
    BY DEF Declared
  <1>2. Nodes = 1 .. Len(cluster_id) /\ Len(cluster_id) \in Nat
    BY <1>1 DEF Nodes
  <1>3. IsFiniteSet(Nodes) /\ Cardinality(Nodes) = Len(cluster_id)
    <2>1. \A n \in Nat : IsFiniteSet(1 .. n) /\ Cardinality(1 .. n) = n
      BY FS_Interval
    <2> QED
      BY <1>2, <2>1
  <1>4. ClusterIds \subseteq Nat /\ \A n \in Nodes : cluster_id[n] \in ClusterIds
    BY <1>1, <1>2 DEF ClusterIds
  <1>5. cluster_id \in [Nodes -> ClusterIds]
    BY <1>1, <1>2, <1>4
  <1>6. cluster_id \in Surjection(Nodes, ClusterIds)
    BY <1>5 DEF Surjection, ClusterIds
  <1>7. IsFiniteSet(ClusterIds) /\ Cardinality(ClusterIds) <= Len(cluster_id)
    BY <1>3, <1>6, FS_Surjection
  <1>8. childs \subseteq Nodes \X Nodes
    BY DEF TypeOK
  <1>9. ClusterEdges \subseteq ClusterIds \X ClusterIds
    <2>1. \A e \in childs : e[1] \in Nodes /\ e[2] \in Nodes
      BY <1>8
    <2> QED
      BY <1>4, <2>1 DEF ClusterEdges
  <1>10. InnerEdges \subseteq Nodes \X Nodes
    BY <1>8 DEF InnerEdges
  <1> QED
    BY <1>2, <1>3, <1>4, <1>7, <1>8, <1>9, <1>10

\* Associates were declared in one cluster.
LEMMA AssociatesDeclared ==
    ASSUME TypeOK, Declared, phase = "describing"
    PROVE  /\ Associates \subseteq Nodes \X Nodes
           /\ IsFiniteSet(Associates)
           /\ \A a, b \in Nodes : Together(a, b) => cluster_id[a] = cluster_id[b]
           /\ \A e \in Associates : Together(e[1], e[2])
  <1>1. IsFiniteSet(Nodes) /\ childs \subseteq Nodes \X Nodes
    BY GraphFacts
  <1>2. same_clusters \subseteq Nodes \X Nodes
    BY DEF TypeOK
  <1>3. Sinks \subseteq Nodes
    BY DEF Sinks
  <1>4. Associates \subseteq Nodes \X Nodes
    BY <1>1, <1>2, <1>3 DEF Associates
  <1>5. IsFiniteSet(Associates)
    BY <1>1, <1>4, FS_Product, FS_Subset
  <1>6. \A e \in Associates : cluster_id[e[1]] = cluster_id[e[2]]
    <2>1. \A e \in same_clusters : cluster_id[e[1]] = cluster_id[e[2]]
      BY DEF Declared
    <2>2. \A e \in Sinks \X Sinks : cluster_id[e[1]] = cluster_id[e[2]]
      BY DEF Sinks
    <2> QED
      BY <2>1, <2>2 DEF Associates
  <1>7. ASSUME NEW a \in Nodes, NEW b \in Nodes, Together(a, b)
        PROVE  cluster_id[a] = cluster_id[b]
    <2> DEFINE S == {n \in Nodes : cluster_id[n] = cluster_id[a]}
    <2>1. \A e \in Associates : e[1] \in S <=> e[2] \in S
      <3>1. \A e \in Associates : e[1] \in Nodes /\ e[2] \in Nodes
        BY <1>4
      <3> QED
        BY <1>6, <3>1
    <2>2. S \in SUBSET Nodes /\ a \in S
      OBVIOUS
    <2>3. b \in S
      <3> HIDE DEF S
      <3> QED
        BY <1>7, <2>1, <2>2 DEF Together
    <2> QED
      BY <2>3
  <1>8. \A e \in Associates : Together(e[1], e[2])
    BY DEF Together
  <1> QED
    BY <1>4, <1>5, <1>7, <1>8

\* The numbers of the roots, from 0 on.
RootsOf(F, nodes) == {get_parent(F, n) : n \in nodes}

Numbered(F, nodes, order) ==
    [n \in nodes |-> (CHOOSE k \in 1 .. Len(order) : order[k] = get_parent(F, n)) - 1]

\* Each root has a number of its own.
LEMMA RootsNumbered ==
    ASSUME NEW nodes, IsFiniteSet(nodes), NEW F \in Forests(nodes),
           NEW order \in SetToSeqs(RootsOf(F, nodes))
    PROVE  /\ \A n \in nodes : Numbered(F, nodes, order)[n] \in 0 .. Cardinality(nodes)
           /\ \A a, b \in nodes :
                Numbered(F, nodes, order)[a] = Numbered(F, nodes, order)[b]
                  <=> get_parent(F, a) = get_parent(F, b)
  <1> DEFINE roots == {get_parent(F, n) : n \in nodes}
             ids == [n \in nodes |->
                       (CHOOSE k \in 1 .. Len(order) : order[k] = get_parent(F, n)) - 1]
  <1>0. order \in SetToSeqs(roots)
    BY DEF RootsOf
  <1>1. \A n \in nodes : get_parent(F, n) \in nodes
    BY RootFacts
  <1>2. roots \subseteq nodes
    BY <1>1
  <1>3. IsFiniteSet(roots) /\ Cardinality(roots) <= Cardinality(nodes)
    BY <1>2, FS_Subset
  <1>4. /\ order \in Seq(roots) /\ Len(order) = Cardinality(roots)
        /\ IsInjective(order) /\ ToSet(order) = roots
    BY <1>0, <1>3, OrderFacts
  <1>5. Len(order) \in Nat /\ Cardinality(nodes) \in Nat /\ Len(order) <= Cardinality(nodes)
    BY <1>3, <1>4, FS_CardinalityType
  <1>6. \A n \in nodes : \E k \in 1 .. Len(order) : order[k] = get_parent(F, n)
    <2> SUFFICES ASSUME NEW n \in nodes
                 PROVE  \E k \in 1 .. Len(order) : order[k] = get_parent(F, n)
      OBVIOUS
    <2>1. get_parent(F, n) \in ToSet(order)
      BY <1>4
    <2>2. DOMAIN order = 1 .. Len(order)
      BY <1>4
    <2> QED
      BY <2>1, <2>2 DEF ToSet
  <1>7. \A n \in nodes : ids[n] + 1 \in 1 .. Len(order) /\ order[ids[n] + 1] = get_parent(F, n)
    <2> SUFFICES ASSUME NEW n \in nodes
                 PROVE  ids[n] + 1 \in 1 .. Len(order) /\ order[ids[n] + 1] = get_parent(F, n)
      OBVIOUS
    <2> DEFINE k == CHOOSE k \in 1 .. Len(order) : order[k] = get_parent(F, n)
    <2>1. k \in 1 .. Len(order) /\ order[k] = get_parent(F, n)
      BY <1>6
    <2>2. ids[n] = k - 1
      OBVIOUS
    <2> HIDE DEF k
    <2>3. ids[n] + 1 = k
      BY <1>5, <2>1, <2>2
    <2> QED
      BY <2>1, <2>3
  <1>8. ASSUME NEW n \in nodes PROVE ids[n] \in 0 .. Cardinality(nodes)
    <2>1. ids[n] + 1 \in 1 .. Len(order)
      BY <1>7
    <2>2. ids[n] \in Int
      <3> DEFINE k == CHOOSE k \in 1 .. Len(order) : order[k] = get_parent(F, n)
      <3>1. k \in 1 .. Len(order)
        BY <1>6
      <3>2. ids[n] = k - 1
        OBVIOUS
      <3> HIDE DEF k
      <3> QED
        BY <1>5, <3>1, <3>2
    <2> QED
      BY <1>5, <2>1, <2>2
  <1>9. ASSUME NEW a \in nodes, NEW b \in nodes
        PROVE  ids[a] = ids[b] <=> get_parent(F, a) = get_parent(F, b)
    <2>1. ids[a] = ids[b] => get_parent(F, a) = get_parent(F, b)
      BY <1>7
    <2>2. get_parent(F, a) = get_parent(F, b) => ids[a] = ids[b]
      OBVIOUS
    <2> QED
      BY <2>1, <2>2
  <1> QED
    BY <1>8, <1>9 DEF Numbered

\* The swap keeps clusters apart, and gives the sinks the ID that is not managed.
LEMMA UnmanagedFacts ==
    ASSUME NEW ids, NEW max \in Nat, ids \in [Nodes -> 0 .. max],
           \A n \in Nodes, s \in Sinks : ids[n] = ids[s] <=> n \in Sinks
    PROVE  /\ Unmanaged(ids) \in [Nodes -> 0 .. max]
           /\ \A a, b \in Nodes : Unmanaged(ids)[a] = Unmanaged(ids)[b] <=> ids[a] = ids[b]
           /\ Sinks # {} =>
                \A n \in Nodes : Unmanaged(ids)[n] = UNMANAGED_CLUSTER_ID <=> n \in Sinks
  <1>1. CASE Sinks = {}
    BY <1>1 DEF Unmanaged
  <1>2. CASE Sinks # {}
    <2> DEFINE sink == CHOOSE n \in Sinks : TRUE
               sink_id == ids[sink]
               fixed == Unmanaged(ids)
    <2>1. sink \in Sinks /\ sink \in Nodes
      BY <1>2 DEF Sinks
    <2>2. fixed = [n \in Nodes |-> CASE ids[n] = sink_id -> UNMANAGED_CLUSTER_ID
                                     [] ids[n] = UNMANAGED_CLUSTER_ID /\ ids[n] # sink_id -> sink_id
                                     [] OTHER -> ids[n]]
      BY <1>2 DEF Unmanaged
    <2> HIDE DEF fixed, sink
    <2>3. \A n \in Nodes :
            fixed[n] = IF ids[n] = sink_id THEN 0 ELSE IF ids[n] = 0 THEN sink_id ELSE ids[n]
      BY <2>2 DEF UNMANAGED_CLUSTER_ID
    <2>4. sink_id \in 0 .. max /\ \A n \in Nodes : ids[n] \in 0 .. max
      BY <2>1
    <2>5. fixed \in [Nodes -> 0 .. max]
      <3>1. \A n \in Nodes : fixed[n] \in 0 .. max
        BY <2>3, <2>4
      <3>2. DOMAIN fixed = Nodes /\ fixed = [n \in Nodes |-> fixed[n]]
        BY <2>2
      <3> QED
        BY <3>1, <3>2
    <2>6. \A a, b \in Nodes : fixed[a] = fixed[b] <=> ids[a] = ids[b]
      BY <2>3, <2>4
    <2>7. \A n \in Nodes : fixed[n] = 0 <=> ids[n] = sink_id
      BY <2>3, <2>4
    <2> QED
      BY <2>1, <2>5, <2>6, <2>7 DEF fixed, UNMANAGED_CLUSTER_ID
  <1> QED
    BY <1>1, <1>2

\* split_cluster_by_associates puts nodes in one cluster exactly if a chain of associates
\* joins them, and the sinks, if there are any, alone in the one that is not managed.
LEMMA SplitFacts ==
    ASSUME TypeOK, Declared, split_cluster_by_associates
    PROVE  /\ cluster_id' \in [Nodes -> 0 .. Len(cluster_id)]
           /\ \A a, b \in Nodes : cluster_id'[a] = cluster_id'[b] <=> Together(a, b)
           /\ Sinks # {} =>
                \A n \in Nodes : cluster_id'[n] = UNMANAGED_CLUSTER_ID <=> n \in Sinks
  <1> DEFINE F == Components
  <1>1. phase = "describing"
    BY DEF split_cluster_by_associates
  <1>2. /\ IsFiniteSet(Nodes) /\ Cardinality(Nodes) = Len(cluster_id)
        /\ Len(cluster_id) \in Nat
    BY GraphFacts
  <1>3. F \in Forests(Nodes)
        /\ \A a, b \in Nodes : get_parent(F, a) = get_parent(F, b) <=> Together(a, b)
    BY <1>1, <1>2, AssociatesDeclared, ComponentsCorrect
  <1> HIDE DEF F
  <1>4. PICK order \in SetToSeqs(RootsOf(F, Nodes)) :
          cluster_id' = Unmanaged(Numbered(F, Nodes, order))
    BY DEF split_cluster_by_associates, F, RootsOf, Numbered
  <1> DEFINE ids == Numbered(F, Nodes, order)
  <1>5. /\ \A n \in Nodes : ids[n] \in 0 .. Len(cluster_id)
        /\ \A a, b \in Nodes : ids[a] = ids[b] <=> get_parent(F, a) = get_parent(F, b)
    BY <1>2, <1>3, RootsNumbered
  <1>6. ids \in [Nodes -> 0 .. Len(cluster_id)]
    BY <1>5 DEF Numbered
  <1>7. cluster_id' = Unmanaged(ids)
    BY <1>4
  <1> HIDE DEF ids
  <1>8. ASSUME NEW n \in Nodes, NEW s \in Sinks PROVE ids[n] = ids[s] <=> n \in Sinks
    <2>1. s \in Nodes /\ cluster_id[s] = UNMANAGED_CLUSTER_ID
      BY DEF Sinks
    <2>2. ids[n] = ids[s] <=> Together(n, s)
      BY <1>3, <1>5, <2>1
    <2>3. Together(n, s) => n \in Sinks
      BY <1>1, <2>1, AssociatesDeclared DEF Sinks
    <2>4. ASSUME n \in Sinks PROVE Together(n, s)
      <3>1. <<n, s>> \in Associates
        BY <2>4 DEF Associates
      <3> QED
        BY <1>1, <3>1, AssociatesDeclared
    <2> QED
      BY <2>2, <2>3, <2>4
  <1>9. /\ Unmanaged(ids) \in [Nodes -> 0 .. Len(cluster_id)]
        /\ \A a, b \in Nodes : Unmanaged(ids)[a] = Unmanaged(ids)[b] <=> ids[a] = ids[b]
        /\ Sinks # {} => \A n \in Nodes : Unmanaged(ids)[n] = UNMANAGED_CLUSTER_ID <=> n \in Sinks
    BY <1>2, <1>6, <1>8, UnmanagedFacts
  <1> QED
    BY <1>3, <1>5, <1>7, <1>9

\* The clusters that were declared first come first, so none is above itself.
LEMMA SplitAcyclic ==
    ASSUME TypeOK, Declared, split_cluster_by_associates
    PROVE  NoClusterCycle'
  <1>1. phase = "describing" /\ childs' = childs
    BY DEF split_cluster_by_associates
  <1>2. /\ cluster_id' \in [Nodes -> 0 .. Len(cluster_id)]
        /\ \A a, b \in Nodes : cluster_id'[a] = cluster_id'[b] <=> Together(a, b)
    BY SplitFacts
  <1>3. Nodes' = Nodes
    BY <1>2 DEF Nodes
  <1>4. /\ childs \subseteq Nodes \X Nodes
        /\ \A n \in Nodes : cluster_id[n] \in Nat
    BY GraphFacts DEF Declared
  <1>5. /\ \A a, b \in Nodes : cluster_id'[a] = cluster_id'[b] => cluster_id[a] = cluster_id[b]
        /\ \A e \in Associates : Together(e[1], e[2])
    BY <1>1, <1>2, AssociatesDeclared
  <1> SUFFICES ASSUME NEW S \in SUBSET ClusterIds', S # {}
               PROVE  \E c \in S : \A p \in S \ {c} : <<p, c>> \notin ClusterEdges'
    BY DEF NoClusterCycle
  <1> DEFINE members == {n \in Nodes : cluster_id'[n] \in S}
             ages == {cluster_id[n] : n \in members}
  <1>6. ages \in SUBSET Nat /\ ages # {}
    <2>1. PICK c \in S : TRUE
      OBVIOUS
    <2>2. PICK n \in Nodes : c = cluster_id'[n]
      BY <1>3 DEF ClusterIds
    <2>3. n \in members
      BY <2>2
    <2> QED
      BY <1>4, <2>3
  <1>7. PICK first \in members : \A n \in members : cluster_id[first] <= cluster_id[n]
    <2>1. PICK age \in ages : \A other \in ages : age <= other
      <3> HIDE DEF ages
      <3> QED
        BY <1>6, LeastNat
    <2> QED
      BY <2>1
  <1>8. cluster_id'[first] \in S /\ first \in Nodes
    OBVIOUS
  <1>9. ASSUME NEW p \in S \ {cluster_id'[first]}, <<p, cluster_id'[first]>> \in ClusterEdges'
        PROVE  FALSE
    <2>1. PICK e \in childs : cluster_id'[e[1]] = p /\ cluster_id'[e[2]] = cluster_id'[first]
      BY <1>1, <1>9 DEF ClusterEdges
    <2>2. e[1] \in Nodes /\ e[2] \in Nodes
      BY <1>4
    <2>3. cluster_id[e[2]] = cluster_id[first]
      BY <1>5, <1>8, <2>1, <2>2
    <2>4. cluster_id[e[1]] <= cluster_id[e[2]]
      BY <1>1 DEF Declared
    <2>5. e[1] \in members
      BY <2>1, <2>2
    <2>6. cluster_id[first] <= cluster_id[e[1]]
      BY <1>7, <2>5
    <2> HIDE DEF members
    <2>7. cluster_id[e[1]] = cluster_id[e[2]]
      BY <1>4, <1>8, <2>2, <2>3, <2>4, <2>6
    <2>8. e \in Associates
      BY <2>7 DEF Associates
    <2>9. cluster_id'[e[1]] = cluster_id'[e[2]]
      BY <1>2, <1>5, <2>2, <2>8
    <2> QED
      BY <2>1, <2>9
  <1> QED
    BY <1>8, <1>9

-----------------------------------------------------------------------------
(* The inductive invariant.                                                *)

\* What the loops of build have done: the one that runs is between two turns, and the ranks
\* of the one that has ended stay.
ClustersRanked ==
    \A e \in ClusterEdges :
        (\E S \in SUBSET ClusterIds :
           /\ e[1] \in S
           /\ Ancestry(S)
           /\ \A c \in S : <<c, c>> \notin ClusterEdges)
        => cluster_ranks[e[1]] < cluster_ranks[e[2]]

Building ==
    /\ phase = "cluster_ranks" =>
         RankingLoop(ClusterIds, ClusterEdges, cluster_ranks, parents, updates)
    /\ phase = "in_cluster_ranks" =>
         RankingLoop(Nodes, InnerEdges, in_cluster_ranks, parents, updates)
    /\ phase \in {"in_cluster_ranks", "built"} => ClustersRanked

NodesInv == TypeOK /\ Declared /\ NoClusterCycle /\ Building /\ InClusterRanksExact

\* The invariant holds of an empty description.
LEMMA NodesInit == Init => NodesInv
  <1> SUFFICES ASSUME Init PROVE NodesInv
    OBVIOUS
  <1> USE DEF Init
  <1>1. Nodes = {} /\ Len(cluster_id) = 0 /\ cluster_id \in Seq(Nat)
    BY DEF Nodes
  <1>2. IsInjective(updates) /\ ToSet(updates) = {} /\ DOMAIN parents = {}
    BY DEF IsInjective, ToSet
  <1>3. DOMAIN cluster_ranks = {} /\ DOMAIN in_cluster_ranks = {}
    OBVIOUS
  <1>4. TypeOK
    BY <1>1, <1>2, <1>3, BoundsAssumption DEF TypeOK
  <1>5. Declared
    BY <1>1 DEF Declared
  <1> QED
    BY <1>4, <1>5 DEF NodesInv, NoClusterCycle, Building, InClusterRanksExact

\* While the graph is described, the invariant is what is declared.
LEMMA DescribingIsEnough ==
    ASSUME TypeOK', Declared', phase' = "describing"
    PROVE  NodesInv'
  BY DEF NodesInv, NoClusterCycle, Building, InClusterRanksExact

\* A cluster is opened or closed: the IDs go up.
LEMMA ClusterKeeps ==
    ASSUME NodesInv, EnterCluster \/ ExitCluster
    PROVE  NodesInv'
  <1>1. /\ phase = "describing" /\ phase' = phase
        /\ current_id < MaxClusterId /\ current_id' = current_id + 1
        /\ cluster_id' = cluster_id /\ childs' = childs /\ same_clusters' = same_clusters
        /\ cluster_ranks' = cluster_ranks /\ in_cluster_ranks' = in_cluster_ranks
        /\ parents' = parents /\ updates' = updates
    BY DEF EnterCluster, ExitCluster, ranking
  <1>2. TypeOK /\ Declared
    BY DEF NodesInv
  <1>3. /\ current_id \in 1 .. MaxClusterId /\ current_clusters \in 1 .. MaxClusterId
        /\ current_clusters <= current_id /\ MaxClusterId \in Nat
    BY <1>2, BoundsAssumption DEF TypeOK, Declared
  <1>4. /\ current_id' \in 1 .. MaxClusterId /\ current_clusters' \in 1 .. MaxClusterId
        /\ current_clusters' <= current_id' /\ current_id <= current_id'
    BY <1>1, <1>3 DEF EnterCluster, ExitCluster
  <1>5. TypeOK'
    BY <1>1, <1>2, <1>4 DEF TypeOK, Nodes
  <1>6. \A n \in Nodes : cluster_id[n] <= current_id'
    <2>1. \A n \in Nodes : cluster_id[n] \in Nat /\ cluster_id[n] <= current_id
      BY <1>1, <1>2 DEF Declared, Nodes
    <2> QED
      BY <1>1, <1>3, <2>1
  <1>7. Declared'
    BY <1>1, <1>2, <1>4, <1>6 DEF Declared, Nodes
  <1> QED
    BY <1>1, <1>5, <1>7, DescribingIsEnough

\* A node is declared, in the current cluster or as a sink.
LEMMA NodeKeeps ==
    ASSUME NodesInv, NewSink \/ NewNode
    PROVE  NodesInv'
  <1> DEFINE new == Len(cluster_id) + 1
  <1>1. /\ phase = "describing" /\ phase' = phase
        /\ Len(cluster_id) < MaxNodes
        /\ current_id' = current_id /\ current_clusters' = current_clusters
        /\ same_clusters' = same_clusters
        /\ cluster_ranks' = cluster_ranks /\ in_cluster_ranks' = in_cluster_ranks
        /\ parents' = parents /\ updates' = updates
    BY DEF NewSink, NewNode, ranking
  <1>2. TypeOK /\ Declared
    BY DEF NodesInv
  <1>3. PICK c \in {UNMANAGED_CLUSTER_ID, current_id}, from \in SUBSET Nodes :
          /\ cluster_id' = Append(cluster_id, c)
          /\ childs' = childs \cup {<<p, Len(cluster_id) + 1>> : p \in from}
          /\ from # {} => c = current_id
    <2>1. CASE NewSink
      <3>1. childs' = childs \cup {<<p, Len(cluster_id) + 1>> : p \in {}}
        BY <2>1 DEF NewSink
      <3> QED
        BY <2>1, <3>1 DEF NewSink
    <2>2. CASE NewNode
      BY <2>2 DEF NewNode
    <2> QED
      BY <2>1, <2>2
  <1>4. /\ cluster_id \in Seq(Nat) /\ Len(cluster_id) \in Nat /\ Nodes = 1 .. Len(cluster_id)
        /\ current_id \in 1 .. MaxClusterId /\ MaxClusterId \in Nat /\ MaxNodes \in Nat
        /\ childs \subseteq Nodes \X Nodes
    BY <1>2, BoundsAssumption, GraphFacts DEF TypeOK, Declared
  <1>5. c \in 0 .. MaxClusterId /\ c \in Nat /\ c <= current_id
    BY <1>4 DEF UNMANAGED_CLUSTER_ID
  <1>6. /\ cluster_id' \in Seq(Nat) /\ Len(cluster_id') = new
        /\ \A n \in Nodes : cluster_id'[n] = cluster_id[n]
        /\ cluster_id'[new] = c
    BY <1>3, <1>4, <1>5
  <1>7. Nodes' = 1 .. new /\ Nodes \subseteq Nodes' /\ new \in Nodes' /\ new \notin Nodes
        /\ \A n \in Nodes' : n \in Nodes \/ n = new
    BY <1>4, <1>6 DEF Nodes
  <1>8. TypeOK'
    <2>1. \A n \in Nodes' : cluster_id'[n] \in 0 .. MaxClusterId
      <3>1. \A n \in Nodes : cluster_id[n] \in 0 .. MaxClusterId
        BY <1>1, <1>2 DEF TypeOK
      <3> QED
        BY <1>5, <1>6, <1>7, <3>1
    <2>2. childs' \subseteq {e \in Nodes' \X Nodes' : e[1] < e[2]}
      <3>1. childs \subseteq {e \in Nodes' \X Nodes' : e[1] < e[2]}
        BY <1>2, <1>7 DEF TypeOK
      <3>2. ASSUME NEW p \in from PROVE <<p, new>> \in {e \in Nodes' \X Nodes' : e[1] < e[2]}
        BY <1>4, <1>7
      <3> QED
        BY <1>3, <3>1, <3>2
    <2>3. same_clusters' \subseteq Nodes' \X Nodes'
      BY <1>1, <1>2, <1>7 DEF TypeOK
    <2>4. Len(cluster_id') <= MaxNodes
      BY <1>1, <1>4, <1>6
    <2> QED
      BY <1>1, <1>2, <2>1, <2>2, <2>3, <2>4 DEF TypeOK
  <1>9. Declared'
    <2>1. \A n \in Nodes' : cluster_id'[n] <= current_id'
      BY <1>1, <1>2, <1>5, <1>6, <1>7 DEF Declared
    <2>2. \A e \in childs' : cluster_id'[e[1]] <= cluster_id'[e[2]]
      <3>1. ASSUME NEW e \in childs PROVE cluster_id'[e[1]] <= cluster_id'[e[2]]
        <4>1. e[1] \in Nodes /\ e[2] \in Nodes
          BY <1>4
        <4> QED
          BY <1>1, <1>2, <1>6, <4>1 DEF Declared
      <3>2. ASSUME NEW p \in from PROVE cluster_id'[p] <= cluster_id'[new]
        BY <1>1, <1>2, <1>3, <1>6 DEF Declared
      <3>3. ASSUME NEW e \in {<<p, new>> : p \in from} PROVE cluster_id'[e[1]] <= cluster_id'[e[2]]
        BY <3>2
      <3> QED
        BY <1>3, <3>1, <3>3
    <2>3. \A e \in same_clusters' : cluster_id'[e[1]] = cluster_id'[e[2]]
      <3>1. \A e \in same_clusters : e[1] \in Nodes /\ e[2] \in Nodes
        BY <1>2 DEF TypeOK
      <3> QED
        BY <1>1, <1>2, <1>6, <3>1 DEF Declared
    <2> QED
      BY <1>1, <1>2, <1>6, <2>1, <2>2, <2>3 DEF Declared
  <1> QED
    BY <1>1, <1>8, <1>9, DescribingIsEnough

\* A loop joins nodes of one cluster.
LEMMA LoopKeeps ==
    ASSUME NodesInv, Loop
    PROVE  NodesInv'
  <1>1. /\ phase = "describing" /\ phase' = phase
        /\ current_id' = current_id /\ current_clusters' = current_clusters
        /\ cluster_id' = cluster_id /\ childs' = childs
        /\ cluster_ranks' = cluster_ranks /\ in_cluster_ranks' = in_cluster_ranks
        /\ parents' = parents /\ updates' = updates
    BY DEF Loop, ranking
  <1>2. TypeOK /\ Declared
    BY DEF NodesInv
  <1>3. PICK a \in Nodes, b \in Nodes : /\ cluster_id[a] = cluster_id[b]
                                        /\ same_clusters' = same_clusters \cup {<<b, a>>}
    BY DEF Loop
  <1>4. TypeOK'
    BY <1>1, <1>2, <1>3 DEF TypeOK, Nodes
  <1>5. Declared'
    BY <1>1, <1>2, <1>3 DEF Declared, Nodes
  <1> QED
    BY <1>1, <1>4, <1>5, DescribingIsEnough

\* The graph is split into its clusters.
LEMMA SplitKeeps ==
    ASSUME NodesInv, split_cluster_by_associates
    PROVE  NodesInv'
  <1>1. /\ phase' = "split"
        /\ current_id' = current_id /\ current_clusters' = current_clusters
        /\ childs' = childs /\ same_clusters' = same_clusters
        /\ cluster_ranks' = cluster_ranks /\ in_cluster_ranks' = in_cluster_ranks
        /\ parents' = parents /\ updates' = updates
    BY DEF split_cluster_by_associates, ranking
  <1>2. TypeOK /\ Declared
    BY DEF NodesInv
  <1>3. Nodes = 1 .. Len(cluster_id) /\ Len(cluster_id) \in Nat
    BY <1>2, GraphFacts
  <1>4. cluster_id' \in [Nodes -> 0 .. Len(cluster_id)]
    BY <1>2, SplitFacts
  <1>5. cluster_id' \in Seq(Nat) /\ Len(cluster_id') = Len(cluster_id) /\ Nodes' = Nodes
    <2>1. cluster_id' \in [1 .. Len(cluster_id) -> Nat]
      BY <1>3, <1>4
    <2> QED
      BY <1>3, <2>1 DEF Nodes
  <1>6. \A n \in Nodes : cluster_id'[n] \in 0 .. Len(cluster_id)
    BY <1>4
  <1>7. TypeOK'
    BY <1>1, <1>2, <1>5, <1>6 DEF TypeOK
  <1>8. Declared'
    BY <1>1, <1>2, <1>5 DEF Declared
  <1>9. NoClusterCycle'
    BY <1>2, SplitAcyclic
  <1> QED
    BY <1>1, <1>7, <1>8, <1>9 DEF NodesInv, Building, InClusterRanksExact

\* What a ranking loop leaves of the invariant to show.
LEMMA BuildingKeepsGraph ==
    ASSUME NodesInv, phase # "describing", phase' # "describing", UNCHANGED describing
    PROVE  /\ Declared' /\ NoClusterCycle'
           /\ Nodes' = Nodes /\ ClusterIds' = ClusterIds
           /\ ClusterEdges' = ClusterEdges /\ InnerEdges' = InnerEdges
  <1>1. /\ cluster_id' = cluster_id /\ childs' = childs
        /\ current_id' = current_id /\ current_clusters' = current_clusters
    BY DEF describing
  <1>2. /\ Nodes' = Nodes /\ ClusterIds' = ClusterIds
        /\ ClusterEdges' = ClusterEdges /\ InnerEdges' = InnerEdges
    BY <1>1 DEF Nodes, ClusterIds, ClusterEdges, InnerEdges
  <1>3. Declared'
    BY <1>1 DEF NodesInv, Declared
  <1>4. NoClusterCycle'
    BY <1>2 DEF NodesInv, NoClusterCycle
  <1> QED
    BY <1>2, <1>3, <1>4

\* What RankingLoop says of the types.
LEMMA RankingTyped ==
    ASSUME NEW V, IsFiniteSet(V), NEW max \in Nat, Cardinality(V) <= max,
           NEW E, NEW R, NEW P, NEW U, RankingLoop(V, E, R, P, U)
    PROVE  /\ \A v \in DOMAIN R : R[v] \in 0 .. max
           /\ \A v \in DOMAIN P : P[v] \subseteq DOMAIN P
           /\ IsInjective(U) /\ ToSet(U) \subseteq DOMAIN P
  <1> DEFINE done == Ranked(V, P, U)
  <1>1. /\ R \in [V -> Nat] /\ P \in [V -> SUBSET V] /\ U \in Seq(V) /\ IsInjective(U)
        /\ \A v \in V : R[v] <= Cardinality(done)
    BY DEF RankingLoop
  <1>2. done \subseteq V
    BY DEF Ranked
  <1> HIDE DEF done
  <1>3. Cardinality(done) \in Nat /\ Cardinality(V) \in Nat /\ Cardinality(done) <= Cardinality(V)
    BY <1>2, FS_Subset, FS_CardinalityType
  <1>4. ASSUME NEW v \in V PROVE R[v] \in 0 .. max
    <2>1. R[v] \in Nat /\ R[v] <= Cardinality(done)
      BY <1>1
    <2> QED
      BY <1>3, <2>1
  <1>5. ToSet(U) \subseteq V
    BY <1>1 DEF ToSet
  <1> QED
    BY <1>1, <1>4, <1>5

\* The types while a loop runs over the clusters or the nodes.
LEMMA BuildingTyped ==
    ASSUME NodesInv, phase \in {"split", "cluster_ranks", "in_cluster_ranks"},
           phase' \in {"cluster_ranks", "in_cluster_ranks"}, UNCHANGED describing,
           NEW V \in {ClusterIds, Nodes}, NEW E, NEW R, RankingLoop(V, E, R, parents', updates'),
           \/ cluster_ranks' = R /\ in_cluster_ranks' = in_cluster_ranks
           \/ in_cluster_ranks' = R /\ cluster_ranks' = cluster_ranks
    PROVE  TypeOK'
  <1>1. TypeOK /\ Declared
    BY DEF NodesInv
  <1>2. /\ cluster_id' = cluster_id /\ childs' = childs /\ same_clusters' = same_clusters
        /\ current_id' = current_id /\ current_clusters' = current_clusters /\ Nodes' = Nodes
    BY DEF describing, Nodes
  <1>3. IsFiniteSet(V) /\ Cardinality(V) \in Nat /\ Cardinality(V) <= MaxNodes /\ MaxNodes \in Nat
    <2>1. /\ IsFiniteSet(V) /\ Cardinality(V) <= Len(cluster_id)
          /\ Len(cluster_id) \in Nat /\ Len(cluster_id) <= MaxNodes /\ MaxNodes \in Nat
      BY <1>1, GraphFacts, BoundsAssumption DEF TypeOK
    <2>2. Cardinality(V) \in Nat
      BY <2>1, FS_CardinalityType
    <2> QED
      BY <2>1, <2>2
  <1>4. /\ \A v \in DOMAIN R : R[v] \in 0 .. MaxNodes
        /\ \A v \in DOMAIN parents' : parents'[v] \subseteq DOMAIN parents'
        /\ IsInjective(updates') /\ ToSet(updates') \subseteq DOMAIN parents'
    BY <1>3, RankingTyped
  <1>5. /\ \A c \in DOMAIN cluster_ranks' : cluster_ranks'[c] \in 0 .. MaxNodes
        /\ \A n \in DOMAIN in_cluster_ranks' : in_cluster_ranks'[n] \in 0 .. MaxNodes
    BY <1>1, <1>4 DEF TypeOK
  <1> QED
    BY <1>1, <1>2, <1>4, <1>5 DEF TypeOK

\* A loop starts from an ascending stack.
LEMMA StackStarts ==
    ASSUME NEW V \in SUBSET Nat, IsFiniteSet(V), NEW S \in SUBSET V
    PROVE  /\ Ascending(S) \in Seq(V) /\ IsInjective(Ascending(S)) /\ ToSet(Ascending(S)) = S
  <1>1. S \in SUBSET Nat /\ IsFiniteSet(S)
    BY FS_Subset
  <1>2. Ascending(S) \in SetToSeqs(S)
    BY <1>1, AscendingOrder
  <1>3. Ascending(S) \in Seq(S) /\ IsInjective(Ascending(S)) /\ ToSet(Ascending(S)) = S
    BY <1>1, <1>2, OrderFacts
  <1>4. Ascending(S) \in Seq(V)
    BY <1>3, SeqMonotonic
  <1> QED
    BY <1>3, <1>4

\* generate_cluster_ranks begins.
LEMMA StartClusterRanksKeeps ==
    ASSUME NodesInv, StartClusterRanks
    PROVE  NodesInv'
  <1>1. /\ phase = "split" /\ phase' = "cluster_ranks" /\ UNCHANGED describing
        /\ in_cluster_ranks' = in_cluster_ranks
        /\ cluster_ranks' = [c \in ClusterIds |-> 0]
        /\ parents' = [c \in ClusterIds |-> {p \in ClusterIds : <<p, c>> \in ClusterEdges}]
        /\ updates' = Ascending({c \in ClusterIds : \A e \in ClusterEdges : e[2] # c})
    BY DEF StartClusterRanks
  <1>2. /\ ClusterIds \in SUBSET Nat /\ IsFiniteSet(ClusterIds)
        /\ ClusterEdges \in SUBSET (ClusterIds \X ClusterIds)
    BY GraphFacts DEF NodesInv
  <1>3. /\ updates' \in Seq(ClusterIds) /\ IsInjective(updates')
        /\ ToSet(updates') = {c \in ClusterIds : \A e \in ClusterEdges : e[2] # c}
    BY <1>1, <1>2, StackStarts
  <1>4. RankingLoop(ClusterIds, ClusterEdges, cluster_ranks', parents', updates')
    <2>1. RankingLoop(ClusterIds, ClusterEdges, NoRanks(ClusterIds),
                      ParentsIn(ClusterIds, ClusterEdges), updates')
      BY <1>2, <1>3, RankingStarts
    <2> QED
      BY <1>1, <2>1 DEF NoRanks, ParentsIn
  <1>5. TypeOK'
    BY <1>1, <1>4, BuildingTyped
  <1> QED
    BY <1>1, <1>4, <1>5, BuildingKeepsGraph DEF NodesInv, Building, InClusterRanksExact

\* A turn of its loop.
LEMMA RankClusterKeeps ==
    ASSUME NodesInv, RankCluster
    PROVE  NodesInv'
  <1> DEFINE u == Last(updates)
             freed == FreedBy(ClusterIds, ClusterEdges, parents, u)
             F == Ascending(freed)
  <1>1. /\ phase = "cluster_ranks" /\ phase' = phase /\ UNCHANGED describing
        /\ in_cluster_ranks' = in_cluster_ranks /\ updates # <<>>
    BY DEF RankCluster
  <1>2. /\ ClusterIds \in SUBSET Nat /\ IsFiniteSet(ClusterIds)
        /\ ClusterEdges \in SUBSET (ClusterIds \X ClusterIds)
    BY GraphFacts DEF NodesInv
  <1>3. RankingLoop(ClusterIds, ClusterEdges, cluster_ranks, parents, updates)
    BY <1>1 DEF NodesInv, Building
  <1>4. DOMAIN parents = ClusterIds
    BY <1>3 DEF RankingLoop
  <1>5. /\ cluster_ranks' = Lifted(cluster_ranks, ClusterEdges, u)
        /\ parents' = ParentsWithout(ClusterIds, ClusterEdges, parents, u)
        /\ updates' = Front(updates) \o F
    BY <1>4 DEF RankCluster, Without, Freed, ParentsWithout, FreedBy
  <1>6. F \in Seq(ClusterIds) /\ IsInjective(F) /\ ToSet(F) = freed
    <2>1. freed \in SUBSET ClusterIds
      BY DEF FreedBy
    <2> HIDE DEF freed
    <2> QED
      BY <1>2, <2>1, StackStarts
  <1> HIDE DEF F
  <1>7. RankingLoop(ClusterIds, ClusterEdges, cluster_ranks', parents', updates')
    <2>1. RankingLoop(ClusterIds, ClusterEdges, Lifted(cluster_ranks, ClusterEdges, u),
                      ParentsWithout(ClusterIds, ClusterEdges, parents, u), Front(updates) \o F)
      BY <1>1, <1>2, <1>3, <1>6, RankingTurns
    <2> QED
      BY <1>5, <2>1
  <1>8. TypeOK'
    BY <1>1, <1>7, BuildingTyped
  <1> QED
    BY <1>1, <1>7, <1>8, BuildingKeepsGraph DEF NodesInv, Building, InClusterRanksExact

\* When it has ended, clusters without edges inside are ranked above their parents.
LEMMA ClustersAreRanked ==
    ASSUME NodesInv, phase = "cluster_ranks", updates = <<>>
    PROVE  ClustersRanked
  <1>1. RankingLoop(ClusterIds, ClusterEdges, cluster_ranks, parents, <<>>)
    BY DEF NodesInv, Building
  <1>2. ClusterEdges \subseteq ClusterIds \X ClusterIds
    BY GraphFacts DEF NodesInv
  <1>3. \A v \in ClusterIds : cluster_ranks[v] \in Nat
    BY <1>1 DEF RankingLoop
  <1> SUFFICES ASSUME NEW e \in ClusterEdges, NEW S \in SUBSET ClusterIds, e[1] \in S, Ancestry(S),
                      \A c \in S : <<c, c>> \notin ClusterEdges
               PROVE  cluster_ranks[e[1]] < cluster_ranks[e[2]]
    BY DEF ClustersRanked
  <1>4. \A p, v \in ClusterIds : <<p, v>> \in ClusterEdges /\ v \in S => p \in S
    BY DEF Ancestry
  <1>5. ASSUME NEW X \in SUBSET S, X # {}
        PROVE  \E v \in X : \A p \in X : <<p, v>> \notin ClusterEdges
    <2>1. PICK v \in X : \A p \in X \ {v} : <<p, v>> \notin ClusterEdges
      <3>1. X \in SUBSET ClusterIds
        OBVIOUS
      <3> QED
        BY <1>5, <3>1 DEF NodesInv, NoClusterCycle
    <2> QED
      BY <2>1
  <1>6. \A p, v \in ClusterIds :
          <<p, v>> \in ClusterEdges /\ p \in S => cluster_ranks[p] + 1 <= cluster_ranks[v]
    BY <1>1, <1>4, <1>5, RankingEnds
  <1>7. e = <<e[1], e[2]>> /\ e[1] \in ClusterIds /\ e[2] \in ClusterIds
    BY <1>2
  <1>8. cluster_ranks[e[1]] + 1 <= cluster_ranks[e[2]]
    BY <1>6, <1>7
  <1> QED
    BY <1>3, <1>7, <1>8

\* generate_in_cluster_ranks begins.
LEMMA StartInClusterRanksKeeps ==
    ASSUME NodesInv, StartInClusterRanks
    PROVE  NodesInv'
  <1>1. /\ phase = "cluster_ranks" /\ phase' = "in_cluster_ranks" /\ UNCHANGED describing
        /\ updates = <<>> /\ cluster_ranks' = cluster_ranks
        /\ in_cluster_ranks' = [n \in Nodes |-> 0]
        /\ parents' = [n \in Nodes |-> {p \in Nodes : <<p, n>> \in InnerEdges}]
        /\ updates' = Ascending({n \in Nodes : \A e \in InnerEdges : e[2] # n})
    BY DEF StartInClusterRanks
  <1>2. /\ Nodes \in SUBSET Nat /\ IsFiniteSet(Nodes)
        /\ InnerEdges \in SUBSET (Nodes \X Nodes)
    BY GraphFacts DEF NodesInv
  <1>3. /\ updates' \in Seq(Nodes) /\ IsInjective(updates')
        /\ ToSet(updates') = {n \in Nodes : \A e \in InnerEdges : e[2] # n}
    BY <1>1, <1>2, StackStarts
  <1>4. RankingLoop(Nodes, InnerEdges, in_cluster_ranks', parents', updates')
    <2>1. RankingLoop(Nodes, InnerEdges, NoRanks(Nodes), ParentsIn(Nodes, InnerEdges), updates')
      BY <1>2, <1>3, RankingStarts
    <2> QED
      BY <1>1, <2>1 DEF NoRanks, ParentsIn
  <1>5. TypeOK'
    BY <1>1, <1>4, BuildingTyped
  <1>6. ClustersRanked'
    <2>1. ClustersRanked
      BY <1>1, ClustersAreRanked
    <2> QED
      BY <1>1, <2>1, BuildingKeepsGraph DEF ClustersRanked, Ancestry
  <1> QED
    BY <1>1, <1>4, <1>5, <1>6, BuildingKeepsGraph DEF NodesInv, Building, InClusterRanksExact

\* A turn of its loop.
LEMMA RankNodeKeeps ==
    ASSUME NodesInv, RankNode
    PROVE  NodesInv'
  <1> DEFINE u == Last(updates)
             freed == FreedBy(Nodes, InnerEdges, parents, u)
  <1>1. /\ phase = "in_cluster_ranks" /\ phase' = phase /\ UNCHANGED describing
        /\ cluster_ranks' = cluster_ranks /\ updates # <<>>
    BY DEF RankNode
  <1>2. /\ Nodes \in SUBSET Nat /\ IsFiniteSet(Nodes)
        /\ InnerEdges \in SUBSET (Nodes \X Nodes)
    BY GraphFacts DEF NodesInv
  <1>3. RankingLoop(Nodes, InnerEdges, in_cluster_ranks, parents, updates)
    BY <1>1 DEF NodesInv, Building
  <1>4. DOMAIN parents = Nodes
    BY <1>3 DEF RankingLoop
  <1>5. /\ in_cluster_ranks' = Lifted(in_cluster_ranks, InnerEdges, u)
        /\ parents' = ParentsWithout(Nodes, InnerEdges, parents, u)
        /\ \E F \in SetToSeqs(freed) : updates' = Front(updates) \o F
    BY <1>4 DEF RankNode, Without, Freed, ParentsWithout, FreedBy
  <1>6. PICK F \in SetToSeqs(freed) : updates' = Front(updates) \o F
    BY <1>5
  <1>7. F \in Seq(Nodes) /\ IsInjective(F) /\ ToSet(F) = freed
    <2>1. freed \subseteq Nodes /\ IsFiniteSet(freed)
      BY <1>2, FS_Subset DEF FreedBy
    <2>2. F \in Seq(freed) /\ IsInjective(F) /\ ToSet(F) = freed
      BY <2>1, OrderFacts
    <2>3. F \in Seq(Nodes)
      BY <2>1, <2>2, SeqMonotonic
    <2> QED
      BY <2>2, <2>3
  <1>8. RankingLoop(Nodes, InnerEdges, in_cluster_ranks', parents', updates')
    <2>1. RankingLoop(Nodes, InnerEdges, Lifted(in_cluster_ranks, InnerEdges, u),
                      ParentsWithout(Nodes, InnerEdges, parents, u), Front(updates) \o F)
      BY <1>1, <1>2, <1>3, <1>7, RankingTurns
    <2> QED
      BY <1>5, <1>6, <2>1
  <1>9. TypeOK'
    BY <1>1, <1>8, BuildingTyped
  <1>10. ClustersRanked'
    BY <1>1, BuildingKeepsGraph DEF NodesInv, Building, ClustersRanked, Ancestry
  <1> QED
    BY <1>1, <1>8, <1>9, <1>10, BuildingKeepsGraph DEF NodesInv, Building, InClusterRanksExact

\* When it has ended, every node is ranked above its parents: edges lead to younger nodes.
LEMMA NodesAreRanked ==
    ASSUME NodesInv, phase = "in_cluster_ranks", updates = <<>>, NEW n \in Nodes,
           NEW above,
           above = {in_cluster_ranks[p] + 1 : p \in {m \in Nodes : <<m, n>> \in InnerEdges}}
    PROVE  /\ in_cluster_ranks[n] \in above \cup {0}
           /\ \A r \in above : r <= in_cluster_ranks[n]
  <1>1. RankingLoop(Nodes, InnerEdges, in_cluster_ranks, parents, <<>>)
    BY DEF NodesInv, Building
  <1>2. Nodes \in SUBSET Nat
    BY GraphFacts DEF NodesInv
  <1>3. ASSUME NEW X \in SUBSET Nodes, X # {}
        PROVE  \E v \in X : \A p \in X : <<p, v>> \notin InnerEdges
    <2>1. PICK v \in X : \A p \in X : v <= p
      BY <1>2, <1>3, LeastNat
    <2>2. ASSUME NEW p \in X, <<p, v>> \in InnerEdges PROVE FALSE
      <3>1. p < v
        BY <2>2 DEF NodesInv, TypeOK, InnerEdges
      <3>2. p \in Nat /\ v \in Nat /\ v <= p
        BY <1>2, <2>1
      <3> QED
        BY <3>1, <3>2
    <2> QED
      BY <2>2
  <1>4. \A p \in Nodes : <<p, n>> \in InnerEdges => in_cluster_ranks[p] + 1 <= in_cluster_ranks[n]
    <2> DEFINE S == Nodes
    <2>1. S \in SUBSET Nodes /\ \A p, v \in Nodes : <<p, v>> \in InnerEdges /\ v \in S => p \in S
      OBVIOUS
    <2>2. \A X \in SUBSET S : X # {} => \E v \in X : \A p \in X : <<p, v>> \notin InnerEdges
      BY <1>3
    <2> HIDE DEF S
    <2>3. \A p, v \in Nodes :
            <<p, v>> \in InnerEdges /\ p \in S => in_cluster_ranks[p] + 1 <= in_cluster_ranks[v]
      BY <1>1, <2>1, <2>2, RankingEnds
    <2> QED
      BY <2>3 DEF S
  <1>5. \/ in_cluster_ranks[n] = 0
        \/ \E p \in Nodes : <<p, n>> \in InnerEdges /\ in_cluster_ranks[n] = in_cluster_ranks[p] + 1
    BY <1>1 DEF RankingLoop, Ranked
  <1> QED
    BY <1>4, <1>5

\* build returns.
LEMMA ReturnKeeps ==
    ASSUME NodesInv, Return
    PROVE  NodesInv'
  <1>1. /\ phase = "in_cluster_ranks" /\ phase' = "built" /\ UNCHANGED describing
        /\ updates = <<>>
        /\ cluster_ranks' = cluster_ranks /\ in_cluster_ranks' = in_cluster_ranks
        /\ parents' = parents /\ updates' = updates
    BY DEF Return, ranking
  <1>2. /\ Nodes' = Nodes /\ InnerEdges' = InnerEdges
        /\ ClusterIds' = ClusterIds /\ ClusterEdges' = ClusterEdges
    BY <1>1, BuildingKeepsGraph
  <1>3. TypeOK'
    <2>1. TypeOK
      BY DEF NodesInv
    <2>2. /\ cluster_id' = cluster_id /\ childs' = childs /\ same_clusters' = same_clusters
          /\ current_id' = current_id /\ current_clusters' = current_clusters
      BY <1>1 DEF describing
    <2> QED
      BY <1>1, <1>2, <2>1, <2>2 DEF TypeOK
  <1>4. InClusterRanksExact'
    <2>1. InClusterRanksExact' =
            \A n \in Nodes :
              LET above == {in_cluster_ranks[p] + 1 : p \in {m \in Nodes : <<m, n>> \in InnerEdges}}
              IN  /\ in_cluster_ranks[n] \in above \cup {0}
                  /\ \A r \in above : r <= in_cluster_ranks[n]
      BY <1>1, <1>2 DEF InClusterRanksExact
    <2> QED
      BY <1>1, <2>1, NodesAreRanked
  <1>5. ClustersRanked'
    BY <1>1, <1>2 DEF NodesInv, Building, ClustersRanked, Ancestry
  <1> QED
    BY <1>1, <1>3, <1>4, <1>5, BuildingKeepsGraph DEF NodesInv, Building

\* Every step keeps the invariant.
LEMMA NodesNext == NodesInv /\ [Next]_vars => NodesInv'
  <1> SUFFICES ASSUME NodesInv, [Next]_vars PROVE NodesInv'
    OBVIOUS
  <1>1. CASE EnterCluster \/ ExitCluster
    BY <1>1, ClusterKeeps
  <1>2. CASE NewSink \/ NewNode
    BY <1>2, NodeKeeps
  <1>3. CASE Loop
    BY <1>3, LoopKeeps
  <1>4. CASE split_cluster_by_associates
    BY <1>4, SplitKeeps
  <1>5. CASE StartClusterRanks
    BY <1>5, StartClusterRanksKeeps
  <1>6. CASE RankCluster
    BY <1>6, RankClusterKeeps
  <1>7. CASE StartInClusterRanks
    BY <1>7, StartInClusterRanksKeeps
  <1>8. CASE RankNode
    BY <1>8, RankNodeKeeps
  <1>9. CASE Return
    BY <1>9, ReturnKeeps
  <1>10. CASE UNCHANGED vars
    <2>1. /\ phase' = phase /\ describing' = describing /\ ranking' = ranking
      BY <1>10 DEF vars
    <2>2. /\ current_id' = current_id /\ current_clusters' = current_clusters
          /\ cluster_id' = cluster_id /\ childs' = childs /\ same_clusters' = same_clusters
          /\ cluster_ranks' = cluster_ranks /\ in_cluster_ranks' = in_cluster_ranks
          /\ parents' = parents /\ updates' = updates
      BY <2>1 DEF describing, ranking
    <2>3. Nodes' = Nodes /\ ClusterIds' = ClusterIds /\ ClusterEdges' = ClusterEdges
          /\ InnerEdges' = InnerEdges
      BY <2>2 DEF Nodes, ClusterIds, ClusterEdges, InnerEdges
    <2>4. TypeOK' /\ Declared'
      BY <2>1, <2>2, <2>3 DEF NodesInv, TypeOK, Declared
    <2>5. NoClusterCycle' /\ InClusterRanksExact'
      BY <2>1, <2>2, <2>3 DEF NodesInv, NoClusterCycle, InClusterRanksExact
    <2>6. Building'
      BY <2>1, <2>2, <2>3 DEF NodesInv, Building, ClustersRanked, Ancestry
    <2> QED
      BY <2>4, <2>5, <2>6 DEF NodesInv
  <1> QED
    BY <1>1, <1>2, <1>3, <1>4, <1>5, <1>6, <1>7, <1>8, <1>9, <1>10 DEF Next

\* So it always holds.
LEMMA NodesCorrect == Spec => []NodesInv
  BY NodesInit, NodesNext, PTL DEF Spec

-----------------------------------------------------------------------------
(* The theorems.                                                           *)

\* Every variable has its type, and the stack of a ranking loop holds no vertex twice
\* (node.cpp:147-169, 194-219).
THEOREM NodeTypes == Spec => []TypeOK
  <1>1. NodesInv => TypeOK
    BY DEF NodesInv
  <1> QED
    BY <1>1, NodesCorrect, PTL

\* Whatever clusters a program declares, build makes none that is above itself through
\* another (cluster.cpp:17-35, node.cpp:29-36, 51-61).
THEOREM ClustersWithoutCycle == Spec => []NoClusterCycle
  <1>1. NodesInv => NoClusterCycle
    BY DEF NodesInv
  <1> QED
    BY <1>1, NodesCorrect, PTL

\* The rank of a node is the length of the longest chain of parents in its cluster, in
\* whatever order the loop takes the nodes (node.cpp:172-220).
THEOREM InClusterRanks == Spec => []InClusterRanksExact
  <1>1. NodesInv => InClusterRanksExact
    BY DEF NodesInv
  <1> QED
    BY <1>1, NodesCorrect, PTL

\* A cluster none of whose ancestors has an edge inside ranks below its children
\* (node.cpp:127-170).
THEOREM PlainClusterRanks == Spec => []PlainClustersRanked
  <1>1. NodesInv => PlainClustersRanked
    BY DEF NodesInv, Building, PlainClustersRanked, ClustersRanked
  <1> QED
    BY <1>1, NodesCorrect, PTL

\* build puts nodes in one cluster exactly if a chain of associates joins them, in whatever
\* order they are merged, and keeps the sinks apart (node.cpp:45-125, union_find.cpp:10-25).
THEOREM SplitCorrect == Spec => SplitByAssociates
  <1> DEFINE Right ==
        /\ \A a, b \in Nodes : cluster_id'[a] = cluster_id'[b] <=> Together(a, b)
        /\ Sinks # {} =>
             \A n \in Nodes : cluster_id'[n] = UNMANAGED_CLUSTER_ID <=> n \in Sinks
  <1>1. NodesInv /\ [Next]_vars => [phase = "describing" /\ phase' = "split" => Right]_vars
    <2> SUFFICES ASSUME NodesInv, [Next]_vars, phase = "describing", phase' = "split"
                 PROVE  Right
      OBVIOUS
    <2>1. split_cluster_by_associates
      BY DEF Next, vars, EnterCluster, ExitCluster, NewSink, NewNode, Loop, StartClusterRanks,
             RankCluster, StartInClusterRanks, RankNode, Return
    <2> QED
      BY <2>1, SplitFacts DEF NodesInv
  <1> QED
    BY <1>1, NodesCorrect, PTL DEF Spec, SplitByAssociates

=============================================================================
