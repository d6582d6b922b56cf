---------------------------- MODULE ValuesProofs ----------------------------
(***************************************************************************)
(* Theorems about Values, for every built graph and any number of          *)
(* transactions.                                                           *)
(***************************************************************************)
EXTENDS Values, SetInduction

-----------------------------------------------------------------------------
(* What the transactions of a run have in common.                          *)

\* Transaction t can still change what its nodes are.
Running(t) == phase[t] \in {"open", "submitted"}

\* The end of transaction t has begun.
Over(t) == phase[t] \in {"refreshing", "woken", "done"}

\* The transaction of build is there from the start; the Executor hears of
\* transactions in their order, and ends one after the other.
Order ==
    /\ phase[0] \notin {"none", "open"}
    /\ \A t \in registered : phase[t] # "none"
    /\ \A t \in registered, s \in Transactions : s < t => s \in registered
    /\ \A s, r \in Transactions : r < s /\ Over(s) => phase[r] = "done"

\* A value is owed to the end of its transaction, or it survived it: then it is a
\* cell's, and the cell has no older one.
Stored ==
    /\ \A n \in Nodes \ GlobalLoopers, t \in Transactions : values[n][t] # Absent =>
         /\ phase[t] # "none"
         /\ \/ n \in cleanups[t]
            \/ Over(t) /\ n \in Cells /\ \A k \in 0 .. (t - 1) : values[n][k] = Absent
    /\ \A g \in GlobalLoopers, t \in Transactions : values[g][t] # Absent => t \in registered

\* What is registered for the end of a transaction has a value in it.
Owed ==
    \A t \in Transactions : \A n \in cleanups[t] :
        /\ values[n][t] # Absent
        /\ Running(t) \/ phase[t] = "refreshing"

\* What is to be updated listens to something that has a value.
Triggered ==
    \A t \in Transactions : \A n \in targets[t] :
        /\ Running(t)
        /\ \E m \in Listened(n) : values[m][t] # Absent

ValuesInv == Order /\ Stored /\ Owed /\ Triggered /\ NoFailure

-----------------------------------------------------------------------------
(* Graphs.                                                                 *)

\* Transactions are numbered from 0.
LEMMA TransactionsNat ==
    /\ Transactions \subseteq Nat
    /\ 0 \in Transactions
    /\ \A t \in Transactions : 0 .. t \subseteq Transactions
    /\ \A s, t \in Transactions : s < t <=> s \in 0 .. (t - 1)
  BY GraphTyped DEF Transactions

\* The arguments of a node are nodes, what it listens to is one of them, and a sink
\* listens to none.
LEMMA ArgsFacts ==
    ASSUME NEW n \in Nodes
    PROVE  /\ Args[n] \in Seq(Nodes)
           /\ \A i \in DOMAIN Args[n] : Args[n][i] \in Nodes
           /\ Range(Args[n]) \subseteq Nodes
           /\ Listened(n) \subseteq Range(Args[n])
           /\ n \in Sinks => Listened(n) = {}
  <1>1. Args[n] \in Seq(Nodes) /\ \A i \in DOMAIN Args[n] : Args[n][i] \in Nodes
    BY GraphTyped
  <1>2. Range(Args[n]) \subseteq Nodes
    BY <1>1 DEF Range
  <1>3. Listened(n) \subseteq Range(Args[n])
    <2>1. CASE Operation[n] \in {"snapshot", "gate"}
      <3>1. Len(Args[n]) >= 2
        BY <1>1, <2>1, ArgsTyped
      <3>2. 1 \in DOMAIN Args[n]
        BY <1>1, <3>1
      <3> QED
        BY <2>1, <3>2 DEF Listened, Range
    <2>2. CASE Operation[n] \notin {"snapshot", "gate"}
      BY <2>2 DEF Listened
    <2> QED
      BY <2>1, <2>2
  <1>4. n \in Sinks => Listened(n) = {}
    BY ArgsTyped DEF Listened, Range, Sinks
  <1> QED
    BY <1>1, <1>2, <1>3, <1>4

-----------------------------------------------------------------------------
(* Sampling.                                                               *)

ValuesTyped == values \in [Nodes -> [Transactions -> Value \cup {Absent}]]

\* The value of transaction t is a node's sample in it.
LEMMA SampleDefined ==
    ASSUME ValuesTyped, NEW n \in Nodes, NEW t \in Transactions
    PROVE  /\ Sample(n, t) \in Value \cup {Absent}
           /\ values[n][t] # Absent => Sample(n, t) # Absent
  <1> DEFINE keys == {k \in 0 .. t : values[n][k] # Absent}
  <1>1. t \in Nat /\ 0 .. t \subseteq Transactions
    BY TransactionsNat
  <1>2. \A k \in 0 .. t : values[n][k] \in Value \cup {Absent}
    BY <1>1 DEF ValuesTyped
  <1>3. CASE n \in Cells
    <2>1. Sample(n, t) = IF keys = {} THEN Absent ELSE values[n][Max(keys)]
      BY <1>3 DEF Sample, CellSample
    <2>2. keys # {} => Max(keys) \in keys
      BY <1>1, MaxOf
    <2>3. values[n][t] # Absent => keys # {}
      BY <1>1
    <2> QED
      BY <1>2, <2>1, <2>2, <2>3
  <1>4. CASE n \notin Cells
    BY <1>1, <1>2, <1>4 DEF Sample, StreamSample
  <1> QED
    BY <1>3, <1>4

\* What a node's sample depends on: a cell's on its values from any one on, a
\* stream's on that of the transaction.
LEMMA SampleKept ==
    ASSUME NEW n \in Nodes, NEW t \in Transactions,
           NEW s \in 0 .. t,
           n \in Cells => s = 0 \/ values[n][s] # Absent,
           \A k \in s .. t : values'[n][k] = values[n][k]
    PROVE  Sample(n, t)' = Sample(n, t)
  <1> DEFINE keys == {k \in 0 .. t : values[n][k] # Absent}
             later == {k \in 0 .. t : values'[n][k] # Absent}
  <1>1. t \in Nat /\ s \in Nat /\ s <= t
    BY TransactionsNat
  <1>2. CASE n \in Cells
    <2>1. Sample(n, t) = IF keys = {} THEN Absent ELSE values[n][Max(keys)]
      BY <1>2 DEF Sample, CellSample
    <2>2. Sample(n, t)' = IF later = {} THEN Absent ELSE values'[n][Max(later)]
      BY <1>2 DEF Sample, CellSample
    <2>3. CASE s = 0
      <3>1. keys = later
        BY <1>1, <2>3
      <3>2. keys # {} => Max(keys) \in 0 .. t
        BY <1>1, MaxOf
      <3> HIDE DEF keys, later
      <3> QED
        BY <2>1, <2>2, <2>3, <3>1, <3>2
    <2>4. CASE values[n][s] # Absent
      <3>1. s \in keys /\ s \in later
        BY <1>1, <2>4
      <3>2. /\ Max(keys) \in keys /\ Max(keys) >= s
            /\ \A k \in keys : k <= Max(keys)
        BY <1>1, <3>1, MaxOf
      <3>3. /\ Max(later) \in later /\ Max(later) >= s
            /\ \A k \in later : k <= Max(later)
        BY <1>1, <3>1, MaxOf
      <3>4. Max(keys) \in later /\ Max(later) \in keys
        <4>1. \A k \in s .. t : k \in keys <=> k \in later
          BY <1>1
        <4>2. Max(keys) \in s .. t /\ Max(later) \in s .. t
          BY <1>1, <3>2, <3>3
        <4> HIDE DEF keys, later
        <4> QED
          BY <3>2, <3>3, <4>1, <4>2
      <3>5. Max(keys) = Max(later)
        <4>1. Max(keys) \in 0 .. t /\ Max(later) \in 0 .. t
          BY <3>2, <3>3
        <4>2. Max(keys) <= Max(later) /\ Max(later) <= Max(keys)
          BY <3>2, <3>3, <3>4
        <4> HIDE DEF keys, later
        <4> QED
          BY <1>1, <4>1, <4>2
      <3>6. Max(keys) \in s .. t
        BY <1>1, <3>2
      <3> HIDE DEF keys, later
      <3> QED
        BY <2>1, <2>2, <3>1, <3>5, <3>6
    <2> QED
      BY <1>2, <2>3, <2>4
  <1>3. CASE n \notin Cells
    BY <1>1, <1>3 DEF Sample, StreamSample
  <1> QED
    BY <1>2, <1>3

\* A node that has what it listens to for its first argument.
LEMMA FirstArg ==
    ASSUME ValuesTyped, NEW n \in Nodes, NEW t \in Transactions,
           \E m \in Listened(n) : values[m][t] # Absent
    PROVE  /\ \A i \in DOMAIN Args[n] : Arg(n, i, t) \in Value \cup {Absent}
           /\ (Len(Args[n]) <= 1 \/ Operation[n] \in {"snapshot", "gate"}) =>
                 /\ 1 \in DOMAIN Args[n]
                 /\ values[Args[n][1]][t] # Absent
                 /\ Arg(n, 1, t) \in Value
                 /\ UnsafeArg(n, 1, t) = Arg(n, 1, t)
  <1>1. \A i \in DOMAIN Args[n] :
          /\ Arg(n, i, t) \in Value \cup {Absent}
          /\ values[Args[n][i]][t] # Absent => Arg(n, i, t) # Absent
    BY ArgsFacts, SampleDefined DEF Arg
  <1>2. PICK m \in Listened(n) : values[m][t] # Absent
    OBVIOUS
  <1>3. Args[n] \in Seq(Nodes) /\ m \in Range(Args[n])
    BY ArgsFacts
  <1>4. PICK i \in DOMAIN Args[n] : m = Args[n][i]
    BY <1>3 DEF Range
  <1>5. ASSUME Len(Args[n]) <= 1 \/ Operation[n] \in {"snapshot", "gate"}
        PROVE  1 \in DOMAIN Args[n] /\ m = Args[n][1]
    <2>1. CASE Operation[n] \in {"snapshot", "gate"}
      BY <1>2, <1>3, <1>4, <2>1 DEF Listened
    <2>2. CASE Len(Args[n]) <= 1
      BY <1>3, <1>4, <2>2
    <2> QED
      BY <1>5, <2>1, <2>2
  <1>6. Absent \notin Value
    BY GraphTyped
  <1>7. ASSUME Len(Args[n]) <= 1 \/ Operation[n] \in {"snapshot", "gate"}
        PROVE  /\ 1 \in DOMAIN Args[n]
               /\ values[Args[n][1]][t] # Absent
               /\ Arg(n, 1, t) \in Value
               /\ UnsafeArg(n, 1, t) = Arg(n, 1, t)
    <2>1. Arg(n, 1, t) \in Value
      BY <1>1, <1>2, <1>5, <1>7
    <2>2. UnsafeArg(n, 1, t) = Arg(n, 1, t)
      BY <2>1, <1>6 DEF UnsafeArg, unsafeSample, Arg
    <2> QED
      BY <1>2, <1>5, <1>7, <2>1, <2>2
  <1> QED
    BY <1>1, <1>7

\* Given a value to listen to, no updater fails.
LEMMA UpdaterDefined ==
    ASSUME ValuesTyped, NEW n \in Nodes, NEW t \in Transactions,
           \E m \in Listened(n) : values[m][t] # Absent
    PROVE  updater(n, t) \in Value \cup {Absent}
  <1>1. Args[n] \in Seq(Nodes)
    BY ArgsFacts
  <1>2. \A i \in DOMAIN Args[n] : Arg(n, i, t) \in Value \cup {Absent}
    BY FirstArg
  <1>3. \A args \in [DOMAIN Args[n] -> Value] : UserFunction(n, args) \in Value
    BY FunctionTyped
  <1>4. Absent \notin Value /\ Failure \notin Value \cup {Absent}
    BY GraphTyped, FailureDistinct
  <1>5. CASE Operation[n] \in {"cell_map", "stream_map"}
    <2> Len(Args[n]) = 1
      BY <1>5, ArgsTyped
    <2>1. Len(Args[n]) <= 1
      OBVIOUS
    <2>2. UnsafeArg(n, 1, t) = Arg(n, 1, t) /\ Arg(n, 1, t) \in Value
      BY <2>1, FirstArg
    <2>3. <<Arg(n, 1, t)>> \in [DOMAIN Args[n] -> Value]
      BY <1>1, <2>2
    <2>4. MapUpdater(n, t) = UserFunction(n, <<Arg(n, 1, t)>>)
      BY <1>4, <2>2 DEF MapUpdater
    <2> QED
      BY <1>3, <1>5, <2>3, <2>4 DEF updater
  <1>6. CASE Operation[n] = "lift"
    <2> DEFINE args == [i \in DOMAIN Args[n] |-> Arg(n, i, t)]
    <2>1. Absent \notin Range(args) => args \in [DOMAIN Args[n] -> Value]
      BY <1>2 DEF Range
    <2>2. LiftUpdater(n, t) = IF Absent \in Range(args) THEN Absent ELSE UserFunction(n, args)
      BY DEF LiftUpdater
    <2>3. updater(n, t) = LiftUpdater(n, t)
      BY <1>6 DEF updater
    <2> HIDE DEF args
    <2> QED
      BY <1>3, <2>1, <2>2, <2>3
  <1>7. CASE Operation[n] \in {"hold", "cell_loop", "stream_loop"}
    <2>1. Len(Args[n]) <= 1
      BY <1>1, <1>7, ArgsTyped DEF Loopers
    <2>2. UnsafeArg(n, 1, t) \in Value
      BY <2>1, FirstArg
    <2> QED
      BY <1>7, <2>2 DEF updater, CopyUpdater
  <1>8. CASE Operation[n] = "snapshot"
    <2> DEFINE args == [i \in DOMAIN Args[n] |-> Arg(n, i, t)]
    <2>1. Absent \notin Range(args) => args \in [DOMAIN Args[n] -> Value]
      BY <1>2 DEF Range
    <2>2. 1 \in DOMAIN Args[n] /\ Arg(n, 1, t) \in Value
      BY <1>8, FirstArg
    <2>3. args[1] # Absent
      BY <1>4, <2>2
    <2>4. SnapshotUpdater(n, t) =
            IF Absent \in Range(args) THEN Absent ELSE UserFunction(n, args)
      BY <2>3 DEF SnapshotUpdater
    <2>5. updater(n, t) = SnapshotUpdater(n, t)
      BY <1>8 DEF updater
    <2> HIDE DEF args
    <2> QED
      BY <1>3, <2>1, <2>4, <2>5
  <1>9. CASE Operation[n] = "merge"
    <2>1. Len(Args[n]) = 2
      BY <1>9, ArgsTyped
    <2>2. Arg(n, 1, t) \in Value \cup {Absent} /\ Arg(n, 2, t) \in Value \cup {Absent}
      BY <1>1, <1>2, <2>1
    <2>3. Arg(n, 1, t) # Absent \/ Arg(n, 2, t) # Absent
      <3>1. PICK m \in Listened(n) : values[m][t] # Absent
        OBVIOUS
      <3>2. PICK i \in DOMAIN Args[n] : m = Args[n][i]
        BY ArgsFacts DEF Range
      <3>3. i = 1 \/ i = 2
        BY <1>1, <2>1
      <3>4. Arg(n, i, t) # Absent
        BY <3>1, <3>2, ArgsFacts, SampleDefined DEF Arg
      <3> QED
        BY <3>3, <3>4
    <2>4. Arg(n, 1, t) \in Value /\ Arg(n, 2, t) \in Value =>
            <<Arg(n, 1, t), Arg(n, 2, t)>> \in [DOMAIN Args[n] -> Value]
      BY <1>1, <2>1
    <2>5. MergeUpdater(n, t) \in Value
      BY <1>3, <1>4, <2>2, <2>3, <2>4 DEF MergeUpdater
    <2> QED
      BY <1>9, <2>5 DEF updater
  <1>10. CASE Operation[n] = "filter"
    <2> Len(Args[n]) = 1
      BY <1>10, ArgsTyped
    <2>1. Len(Args[n]) <= 1
      OBVIOUS
    <2>2. UnsafeArg(n, 1, t) \in Value
      BY <2>1, FirstArg
    <2>3. FilterUpdater(n, t) \in Value \cup {Absent}
      BY <1>4, <2>2 DEF FilterUpdater
    <2> QED
      BY <1>10, <2>3 DEF updater
  <1>11. CASE Operation[n] = "gate"
    <2>1. UnsafeArg(n, 1, t) \in Value
      BY <1>11, FirstArg
    <2>2. GateUpdater(n, t) \in Value \cup {Absent}
      BY <2>1 DEF GateUpdater
    <2> QED
      BY <1>11, <2>2 DEF updater
  <1>12. CASE Operation[n] \notin {"cell_map", "stream_map", "lift", "hold", "cell_loop",
                                  "stream_loop", "snapshot", "merge", "filter", "gate"}
    BY <1>12 DEF updater
  <1> QED
    BY <1>5, <1>6, <1>7, <1>8, <1>9, <1>10, <1>11, <1>12

-----------------------------------------------------------------------------
(* Types and ValuesInv: what each action does.                             *)

\* No sink listens.
LEMMA ListenersFacts ==
    ASSUME NEW n \in Nodes
    PROVE  /\ Listeners(n) \subseteq Nodes \ Sinks
           /\ \A m \in Listeners(n) : n \in Listened(m)
  BY ArgsFacts DEF Listeners

\* A graph has nodes of the kinds that the invariants tell apart.
LEMMA NodeFacts ==
    /\ Sinks \subseteq Nodes /\ Cells \subseteq Nodes /\ GlobalLoopers \subseteq Nodes
    /\ Loopers \subseteq Nodes
    /\ DOMAIN Initial \subseteq Nodes
    /\ \A n \in DOMAIN Initial : Initial[n] \in Value
    /\ Sent \subseteq Value /\ Absent \notin Value
    /\ Failure \notin Value \cup {Absent}
    /\ \A n \in Nodes : Cluster[n] \in Range(Cluster)
    /\ Sinks \cap GlobalLoopers = {} /\ Sinks \cap Loopers = {}
    /\ Loopers \cap GlobalLoopers = {}
    /\ GlobalLoopers \subseteq Cells
  BY GraphTyped, FailureDistinct
     DEF Sinks, Cells, GlobalLoopers, Loopers, Range, CellOperations

\* A run begins with the transaction of build.
LEMMA ValuesInit == Init => TypeOK /\ ValuesInv
  <1> SUFFICES ASSUME Init PROVE TypeOK /\ ValuesInv
    OBVIOUS
  <1> USE NodeFacts, TransactionsNat DEF Init
  <1>1. TypeOK
    <2>1. UNION {Listeners(n) : n \in DOMAIN Initial} \subseteq Nodes \ Sinks
      BY ListenersFacts
    <2>2. /\ targets \in [Transactions -> SUBSET (Nodes \ Sinks)]
          /\ left \in [Transactions -> SUBSET (Nodes \ Sinks)]
      BY <2>1
    <2>3. phase \in [Transactions -> Phases]
      BY DEF Phases
    <2>4. values \in [Nodes -> [Transactions -> Value \cup {Absent}]]
      OBVIOUS
    <2>5. /\ begun \in [Transactions -> SUBSET Range(Cluster)]
          /\ cleanups \in [Transactions -> SUBSET Nodes]
      OBVIOUS
    <2>6. heard \in [Nodes -> Seq(Transactions \X Value)]
      OBVIOUS
    <2>7. NoHooks \in [GlobalLoopers -> Value \cup {Absent}]
      BY DEF NoHooks
    <2> QED
      BY <2>2, <2>3, <2>4, <2>5, <2>6, <2>7 DEF TypeOK
  <1>2. Order
    BY DEF Order, Over
  <1>3. Stored
    BY DEF Stored
  <1>4. Owed
    BY DEF Owed, Running
  <1>5. Triggered
    <2> SUFFICES ASSUME NEW t \in Transactions, NEW m \in targets[t]
                 PROVE  Running(t) /\ \E n \in Listened(m) : values[n][t] # Absent
      BY DEF Triggered
    <2>1. t = 0
      OBVIOUS
    <2>2. PICK n \in DOMAIN Initial : m \in Listeners(n)
      BY <2>1
    <2>3. n \in Listened(m) /\ n \in Nodes
      BY <2>2, ListenersFacts
    <2>4. values[n][t] # Absent
      BY <2>1, <2>3
    <2> QED
      BY <2>1, <2>3, <2>4 DEF Running
  <1> QED
    BY <1>1, <1>2, <1>3, <1>4, <1>5 DEF ValuesInv, NoFailure

\* A user opens a transaction.
LEMMA BeginKeeps ==
    ASSUME TypeOK, ValuesInv, NEW t \in Transactions, t # 0, Begin(t)
    PROVE  TypeOK' /\ ValuesInv'
  <1> USE DEF Begin, updateVars, hookVars
  <1>1. TypeOK'
    BY DEF TypeOK, Phases
  <1>2. /\ phase[t] = "none"
        /\ \A s \in Transactions : phase'[s] = IF s = t THEN "open" ELSE phase[s]
    BY DEF TypeOK
  <1>3. Order'
    BY <1>2, TransactionsNat DEF Order, Over, ValuesInv
  <1>4. Stored'
    BY <1>2 DEF Stored, Over, ValuesInv
  <1>5. Owed'
    BY <1>2 DEF Owed, Running, ValuesInv
  <1>6. Triggered'
    BY <1>2 DEF Triggered, Running, ValuesInv
  <1> QED
    BY <1>1, <1>3, <1>4, <1>5, <1>6 DEF ValuesInv, NoFailure

\* It is submitted.
LEMMA SubmitKeeps ==
    ASSUME TypeOK, ValuesInv, NEW t \in Transactions, Submit(t)
    PROVE  TypeOK' /\ ValuesInv'
  <1> USE DEF Submit, updateVars, hookVars
  <1>1. TypeOK'
    BY DEF TypeOK, Phases
  <1>2. /\ phase[t] = "open"
        /\ \A s \in Transactions : phase'[s] = IF s = t THEN "submitted" ELSE phase[s]
    BY DEF TypeOK
  <1>3. Order'
    BY <1>2, TransactionsNat DEF Order, Over, ValuesInv
  <1>4. Stored'
    BY <1>2 DEF Stored, Over, ValuesInv
  <1>5. Owed'
    BY <1>2 DEF Owed, Running, ValuesInv
  <1>6. Triggered'
    BY <1>2 DEF Triggered, Running, ValuesInv
  <1> QED
    BY <1>1, <1>3, <1>4, <1>5, <1>6 DEF ValuesInv, NoFailure

\* A node takes a value in a transaction that is not over.
LEMMA StoreKeeps ==
    ASSUME TypeOK, ValuesInv, NEW t \in Transactions, NEW n \in Nodes \ GlobalLoopers,
           NEW v \in Value, Running(t), Store(t, n, v), UNCHANGED <<phase, registered>>
    PROVE  /\ values' \in [Nodes -> [Transactions -> Value \cup {Absent}]]
           /\ cleanups' \in [Transactions -> SUBSET Nodes]
           /\ \A m \in Nodes, s \in Transactions :
                values'[m][s] = IF m = n /\ s = t THEN v ELSE values[m][s]
           /\ Order' /\ Stored' /\ Owed'
  <1>1. values' \in [Nodes -> [Transactions -> Value \cup {Absent}]]
    BY DEF TypeOK, Store
  <1>2. \A m \in Nodes, s \in Transactions :
          values'[m][s] = IF m = n /\ s = t THEN v ELSE values[m][s]
    BY DEF TypeOK, Store
  <1>3. /\ cleanups' \in [Transactions -> SUBSET Nodes]
        /\ \A s \in Transactions :
             cleanups'[s] = IF s = t THEN cleanups[t] \cup {n} ELSE cleanups[s]
    BY DEF TypeOK, Store, Cleaned
  <1>4. Order'
    BY DEF Order, Over, ValuesInv
  <1>5. Stored'
    <2>1. ASSUME NEW m \in Nodes \ GlobalLoopers, NEW s \in Transactions,
                 values'[m][s] # Absent
          PROVE  /\ phase[s] # "none"
                 /\ \/ m \in cleanups'[s]
                    \/ /\ Over(s) /\ m \in Cells
                       /\ \A k \in 0 .. (s - 1) : values'[m][k] = Absent
      <3>1. CASE m = n /\ s = t
        BY <1>3, <3>1 DEF Running
      <3>2. CASE ~(m = n /\ s = t)
        <4>1. values[m][s] # Absent
          BY <1>2, <2>1, <3>2
        <4>2. CASE m \in cleanups[s]
          BY <1>3, <4>1, <4>2 DEF ValuesInv, Stored
        <4>3. CASE m \notin cleanups[s]
          <5>1. Over(s) /\ m \in Cells /\ \A k \in 0 .. (s - 1) : values[m][k] = Absent
            BY <4>1, <4>3 DEF ValuesInv, Stored
          <5>2. \A k \in 0 .. (s - 1) : k \in Transactions /\ phase[k] = "done"
            BY <5>1, TransactionsNat DEF ValuesInv, Order
          <5>3. t \notin 0 .. (s - 1)
            BY <5>2 DEF Running
          <5>4. \A k \in 0 .. (s - 1) : values'[m][k] = Absent
            BY <1>2, <5>1, <5>2, <5>3
          <5> QED
            BY <4>1, <5>1, <5>4 DEF ValuesInv, Stored
        <4> QED
          BY <4>2, <4>3
      <3> QED
        BY <3>1, <3>2
    <2>2. ASSUME NEW g \in GlobalLoopers, NEW s \in Transactions, values'[g][s] # Absent
          PROVE  s \in registered
      BY <1>2, <2>2, NodeFacts DEF ValuesInv, Stored
    <2> QED
      BY <2>1, <2>2 DEF Stored, Over
  <1>6. Owed'
    BY <1>2, <1>3, NodeFacts DEF Owed, Running, ValuesInv
  <1> QED
    BY <1>1, <1>2, <1>3, <1>4, <1>5, <1>6

\* A user sends to a sink.
LEMMA SendKeeps ==
    ASSUME TypeOK, ValuesInv, NEW t \in Transactions, NEW n \in Sinks, NEW v \in Sent,
           Send(t, n, v)
    PROVE  TypeOK' /\ ValuesInv'
  <1>1. n \in Nodes \ GlobalLoopers /\ v \in Value /\ v # Absent
    BY NodeFacts
  <1>2. /\ Running(t) /\ Store(t, n, v)
        /\ UNCHANGED <<phase, registered, begun, heard, hookVars, exited>>
    BY DEF Send, Running
  <1>3. /\ values' \in [Nodes -> [Transactions -> Value \cup {Absent}]]
        /\ cleanups' \in [Transactions -> SUBSET Nodes]
        /\ \A m \in Nodes, s \in Transactions :
             values'[m][s] = IF m = n /\ s = t THEN v ELSE values[m][s]
        /\ Order' /\ Stored' /\ Owed'
    BY <1>1, <1>2, StoreKeeps
  <1>4. /\ targets' \in [Transactions -> SUBSET (Nodes \ Sinks)]
        /\ left' \in [Transactions -> SUBSET (Nodes \ Sinks)]
        /\ \A s \in Transactions :
             targets'[s] \subseteq IF s = t THEN targets[t] \cup Listeners(n) ELSE targets[s]
    BY <1>1, ListenersFacts DEF TypeOK, Send
  <1>5. TypeOK'
    BY <1>2, <1>3, <1>4 DEF TypeOK, hookVars
  <1>6. Triggered'
    <2> SUFFICES ASSUME NEW s \in Transactions, NEW m \in targets'[s]
                 PROVE  Running(s)' /\ \E k \in Listened(m) : values'[k][s] # Absent
      BY DEF Triggered
    <2>1. Listened(m) \subseteq Nodes
      BY <1>4, ArgsFacts
    <2>2. CASE m \in targets[s]
      <3>1. PICK k \in Listened(m) : values[k][s] # Absent
        BY <2>2 DEF ValuesInv, Triggered
      <3>2. values'[k][s] # Absent
        BY <1>1, <1>3, <2>1, <3>1
      <3> QED
        BY <1>2, <2>2, <3>1, <3>2 DEF ValuesInv, Triggered, Running
    <2>3. CASE m \notin targets[s]
      <3>1. s = t /\ m \in Listeners(n)
        BY <1>4, <2>3
      <3> QED
        BY <1>1, <1>2, <1>3, <3>1, ListenersFacts DEF Running
    <2> QED
      BY <2>2, <2>3
  <1> QED
    BY <1>2, <1>3, <1>5, <1>6 DEF ValuesInv, NoFailure

\* What is to be updated can be, and no updater fails.
LEMMA TargetUpdated ==
    ASSUME TypeOK, ValuesInv, NEW t \in Transactions, NEW n \in targets[t]
    PROVE  /\ n \in Nodes \ Sinks
           /\ Running(t)
           /\ updater(n, t) \in Value \cup {Absent}
           /\ updater(n, t) # Failure
  <1>1. n \in Nodes \ Sinks
    BY DEF TypeOK
  <1>2. ValuesTyped
    BY DEF TypeOK, ValuesTyped
  <1>3. Running(t) /\ \E m \in Listened(n) : values[m][t] # Absent
    BY DEF ValuesInv, Triggered
  <1> QED
    BY <1>1, <1>2, <1>3, UpdaterDefined, NodeFacts

\* A task updates a node.
LEMMA UpdateKeeps ==
    ASSUME TypeOK, ValuesInv, NEW t \in Transactions, NEW n \in Nodes, Update(t, n)
    PROVE  TypeOK' /\ ValuesInv'
  <1> DEFINE res == updater(n, t)
             next == IF res \in Value THEN Listeners(n) ELSE {}
  <1>1. /\ n \in targets[t] /\ n \notin GlobalLoopers
        /\ exited' = (res = Failure)
        /\ IF res \in Value THEN Store(t, n, res) ELSE UNCHANGED <<values, cleanups>>
        /\ begun' = [begun EXCEPT ![t] = @ \cup {Cluster[n]}]
        /\ targets' = [targets EXCEPT ![t] = (@ \ {n}) \cup
                         {m \in next : TaskTakes(t, Cluster[n], m)}]
        /\ left' = [left EXCEPT ![t] = @ \cup {m \in next : ~TaskTakes(t, Cluster[n], m)}]
        /\ UNCHANGED <<phase, registered, heard, hookVars>>
    BY DEF Update
  <1>2. /\ n \in Nodes \ GlobalLoopers /\ Running(t)
        /\ res \in Value \cup {Absent} /\ res # Failure
    BY <1>1, TargetUpdated
  <1>3. /\ values' \in [Nodes -> [Transactions -> Value \cup {Absent}]]
        /\ cleanups' \in [Transactions -> SUBSET Nodes]
        /\ \A m \in Nodes, s \in Transactions :
             values'[m][s] = IF m = n /\ s = t /\ res \in Value THEN res ELSE values[m][s]
        /\ Order' /\ Stored' /\ Owed'
    <2> HIDE DEF res
    <2>1. CASE res \in Value
      BY <1>1, <1>2, <2>1, StoreKeeps
    <2>2. CASE res \notin Value
      BY <1>1, <2>2 DEF TypeOK, ValuesInv, Order, Stored, Owed, Over, Running
    <2> QED
      BY <2>1, <2>2
  <1>4. next \subseteq Listeners(n) /\ next \subseteq Nodes \ Sinks
    BY ListenersFacts
  <1>5. /\ targets' \in [Transactions -> SUBSET (Nodes \ Sinks)]
        /\ left' \in [Transactions -> SUBSET (Nodes \ Sinks)]
        /\ begun' \in [Transactions -> SUBSET Range(Cluster)]
        /\ \A s \in Transactions :
             targets'[s] \subseteq IF s = t THEN targets[t] \cup next ELSE targets[s]
    <2> HIDE DEF next
    <2> QED
      BY <1>1, <1>4, NodeFacts DEF TypeOK
  <1>6. TypeOK'
    BY <1>1, <1>3, <1>5 DEF TypeOK, hookVars
  <1>7. Triggered'
    <2> SUFFICES ASSUME NEW s \in Transactions, NEW m \in targets'[s]
                 PROVE  Running(s)' /\ \E k \in Listened(m) : values'[k][s] # Absent
      BY DEF Triggered
    <2>1. Listened(m) \subseteq Nodes
      BY <1>5, ArgsFacts
    <2>2. CASE m \in targets[s]
      <3>1. PICK k \in Listened(m) : values[k][s] # Absent
        BY <2>2 DEF ValuesInv, Triggered
      <3>2. values'[k][s] # Absent
        <4> HIDE DEF res
        <4> QED
          BY <1>3, <2>1, <3>1, NodeFacts
      <3> QED
        BY <1>1, <2>2, <3>1, <3>2 DEF ValuesInv, Triggered, Running
    <2>3. CASE m \notin targets[s]
      <3>1. s = t /\ m \in next
        BY <1>5, <2>3
      <3>2. m \in Listeners(n) /\ res \in Value
        BY <3>1
      <3>3. n \in Listened(m)
        BY <3>2, ListenersFacts
      <3> HIDE DEF res, next
      <3>4. values'[n][s] # Absent
        BY <1>3, <3>1, <3>2, NodeFacts
      <3> QED
        BY <1>1, <1>2, <3>1, <3>3, <3>4 DEF Running
    <2> QED
      BY <2>2, <2>3
  <1>8. NoFailure'
    BY <1>1, <1>2 DEF NoFailure
  <1> QED
    BY <1>3, <1>6, <1>7, <1>8 DEF ValuesInv

\* The Executor hears of a transaction.
LEMMA HandleRegisterKeeps ==
    ASSUME TypeOK, ValuesInv, NEW t \in Transactions, t # 0, HandleRegister(t)
    PROVE  TypeOK' /\ ValuesInv'
  <1>1. /\ phase[t] # "none" /\ t \notin registered /\ t - 1 \in registered
        /\ registered' = registered \cup {t}
        /\ before_update_hooks' = NoHooks
        /\ UNCHANGED <<phase, updateVars, cleanups, heard, before_update_hooks_buffers, exited>>
    BY DEF HandleRegister
  <1>2. \A n \in Nodes, s \in Transactions :
          /\ values'[n][s] # values[n][s] =>
               n \in GlobalLoopers /\ s = t /\ values'[n][s] # Absent
          /\ values[n][s] # Absent => values'[n][s] # Absent
    BY DEF HandleRegister, TypeOK
  <1>3. values' \in [Nodes -> [Transactions -> Value \cup {Absent}]]
    <2>1. \A n \in Nodes :
            [values[n] EXCEPT ![t] = before_update_hooks[n]] \in
              IF n \in GlobalLoopers THEN [Transactions -> Value \cup {Absent}]
              ELSE {[values[n] EXCEPT ![t] = before_update_hooks[n]]}
      BY DEF TypeOK
    <2> QED
      BY <2>1 DEF HandleRegister, TypeOK
  <1>4. TypeOK'
    <2>1. NoHooks \in [GlobalLoopers -> Value \cup {Absent}]
      BY DEF NoHooks
    <2> QED
      BY <1>1, <1>3, <2>1 DEF TypeOK, updateVars
  <1>5. Order'
    <2>1. \A s \in Transactions : s < t => s \in registered
      <3>1. \A s \in Transactions : s < t => s = t - 1 \/ s < t - 1
        BY TransactionsNat
      <3> QED
        BY <1>1, <3>1 DEF ValuesInv, Order
    <2> QED
      BY <1>1, <2>1 DEF ValuesInv, Order, Over
  <1>6. Stored'
    <2>1. ASSUME NEW n \in Nodes \ GlobalLoopers
          PROVE  \A s \in Transactions : values'[n][s] = values[n][s]
      BY <1>2
    <2>2. ASSUME NEW n \in Nodes \ GlobalLoopers, NEW s \in Transactions,
                 \A k \in 0 .. (s - 1) : values[n][k] = Absent
          PROVE  \A k \in 0 .. (s - 1) : values'[n][k] = Absent
      <3>1. 0 .. (s - 1) \subseteq Transactions
        BY TransactionsNat
      <3> QED
        BY <2>1, <2>2, <3>1
    <2>3. \A n \in Nodes \ GlobalLoopers, s \in Transactions : values'[n][s] # Absent =>
            /\ phase[s] # "none"
            /\ \/ n \in cleanups[s]
               \/ Over(s) /\ n \in Cells /\ \A k \in 0 .. (s - 1) : values'[n][k] = Absent
      BY <2>1, <2>2 DEF ValuesInv, Stored
    <2>4. \A g \in GlobalLoopers, s \in Transactions :
            values'[g][s] # Absent => s \in registered'
      BY <1>1, <1>2, NodeFacts DEF ValuesInv, Stored
    <2> QED
      BY <1>1, <2>3, <2>4 DEF Stored, Over
  <1>7. Owed'
    BY <1>1, <1>2 DEF ValuesInv, Owed, Running, TypeOK
  <1>8. Triggered'
    <2>1. \A s \in Transactions, n \in Nodes : n \in targets[s] => Listened(n) \subseteq Nodes
      BY ArgsFacts
    <2> QED
      BY <1>1, <1>2, <2>1 DEF ValuesInv, Triggered, Running, TypeOK, updateVars
  <1> QED
    BY <1>1, <1>4, <1>5, <1>6, <1>7, <1>8 DEF ValuesInv, NoFailure

\* A task updates the looper of a GlobalCellLoop.
LEMMA UpdateLooperKeeps ==
    ASSUME TypeOK, ValuesInv, NEW t \in Transactions, NEW n \in Nodes, UpdateLooper(t, n)
    PROVE  TypeOK' /\ ValuesInv'
  <1>1. /\ n \in targets[t] /\ n \in GlobalLoopers
        /\ exited' = (UnsafeArg(n, 1, t) = Failure)
        /\ before_update_hooks_buffers' =
             [before_update_hooks_buffers EXCEPT ![t][n] = Arg(n, 1, t)]
        /\ begun' = [begun EXCEPT ![t] = @ \cup {Cluster[n]}]
        /\ targets' = [targets EXCEPT ![t] = @ \ {n}]
        /\ UNCHANGED <<phase, registered, values, left, cleanups, heard, before_update_hooks>>
    BY DEF UpdateLooper
  <1>2. UnsafeArg(n, 1, t) # Failure /\ Arg(n, 1, t) \in Value
    <2>1. ValuesTyped /\ \E m \in Listened(n) : values[m][t] # Absent
      BY <1>1 DEF TypeOK, ValuesTyped, ValuesInv, Triggered
    <2>2. Len(Args[n]) <= 1
      BY <1>1, ArgsTyped
    <2> QED
      BY <2>1, <2>2, FirstArg, NodeFacts
  <1>3. before_update_hooks_buffers' \in [Transactions -> [GlobalLoopers -> Value \cup {Absent}]]
    BY <1>1, <1>2 DEF TypeOK
  <1>4. TypeOK'
    BY <1>1, <1>3, NodeFacts DEF TypeOK
  <1>5. Order' /\ Stored' /\ Owed'
    BY <1>1 DEF ValuesInv, Order, Stored, Owed, Over, Running
  <1>6. Triggered'
    <2>1. \A s \in Transactions : targets'[s] \subseteq targets[s]
      BY <1>1 DEF TypeOK
    <2> QED
      BY <1>1, <2>1 DEF ValuesInv, Triggered, Running
  <1> QED
    BY <1>1, <1>2, <1>4, <1>5, <1>6 DEF ValuesInv, NoFailure

\* Listeners hear of a transaction that ends.
LEMMA FinalizeKeeps ==
    ASSUME TypeOK, ValuesInv, NEW t \in Transactions, Finalize(t)
    PROVE  TypeOK' /\ ValuesInv'
  <1>1. /\ phase[t] = "submitted" /\ targets[t] = {}
        /\ \A s \in 0 .. (t - 1) : phase[s] = "done"
        /\ \A s \in Transactions : phase'[s] = IF s = t THEN "refreshing" ELSE phase[s]
        /\ UNCHANGED <<registered, values, updateVars, cleanups, hookVars>>
    BY DEF Finalize, TypeOK
  <1>2. \A n \in cleanups[t] : unsafeSample(n, t) \in Value
    <2> SUFFICES ASSUME NEW n \in cleanups[t] PROVE unsafeSample(n, t) \in Value
      OBVIOUS
    <2>1. n \in Nodes /\ values[n][t] # Absent /\ ValuesTyped
      BY DEF TypeOK, ValuesTyped, ValuesInv, Owed
    <2> QED
      BY <2>1, SampleDefined DEF unsafeSample
  <1>3. exited' = FALSE
    BY <1>2, NodeFacts DEF Finalize
  <1>4. heard' \in [Nodes -> Seq(Transactions \X Value)]
    BY <1>2 DEF Finalize, TypeOK
  <1>5. phase' \in [Transactions -> Phases]
    BY DEF Finalize, TypeOK, Phases
  <1>6. TypeOK'
    BY <1>1, <1>3, <1>4, <1>5 DEF TypeOK, updateVars, hookVars
  <1>7. Order'
    <2>1. \A r \in Transactions : r < t => phase[r] = "done" /\ r # t
      BY <1>1, TransactionsNat
    <2>3. \A s, r \in Transactions : r < s /\ Over(s)' => phase'[r] = "done"
      <3> SUFFICES ASSUME NEW s \in Transactions, NEW r \in Transactions, r < s, Over(s)'
                   PROVE  phase'[r] = "done"
        OBVIOUS
      <3>1. CASE s = t
        BY <1>1, <2>1, <3>1
      <3>2. CASE s # t
        <4>1. Over(s)
          BY <1>1, <3>2 DEF Over
        <4>2. phase[r] = "done"
          BY <4>1 DEF ValuesInv, Order
        <4> QED
          BY <1>1, <4>2
      <3> QED
        BY <3>1, <3>2
    <2>4. phase'[0] \notin {"none", "open"}
      BY <1>1, TransactionsNat DEF ValuesInv, Order
    <2>5. /\ \A s \in registered' : phase'[s] # "none"
          /\ \A s \in registered', r \in Transactions : r < s => r \in registered'
      BY <1>1 DEF ValuesInv, Order, TypeOK
    <2> QED
      BY <2>3, <2>4, <2>5 DEF Order
  <1>8. Stored'
    BY <1>1 DEF ValuesInv, Stored, Over
  <1>9. Owed'
    BY <1>1 DEF ValuesInv, Owed, Running
  <1>10. Triggered'
    BY <1>1 DEF ValuesInv, Triggered, Running, updateVars
  <1> QED
    BY <1>3, <1>6, <1>7, <1>8, <1>9, <1>10 DEF ValuesInv, NoFailure

\* What the refresh of a node erases: of the transaction that ends and of those that
\* are over.
LEMMA RefreshErases ==
    ASSUME TypeOK, ValuesInv, NEW t \in Transactions, Refresh(t)
    PROVE  \E n \in cleanups[t] :
             /\ n \in Nodes
             /\ \A s \in Transactions :
                  cleanups'[s] = IF s = t THEN cleanups[t] \ {n} ELSE cleanups[s]
             /\ \A m \in Nodes \ {n} : values'[m] = values[m]
             /\ \A s \in Transactions :
                  values'[n][s] = IF (n \in Cells /\ s < t) \/ (n \notin Cells /\ s = t)
                                    THEN Absent ELSE values[n][s]
             /\ exited' = FALSE
  <1> DEFINE n == CHOOSE m \in cleanups[t] : TRUE
  <1>1. n \in cleanups[t] /\ n \in Nodes
    BY DEF Refresh, TypeOK
  <1>2. values[n][t] # Absent
    BY <1>1 DEF ValuesInv, Owed
  <1>3. /\ exited' = (n \in Cells /\ values[n][t] = Absent)
        /\ values' = [values EXCEPT ![n] = Refreshed(n, t)]
        /\ cleanups' = [cleanups EXCEPT ![t] = @ \ {n}]
    BY DEF Refresh
  <1> HIDE DEF n
  <1>4. \A s \in Transactions : cleanups'[s] = IF s = t THEN cleanups[t] \ {n} ELSE cleanups[s]
    BY <1>3 DEF TypeOK
  <1>5. /\ \A m \in Nodes \ {n} : values'[m] = values[m]
        /\ values'[n] = Refreshed(n, t)
    BY <1>1, <1>3 DEF TypeOK
  <1>6. \A s \in Transactions :
          values'[n][s] = IF (n \in Cells /\ s < t) \/ (n \notin Cells /\ s = t)
                            THEN Absent ELSE values[n][s]
    BY <1>5 DEF Refreshed
  <1>7. exited' = FALSE
    BY <1>2, <1>3
  <1> QED
    BY <1>1, <1>4, <1>5, <1>6, <1>7

\* The values of a node are erased.
LEMMA RefreshKeeps ==
    ASSUME TypeOK, ValuesInv, NEW t \in Transactions, Refresh(t)
    PROVE  TypeOK' /\ ValuesInv'
  <1>1. /\ phase[t] = "refreshing"
        /\ UNCHANGED <<phase, registered, updateVars, heard, hookVars>>
    BY DEF Refresh
  <1>2. PICK n \in cleanups[t] :
             /\ n \in Nodes
             /\ \A s \in Transactions :
                  cleanups'[s] = IF s = t THEN cleanups[t] \ {n} ELSE cleanups[s]
             /\ \A m \in Nodes \ {n} : values'[m] = values[m]
             /\ \A s \in Transactions :
                  values'[n][s] = IF (n \in Cells /\ s < t) \/ (n \notin Cells /\ s = t)
                                    THEN Absent ELSE values[n][s]
             /\ exited' = FALSE
    BY RefreshErases
  <1>3. /\ \A m \in Nodes, s \in Transactions : values'[m][s] # Absent => values[m][s] # Absent
        /\ \A m \in Nodes, s \in Transactions :
             Running(s) \/ m \in cleanups'[s] => values'[m][s] = values[m][s]
    <2>1. \A s \in Transactions : s < t => phase[s] = "done"
      BY <1>1 DEF ValuesInv, Order, Over
    <2>2. \A s \in Transactions : s < t => cleanups[s] = {} /\ ~Running(s)
      BY <2>1 DEF ValuesInv, Owed, Running
    <2> QED
      BY <1>1, <1>2, <2>2 DEF Running
  <1>4. TypeOK'
    <2>1. values' \in [Nodes -> [Transactions -> Value \cup {Absent}]]
      <3>1. \A m \in Nodes : Refreshed(m, t) \in [Transactions -> Value \cup {Absent}]
        BY DEF Refreshed, TypeOK
      <3> QED
        BY <3>1 DEF Refresh, TypeOK
    <2>2. cleanups' \in [Transactions -> SUBSET Nodes]
      BY DEF Refresh, TypeOK
    <2> QED
      BY <1>1, <1>2, <2>1, <2>2 DEF TypeOK, updateVars, hookVars
  <1>5. Order'
    BY <1>1 DEF ValuesInv, Order, Over
  <1>6. Stored'
    <2>1. ASSUME NEW m \in Nodes \ GlobalLoopers, NEW s \in Transactions, values'[m][s] # Absent
          PROVE  /\ phase[s] # "none"
                 /\ \/ m \in cleanups'[s]
                    \/ Over(s) /\ m \in Cells /\ \A k \in 0 .. (s - 1) : values'[m][k] = Absent
      <3>1. 0 .. (s - 1) \subseteq Transactions
        BY TransactionsNat
      <3>2. values[m][s] # Absent
        BY <1>3, <2>1
      <3>3. CASE Over(s) /\ m \in Cells /\ \A k \in 0 .. (s - 1) : values[m][k] = Absent
        BY <1>3, <3>1, <3>2, <3>3 DEF ValuesInv, Stored
      <3>4. CASE m \in cleanups[s] /\ ~(s = t /\ m = n)
        BY <1>2, <3>2, <3>4 DEF ValuesInv, Stored
      <3>5. CASE s = t /\ m = n
        <4>1. m \in Cells
          BY <1>2, <2>1, <3>5
        <4>2. \A k \in 0 .. (s - 1) : k < t
          BY <3>5, TransactionsNat
        <4> QED
          BY <1>1, <1>2, <3>1, <3>5, <4>1, <4>2 DEF Over
      <3> QED
        BY <3>2, <3>3, <3>4, <3>5 DEF ValuesInv, Stored
    <2>2. ASSUME NEW g \in GlobalLoopers, NEW s \in Transactions, values'[g][s] # Absent
          PROVE  s \in registered
      BY <1>3, <2>2, NodeFacts DEF ValuesInv, Stored
    <2> QED
      BY <1>1, <2>1, <2>2 DEF Stored, Over
  <1>7. Owed'
    <2> SUFFICES ASSUME NEW s \in Transactions, NEW m \in cleanups'[s]
                 PROVE  values'[m][s] # Absent /\ (Running(s) \/ phase[s] = "refreshing")
      BY <1>1 DEF Owed, Running
    <2>1. m \in cleanups[s] /\ m \in Nodes
      BY <1>2, <1>4 DEF TypeOK
    <2> QED
      BY <1>3, <2>1 DEF ValuesInv, Owed
  <1>8. Triggered'
    <2> SUFFICES ASSUME NEW s \in Transactions, NEW m \in targets[s]
                 PROVE  Running(s) /\ \E k \in Listened(m) : values'[k][s] # Absent
      BY <1>1 DEF Triggered, Running, updateVars
    <2>1. Running(s)
      BY DEF ValuesInv, Triggered
    <2>2. PICK k \in Listened(m) : values[k][s] # Absent
      BY DEF ValuesInv, Triggered
    <2>3. k \in Nodes
      BY ArgsFacts DEF TypeOK
    <2> QED
      BY <1>3, <2>1, <2>2, <2>3
  <1> QED
    BY <1>2, <1>4, <1>5, <1>6, <1>7, <1>8 DEF ValuesInv, NoFailure

\* Its user is woken.
LEMMA DoneKeeps ==
    ASSUME TypeOK, ValuesInv, NEW t \in Transactions, Done(t)
    PROVE  TypeOK' /\ ValuesInv'
  <1> USE DEF Done, updateVars, hookVars
  <1>1. TypeOK'
    BY DEF TypeOK, Phases
  <1>2. /\ phase[t] = "refreshing" /\ cleanups[t] = {}
        /\ \A s \in Transactions : phase'[s] = IF s = t THEN "woken" ELSE phase[s]
    BY DEF TypeOK
  <1>3. Order'
    BY <1>2, TransactionsNat DEF Order, Over, ValuesInv
  <1>4. Stored'
    BY <1>2 DEF Stored, Over, ValuesInv
  <1>5. Owed'
    BY <1>2 DEF Owed, Running, ValuesInv
  <1>6. Triggered'
    BY <1>2 DEF Triggered, Running, ValuesInv
  <1> QED
    BY <1>1, <1>3, <1>4, <1>5, <1>6 DEF ValuesInv, NoFailure

\* Its hooks are put behind those that wait.
LEMMA ReleaseHooksKeeps ==
    ASSUME TypeOK, ValuesInv, NEW t \in Transactions, ReleaseHooks(t)
    PROVE  TypeOK' /\ ValuesInv'
  <1> USE DEF ReleaseHooks, updateVars
  <1>1. TypeOK'
    <2>1. NoHooks \in [GlobalLoopers -> Value \cup {Absent}]
      BY DEF NoHooks
    <2>2. before_update_hooks' \in [GlobalLoopers -> Value \cup {Absent}]
      BY DEF TypeOK
    <2>3. before_update_hooks_buffers' \in [Transactions -> [GlobalLoopers -> Value \cup {Absent}]]
      BY <2>1 DEF TypeOK
    <2>4. phase' \in [Transactions -> Phases]
      BY DEF TypeOK, Phases
    <2> QED
      BY <2>2, <2>3, <2>4 DEF TypeOK
  <1>2. /\ phase[t] = "woken"
        /\ \A s \in Transactions : phase'[s] = IF s = t THEN "done" ELSE phase[s]
    BY DEF TypeOK
  <1>3. Order'
    BY <1>2, TransactionsNat DEF Order, Over, ValuesInv
  <1>4. Stored'
    BY <1>2 DEF Stored, Over, ValuesInv
  <1>5. Owed'
    BY <1>2 DEF Owed, Running, ValuesInv
  <1>6. Triggered'
    BY <1>2 DEF Triggered, Running, ValuesInv
  <1> QED
    BY <1>1, <1>3, <1>4, <1>5, <1>6 DEF ValuesInv, NoFailure

\* No step breaks the types or ValuesInv.
LEMMA ValuesNext == TypeOK /\ ValuesInv /\ [Next]_vars => TypeOK' /\ ValuesInv'
  <1> SUFFICES ASSUME TypeOK, ValuesInv, [Next]_vars PROVE TypeOK' /\ ValuesInv'
    OBVIOUS
  <1>1. CASE UNCHANGED vars
    BY <1>1 DEF vars, updateVars, hookVars, TypeOK, ValuesInv, NoFailure, Order, Stored, Owed,
                Triggered, Over, Running
  <1>2. ASSUME NEW t \in Transactions, t > 0, Begin(t) \/ HandleRegister(t)
        PROVE  TypeOK' /\ ValuesInv'
    BY <1>2, BeginKeeps, HandleRegisterKeeps
  <1>3. ASSUME NEW t \in Transactions, NEW n \in Sinks, NEW v \in Sent, Send(t, n, v)
        PROVE  TypeOK' /\ ValuesInv'
    BY <1>3, SendKeeps
  <1>4. ASSUME NEW t \in Transactions, NEW n \in Nodes, Update(t, n) \/ UpdateLooper(t, n)
        PROVE  TypeOK' /\ ValuesInv'
    BY <1>4, UpdateKeeps, UpdateLooperKeeps
  <1>5. ASSUME NEW t \in Transactions,
               Submit(t) \/ Finalize(t) \/ Refresh(t) \/ Done(t) \/ ReleaseHooks(t)
        PROVE  TypeOK' /\ ValuesInv'
    BY <1>5, SubmitKeeps, FinalizeKeeps, RefreshKeeps, DoneKeeps, ReleaseHooksKeeps
  <1>6. CASE Rest
    BY <1>1, <1>6 DEF Rest
  <1> QED
    BY <1>1, <1>2, <1>3, <1>4, <1>5, <1>6 DEF Next

\* Both hold in every run.
LEMMA ValuesCorrect == Spec => [](TypeOK /\ ValuesInv)
  BY ValuesInit, ValuesNext, PTL DEF Spec

\* The types of the variables, those of what updaters compute and listeners are told
\* among them (cell.hpp:20-36, stream.hpp:20-36, transaction.hpp:93-116).
THEOREM ValuesTypes == Spec => []TypeOK
  BY ValuesCorrect, PTL

\* No failure_log is reached, whatever graph was built and however transactions
\* overlap: an update finds the value that set it off, the end of a transaction finds
\* the values it was registered for (cell.hpp:284-290 and 306-311, stream.hpp:86-92 and
\* 800-806).
THEOREM NothingFails == Spec => []NoFailure
  <1>1. ValuesInv => NoFailure
    BY DEF ValuesInv
  <1> QED
    BY <1>1, ValuesCorrect, PTL

\* Of transactions that are over nothing is kept but one value per cell, loopers of
\* GlobalCellLoops excepted, which keep all they get
\* (time_invariant_values.hpp:22-26, cell.hpp:306-320, stream.hpp:813-818).
THEOREM NothingPilesUp == Spec => []Forgotten
  <1>1. TypeOK /\ ValuesInv => Forgotten
    <2> SUFFICES ASSUME TypeOK, ValuesInv,
                        NEW n \in Nodes \ GlobalLoopers, NEW s \in Transactions,
                        values[n][s] # Absent, phase[s] = "done"
                 PROVE  /\ n \in Cells
                        /\ \A t \in (s + 1) .. (MaxTransactions - 1) :
                             phase[t] = "done" => values[n][t] = Absent
      BY DEF Forgotten
    <2>1. n \in Cells
      BY DEF ValuesInv, Stored, Owed, Running
    <2>2. ASSUME NEW t \in (s + 1) .. (MaxTransactions - 1), phase[t] = "done",
                 values[n][t] # Absent
          PROVE  FALSE
      <3>1. t \in Transactions /\ s \in 0 .. (t - 1)
        BY GraphTyped DEF Transactions
      <3>2. \A k \in 0 .. (t - 1) : values[n][k] = Absent
        BY <2>2, <3>1 DEF ValuesInv, Stored, Owed, Running
      <3> QED
        BY <3>1, <3>2
    <2> QED
      BY <2>1, <2>2
  <1> QED
    BY <1>1, ValuesCorrect, PTL

-----------------------------------------------------------------------------
(* Samples.                                                                *)

\* A step stores or erases no value that a settled transaction may read, for
\* whatever that step is.
LEMMA SettledSample ==
    ASSUME TypeOK, ValuesInv, [Next]_vars,
           NEW t \in Transactions, NEW n \in Nodes, Settled(t, n)
    PROVE  Sample(n, t)' = Sample(n, t)
  <1>1. /\ phase[t] = "submitted" /\ t \in registered
        /\ \A m \in targets[t] : Cluster[m] # Cluster[n]
        /\ \A s \in 0 .. (t - 1) :
             /\ phase[s] \notin {"none", "open"}
             /\ \A m \in targets[s] : Cluster[m] # Cluster[n]
    BY DEF Settled, MayUpdate, PendingBeside
  <1>2. t \in Nat /\ 0 .. t \subseteq Transactions
    BY TransactionsNat
  <1>3. ASSUME \A k \in 0 .. t : values'[n][k] = values[n][k]
        PROVE  Sample(n, t)' = Sample(n, t)
    BY <1>2, <1>3, SampleKept
  <1>4. CASE values' = values
    BY <1>3, <1>4
  <1>5. ASSUME NEW s \in Transactions, HandleRegister(s)
        PROVE  Sample(n, t)' = Sample(n, t)
    <2>1. s \notin registered
      BY <1>5 DEF HandleRegister
    <2>2. \A k \in 0 .. t : k # s
      <3>1. \A k \in 0 .. t : k \in Transactions /\ (k = t \/ k < t)
        BY <1>2
      <3> QED
        BY <1>1, <2>1, <3>1 DEF ValuesInv, Order
    <2>3. \A k \in 0 .. t : values'[n][k] = values[n][k]
      BY <1>2, <1>5, <2>2 DEF HandleRegister, TypeOK
    <2> QED
      BY <1>3, <2>3
  <1>6. ASSUME NEW s \in Transactions, NEW m \in Nodes, NEW v, Store(s, m, v),
               m # n \/ s \notin 0 .. t
        PROVE  Sample(n, t)' = Sample(n, t)
    <2>1. \A k \in 0 .. t : values'[n][k] = values[n][k]
      BY <1>2, <1>6 DEF Store, TypeOK
    <2> QED
      BY <1>3, <2>1
  <1>7. ASSUME NEW s \in Transactions, NEW m \in Sinks, NEW v \in Sent, Send(s, m, v)
        PROVE  Sample(n, t)' = Sample(n, t)
    <2>1. phase[s] = "open" /\ Store(s, m, v) /\ m \in Nodes
      BY <1>7, NodeFacts DEF Send
    <2>2. s \notin 0 .. t
      BY <1>1, <1>2, <2>1
    <2> QED
      BY <1>6, <2>1, <2>2
  <1>8. ASSUME NEW s \in Transactions, NEW m \in Nodes, Update(s, m)
        PROVE  Sample(n, t)' = Sample(n, t)
    <2>1. /\ m \in targets[s]
          /\ Store(s, m, updater(m, s)) \/ UNCHANGED values
      BY <1>8 DEF Update
    <2>2. m = n => s \notin 0 .. t
      BY <1>1, <1>2, <2>1
    <2> QED
      BY <1>4, <1>6, <2>1, <2>2
  <1>9. ASSUME NEW s \in Transactions, Refresh(s)
        PROVE  Sample(n, t)' = Sample(n, t)
    <2>1. PICK m \in cleanups[s] :
             /\ m \in Nodes
             /\ \A k \in Transactions :
                  cleanups'[k] = IF k = s THEN cleanups[s] \ {m} ELSE cleanups[k]
             /\ \A k \in Nodes \ {m} : values'[k] = values[k]
             /\ \A k \in Transactions :
                  values'[m][k] = IF (m \in Cells /\ k < s) \/ (m \notin Cells /\ k = s)
                                    THEN Absent ELSE values[m][k]
             /\ exited' = FALSE
      BY <1>9, RefreshErases
    <2>2. CASE m # n
      BY <1>4, <1>3, <2>1, <2>2
    <2>3. CASE m = n
      <3>1. values[n][s] # Absent
        BY <2>3 DEF ValuesInv, Owed
      <3>2. phase[s] = "refreshing"
        BY <1>9 DEF Refresh
      <3>3. s < t
        <4>1. s # t
          BY <1>1, <3>2
        <4>2. ~(t < s)
          BY <1>1, <3>2 DEF ValuesInv, Order, Over
        <4> QED
          BY <4>1, <4>2, TransactionsNat
      <3>4. s \in 0 .. t
        BY <3>3, TransactionsNat
      <3>5. CASE n \in Cells
        <4>1. \A k \in s .. t : k \in Transactions /\ ~(k < s)
          BY <1>2, <3>4, TransactionsNat
        <4>2. \A k \in Transactions : ~(k < s) => values'[n][k] = values[n][k]
          BY <2>1, <2>3, <3>5
        <4>3. \A k \in s .. t : values'[n][k] = values[n][k]
          BY <4>1, <4>2
        <4> QED
          BY <3>1, <3>4, <4>3, SampleKept
      <3>6. CASE n \notin Cells
        <4>1. t # s
          BY <3>3, TransactionsNat
        <4>2. values'[n][t] = values[n][t]
          BY <2>1, <2>3, <3>6, <4>1
        <4> QED
          BY <3>6, <4>2 DEF Sample, StreamSample
      <3> QED
        BY <3>5, <3>6
    <2> QED
      BY <2>2, <2>3
  <1>10. ASSUME NEW s \in Transactions,
                \/ Begin(s) \/ Submit(s) \/ Finalize(s) \/ Done(s) \/ ReleaseHooks(s)
                \/ \E m \in Nodes : UpdateLooper(s, m)
         PROVE  values' = values
    BY <1>10 DEF Begin, Submit, Finalize, Done, ReleaseHooks, UpdateLooper
  <1>11. Rest \/ UNCHANGED vars => values' = values
    BY DEF Rest, vars
  <1> QED
    BY <1>4, <1>5, <1>7, <1>8, <1>9, <1>10, <1>11 DEF Next

\* Once nothing is pending in and above a cluster, what its updates may read stays
\* what it is until the transaction ends: neither an older transaction's end nor a
\* younger one's updates touch it (cell.hpp:306-320, planner.cpp:52-89).
THEOREM SamplesStay == Spec => SamplesStable
  <1>1. TypeOK /\ ValuesInv /\ [Next]_vars =>
          [\A t \in Transactions, n \in Nodes : Settled(t, n) => Sample(n, t)' = Sample(n, t)]_vars
    BY SettledSample
  <1> QED
    BY <1>1, ValuesCorrect, PTL DEF Spec, SamplesStable

-----------------------------------------------------------------------------
(* What Closure computes.                                                  *)

\* What one step of Closure makes of E: the paths through k are added.
Through(k, E, points) ==
    E \cup {e \in points \X points : <<e[1], k>> \in E /\ <<k, e[2]>> \in E}

PathsFrom(f, s, edges, points) ==
    IF s = {} THEN edges ELSE Through(Picked(s), f[s \ {Picked(s)}], points)

\* Closure is what the steps through all points make of edges.
LEMMA ClosurePaths ==
    ASSUME NEW points, IsFiniteSet(points), NEW edges \in SUBSET (points \X points)
    PROVE  \E f : /\ \A s \in SUBSET points : f[s] = PathsFrom(f, s, edges, points)
                  /\ Closure(edges, points) = f[points]
  <1> DEFINE pairs == SUBSET (points \X points)
             step == [x \in points \X pairs |-> Through(x[1], x[2], points)]
             body(h) == [s \in SUBSET points |->
                           IF s = {} THEN edges
                           ELSE LET k == CHOOSE k \in s : TRUE
                                    E == h[s \ {k}]
                                IN  E \cup {e \in points \X points :
                                              <<e[1], k>> \in E /\ <<k, e[2]>> \in E}]
             iter == CHOOSE h : h = body(h)
  <1>1. \A h : body(h) = [s \in SUBSET points |-> PathsFrom(h, s, edges, points)]
    BY DEF PathsFrom, Through, Picked
  <1>2. iter = body(iter)
    <2>1. edges \in pairs /\ step \in [points \X pairs -> pairs]
      BY DEF Through
    <2>2. PICK f \in [SUBSET points -> pairs] :
            \A s \in SUBSET points : f[s] = FoldFrom(f, s, edges, step)
      <3>1. \A A : \A b \in A : \A g \in [points \X A -> A] :
              \E f \in [SUBSET points -> A] :
                \A s \in SUBSET points : f[s] = FoldFrom(f, s, b, g)
        BY FoldExists
      <3> HIDE DEF step, pairs
      <3> QED
        BY <2>1, <3>1, Zenon
    <2>3. ASSUME NEW s \in SUBSET points
          PROVE  f[s] = PathsFrom(f, s, edges, points)
      <3>1. s # {} => Picked(s) \in points /\ f[s \ {Picked(s)}] \in pairs
        BY DEF Picked
      <3> QED
        BY <2>2, <3>1 DEF FoldFrom, PathsFrom
    <2>4. f = body(f)
      BY <1>1, <2>3
    <2> HIDE DEF body
    <2> QED
      BY <2>4
  <1>3. Closure(edges, points) = iter[points]
    BY DEF Closure, FoldSet, MapThenFoldSet
  <1> HIDE DEF iter, body
  <1>4. \A s \in SUBSET points : iter[s] = PathsFrom(iter, s, edges, points)
    BY <1>1, <1>2
  <1> QED
    BY <1>3, <1>4

\* E holds what two edges over a point of s make.
Passes(E, s) == \A k \in s : \A a, b : <<a, k>> \in E /\ <<k, b>> \in E => <<a, b>> \in E

\* The paths through k as well.
LEMMA ThroughPasses ==
    ASSUME NEW points, NEW E \in SUBSET (points \X points), NEW s \in SUBSET points,
           NEW k \in s, Passes(E, s \ {k})
    PROVE  Passes(Through(k, E, points), s)
  <1> DEFINE F == Through(k, E, points)
  <1>1. \A a, b : <<a, b>> \in F <=>
          \/ <<a, b>> \in E
          \/ <<a, k>> \in E /\ <<k, b>> \in E
    BY DEF Through
  <1> HIDE DEF F
  <1> SUFFICES ASSUME NEW j \in s, NEW a, NEW b, <<a, j>> \in F, <<j, b>> \in F
               PROVE  <<a, b>> \in F
    BY DEF Passes, F
  <1>2. CASE j = k
    BY <1>1, <1>2
  <1>3. CASE j # k
    <2>1. \A c, d : <<c, j>> \in E /\ <<j, d>> \in E => <<c, d>> \in E
      BY <1>3 DEF Passes
    <2> QED
      BY <1>1, <2>1
  <1> QED
    BY <1>2, <1>3

\* Closure keeps the edges and is transitive.
LEMMA ClosureTransitive ==
    ASSUME NEW points, IsFiniteSet(points), NEW edges \in SUBSET (points \X points)
    PROVE  /\ edges \subseteq Closure(edges, points)
           /\ Closure(edges, points) \subseteq points \X points
           /\ Passes(Closure(edges, points), points)
  <1>1. PICK f : /\ \A s \in SUBSET points : f[s] = PathsFrom(f, s, edges, points)
                 /\ Closure(edges, points) = f[points]
    BY ClosurePaths
  <1> DEFINE D == {s \in SUBSET points :
                     /\ edges \subseteq f[s]
                     /\ f[s] \in SUBSET (points \X points)
                     /\ Passes(f[s], s)}
  <1>2. ASSUME NEW s \in SUBSET points, \A r \in SUBSET s : r # s => r \in D
        PROVE  s \in D
    <2>1. CASE s = {}
      BY <1>1, <2>1 DEF PathsFrom, Passes
    <2>2. CASE s # {}
      <3> DEFINE k == Picked(s)
                 r == s \ {k}
      <3>1. k \in s
        BY <2>2 DEF Picked
      <3>2. r \in D
        BY <1>2, <3>1
      <3>3. f[s] = Through(k, f[r], points)
        BY <1>1, <2>2 DEF PathsFrom
      <3> HIDE DEF k
      <3>4. Passes(f[s], s)
        BY <3>1, <3>2, <3>3, ThroughPasses
      <3>5. edges \subseteq f[s] /\ f[s] \in SUBSET (points \X points)
        BY <3>2, <3>3 DEF Through
      <3> QED
        BY <3>4, <3>5
    <2> QED
      BY <2>1, <2>2
  <1>3. points \in D
    <2> HIDE DEF D
    <2> QED
      BY <1>2, SubsetInduction
  <1> QED
    BY <1>1, <1>3

\* Among any nodes there is one that is made before the others: no edge from them leads to it.
LEMMA MadeFirst ==
    ASSUME NEW S \in SUBSET Nodes, S # {}
    PROVE  \E n \in S : \A m \in S : <<m, n>> \notin Edges
  <1> DEFINE paths == Closure(Edges, Nodes)
  <1>1. Edges \in SUBSET (Nodes \X Nodes)
    BY DEF Edges, AllEdges
  <1>2. Edges \subseteq paths /\ Passes(paths, Nodes)
    BY <1>1, ClosureTransitive, GraphTyped
  <1>3. \A n \in Nodes : <<n, n>> \notin paths
    BY MadeInOrder
  <1> HIDE DEF paths
  <1>4. \A m, k, n \in Nodes : <<m, k>> \in paths /\ <<k, n>> \in paths => <<m, n>> \in paths
    BY <1>2 DEF Passes
  <1>5. PICK n \in S : \A m \in S : <<m, n>> \notin paths
    <2>1. IsFiniteSet(Nodes)
      BY GraphTyped
    <2> QED
      BY <1>3, <1>4, <2>1, MinimalElement
  <1> QED
    BY <1>2, <1>5

-----------------------------------------------------------------------------
(* The ranks of nodes in their clusters.                                   *)

\* The nodes that have an edge to n inside its cluster, and what its rank is made of.
Parents(n) == {m \in Nodes : <<m, n>> \in Edges /\ Cluster[m] = Cluster[n]}

RankFrom(f, n) == IF Parents(n) = {} THEN 0 ELSE 1 + Max({f[m] : m \in Parents(n)})

\* The rank made of ranks is one above them.
LEMMA RankAbove ==
    ASSUME NEW n, NEW f, \A m \in Parents(n) : f[m] \in Nat
    PROVE  RankFrom(f, n) \in Nat /\ \A m \in Parents(n) : f[m] < RankFrom(f, n)
  <1> DEFINE ranks == {f[m] : m \in Parents(n)}
  <1>1. IsFiniteSet(Parents(n))
    BY GraphTyped, FS_Subset DEF Parents
  <1>2. ranks \in SUBSET Nat /\ IsFiniteSet(ranks)
    BY <1>1, ImageFinite
  <1>3. CASE Parents(n) = {}
    BY <1>3 DEF RankFrom
  <1>4. CASE Parents(n) # {}
    <2>1. ranks # {}
      BY <1>4
    <2>2. Max(ranks) \in ranks /\ \A j \in ranks : j <= Max(ranks)
      <3> HIDE DEF ranks
      <3> QED
        BY <1>2, <2>1, FiniteMax
    <2>3. RankFrom(f, n) = 1 + Max(ranks)
      BY <1>4 DEF RankFrom
    <2>4. \A m \in Parents(n) : f[m] \in ranks
      OBVIOUS
    <2> HIDE DEF ranks
    <2>5. Max(ranks) \in Nat
      BY <1>2, <2>2
    <2>6. RankFrom(f, n) \in Nat
      BY <2>3, <2>5
    <2>7. ASSUME NEW m \in Parents(n) PROVE f[m] < RankFrom(f, n)
      <3>1. f[m] \in Nat /\ f[m] <= Max(ranks)
        BY <2>2, <2>4
      <3> QED
        BY <2>3, <2>5, <3>1
    <2> QED
      BY <2>6, <2>7
  <1> QED
    BY <1>3, <1>4

\* Edges lead to nodes that are made later, so every node has a rank.
LEMMA RankExists == \E f \in [Nodes -> Nat] : \A n \in Nodes : f[n] = RankFrom(f, n)
  <1> DEFINE D == {X \in SUBSET Nodes :
                     /\ \A n \in X : Parents(n) \subseteq X
                     /\ \E f \in [X -> Nat] : \A n \in X : f[n] = RankFrom(f, n)}
  <1>1. {} \in D
    <2>1. [n \in {} |-> 0] \in [{} -> Nat]
      OBVIOUS
    <2> QED
      BY <2>1
  <1>2. ASSUME NEW X \in SUBSET Nodes, X \in D, X # Nodes
        PROVE  \E x \in Nodes \ X : X \cup {x} \in D
    <2>1. PICK n \in Nodes \ X : \A m \in Nodes \ X : <<m, n>> \notin Edges
      <3>1. Nodes \ X \in SUBSET Nodes /\ Nodes \ X # {}
        BY <1>2
      <3> QED
        BY <3>1, MadeFirst
    <2>2. Parents(n) \subseteq X
      BY <2>1 DEF Parents
    <2>3. PICK f \in [X -> Nat] : \A m \in X : f[m] = RankFrom(f, m)
      BY <1>2
    <2> DEFINE g == [m \in X \cup {n} |-> IF m = n THEN RankFrom(f, n) ELSE f[m]]
    <2>4. \A m \in X \cup {n} : Parents(m) \subseteq X
      BY <1>2, <2>2
    <2>5. \A m \in X \cup {n} : RankFrom(g, m) = RankFrom(f, m)
      <3> SUFFICES ASSUME NEW m \in X \cup {n} PROVE RankFrom(g, m) = RankFrom(f, m)
        OBVIOUS
      <3>1. \A k \in Parents(m) : g[k] = f[k]
        BY <2>1, <2>4
      <3>2. {g[k] : k \in Parents(m)} = {f[k] : k \in Parents(m)}
        BY <3>1
      <3> QED
        BY <3>2 DEF RankFrom
    <2>6. RankFrom(f, n) \in Nat
      BY <2>2, <2>3, RankAbove
    <2>7. g \in [X \cup {n} -> Nat]
      BY <2>6
    <2>8. \A m \in X \cup {n} : g[m] = RankFrom(g, m)
      BY <2>1, <2>3, <2>5
    <2>9. X \cup {n} \in D
      <3> HIDE DEF g
      <3> QED
        BY <2>4, <2>7, <2>8
    <2> QED
      BY <2>9
  <1>3. Nodes \in D
    <2> HIDE DEF D
    <2> QED
      BY <1>1, <1>2, Exhaustion, GraphTyped
  <1> QED
    BY <1>3

\* A node ranks below those in its cluster that have an edge from it.
LEMMA RanksRise ==
    /\ in_cluster_rank \in [Nodes -> Nat]
    /\ \A m, n \in Nodes : <<m, n>> \in Edges /\ Cluster[m] = Cluster[n] =>
         in_cluster_rank[m] < in_cluster_rank[n]
  <1>1. PICK f \in [Nodes -> Nat] : \A n \in Nodes : f[n] = RankFrom(f, n)
    BY RankExists
  <1>2. f = [n \in Nodes |-> RankFrom(f, n)]
    BY <1>1
  <1>3. in_cluster_rank = [n \in Nodes |-> RankFrom(in_cluster_rank, n)]
    BY <1>2 DEF in_cluster_rank, RankFrom, Parents
  <1>4. \A n \in Nodes : in_cluster_rank[n] = RankFrom(in_cluster_rank, n)
    BY <1>3
  <1>5. \A n \in Nodes : in_cluster_rank[n] \in Nat
    <2> SUFFICES ASSUME NEW k \in Nodes, in_cluster_rank[k] \notin Nat PROVE FALSE
      OBVIOUS
    <2> DEFINE S == {n \in Nodes : in_cluster_rank[n] \notin Nat}
    <2>1. PICK n \in S : \A m \in S : <<m, n>> \notin Edges
      <3>1. S \in SUBSET Nodes /\ S # {}
        OBVIOUS
      <3> HIDE DEF S
      <3> QED
        BY <3>1, MadeFirst
    <2>2. \A m \in Parents(n) : in_cluster_rank[m] \in Nat
      BY <2>1 DEF Parents
    <2>3. RankFrom(in_cluster_rank, n) \in Nat
      BY <2>2, RankAbove
    <2> QED
      BY <1>4, <2>1, <2>3
  <1>6. \A m, n \in Nodes : m \in Parents(n) => in_cluster_rank[m] < in_cluster_rank[n]
    BY <1>4, <1>5, RankAbove DEF Parents
  <1> QED
    BY <1>3, <1>5, <1>6 DEF Parents

-----------------------------------------------------------------------------
(* The clusters, from above.                                               *)

\* No cluster is above itself, what is above one above is above, and an edge to another
\* cluster leads down.
LEMMA ClustersOrdered ==
    /\ \A c : <<c, c>> \notin ClusterFeeds
    /\ \A c, d, e : <<c, d>> \in ClusterFeeds /\ <<d, e>> \in ClusterFeeds =>
         <<c, e>> \in ClusterFeeds
    /\ \A m, n \in Nodes : m \in Range(Args[n]) /\ n \notin GlobalLoopers =>
         Cluster[m] = Cluster[n] \/ <<Cluster[m], Cluster[n]>> \in ClusterFeeds
  <1> DEFINE points == Range(Cluster)
             edges == {e \in points \X points :
                         /\ e[1] # e[2]
                         /\ \E f \in AllEdges : e = <<Cluster[f[1]], Cluster[f[2]]>>}
  <1>1. IsFiniteSet(points)
    <2>1. points = {Cluster[n] : n \in Nodes}
      BY GraphTyped DEF Range
    <2> QED
      BY <2>1, GraphTyped, ImageFinite
  <1>2. \A n \in Nodes : Cluster[n] \in points
    BY GraphTyped DEF Range
  <1>3. ClusterFeeds = Closure(edges, points)
    BY ClusterFeedsClosed
  <1>4. \A m, n \in Nodes : m \in Range(Args[n]) /\ n \notin GlobalLoopers =>
          Cluster[m] = Cluster[n] \/ <<Cluster[m], Cluster[n]>> \in edges
    <2> SUFFICES ASSUME NEW m \in Nodes, NEW n \in Nodes, m \in Range(Args[n]),
                        n \notin GlobalLoopers, Cluster[m] # Cluster[n]
                 PROVE  <<Cluster[m], Cluster[n]>> \in edges
      OBVIOUS
    <2>1. <<m, n>> \in AllEdges
      BY DEF AllEdges
    <2> HIDE DEF points
    <2> QED
      BY <1>2, <2>1
  <1>5. edges \in SUBSET (points \X points)
    OBVIOUS
  <1> HIDE DEF points, edges
  <1>6. /\ edges \subseteq ClusterFeeds
        /\ ClusterFeeds \subseteq points \X points
        /\ Passes(ClusterFeeds, points)
    BY <1>1, <1>3, <1>5, ClosureTransitive
  <1>7. \A c : <<c, c>> \notin ClusterFeeds
    BY <1>6, ClustersBuilt DEF points
  <1>8. \A c, d, e : <<c, d>> \in ClusterFeeds /\ <<d, e>> \in ClusterFeeds =>
          <<c, e>> \in ClusterFeeds
    BY <1>6 DEF Passes
  <1> QED
    BY <1>4, <1>6, <1>7, <1>8

-----------------------------------------------------------------------------
(* What the steps do to values and to what is registered for update.       *)

\* Only n may take a value in t, and no value is lost.
StoredIn(t, n) ==
    \A m \in Nodes, s \in Transactions :
        /\ values'[m][s] # values[m][s] => m = n /\ s = t
        /\ values[m][s] # Absent => values'[m][s] # Absent

\* A task of t has begun to update the cluster of n.
BegunWith(t, n) ==
    \A s \in Transactions :
        begun'[s] = IF s = t THEN begun[t] \cup {Cluster[n]} ELSE begun[s]

\* The update of a node: its listeners are registered where it took a value.
Updates(t, n) ==
    /\ phase' = phase
    /\ StoredIn(t, n)
    /\ BegunWith(t, n)
    /\ \A s \in Transactions : \A m \in targets'[s] :
         \/ m \in targets[s] /\ ~(s = t /\ m = n)
         \/ s = t /\ m \in Listeners(n) /\ values'[n][t] # Absent
    /\ \A s \in Transactions : \A m \in left'[s] :
         \/ m \in left[s]
         \/ s = t /\ m \in Listeners(n) /\ Cluster[m] # Cluster[n] /\ Cluster[m] \in begun[t]

\* The update of the looper of a GlobalCellLoop registers nothing.
UpdatesLooper(t, n) ==
    /\ UNCHANGED <<phase, values, left>>
    /\ BegunWith(t, n)
    /\ \A s \in Transactions : targets'[s] \subseteq targets[s]

\* A sink takes a value in a transaction that is open.
Sends(t, n) ==
    /\ UNCHANGED <<phase, begun>>
    /\ StoredIn(t, n)
    /\ \A s \in Transactions : \A m \in targets'[s] :
         m \in targets[s] \/ (s = t /\ m \in Listeners(n))
    /\ \A s \in Transactions : \A m \in left'[s] :
         m \in left[s] \/ (m \in Listeners(n) /\ Cluster[m] = UNMANAGED_CLUSTER_ID)

\* A step that updates nothing: only GlobalCellLoops may take values, and only
\* transactions that do not run lose theirs.
Quiet ==
    /\ UNCHANGED <<targets, begun, left>>
    /\ \A n \in Nodes \ GlobalLoopers, t \in Transactions :
         values'[n][t] # Absent => values[n][t] # Absent
    /\ \A n \in Nodes, t \in Transactions :
         Running(t)' /\ values[n][t] # Absent => values'[n][t] # Absent
    /\ \A t \in Transactions :
         /\ Running(t)' => Running(t) \/ phase[t] = "none"
         /\ phase'[t] \in {"none", "open"} => phase[t] \in {"none", "open"}

\* Update is the update of a node.
LEMMA UpdateUpdates ==
    ASSUME TypeOK, ValuesInv, NEW t \in Transactions, NEW n \in Nodes, Update(t, n)
    PROVE  Updates(t, n)
  <1> DEFINE res == updater(n, t)
             next == IF res \in Value THEN Listeners(n) ELSE {}
  <1>1. /\ n \in targets[t]
        /\ IF res \in Value THEN Store(t, n, res) ELSE UNCHANGED <<values, cleanups>>
        /\ begun' = [begun EXCEPT ![t] = @ \cup {Cluster[n]}]
        /\ targets' = [targets EXCEPT ![t] = (@ \ {n}) \cup
                         {m \in next : TaskTakes(t, Cluster[n], m)}]
        /\ left' = [left EXCEPT ![t] = @ \cup {m \in next : ~TaskTakes(t, Cluster[n], m)}]
        /\ phase' = phase
    BY DEF Update
  <1>2. next \subseteq Listeners(n) /\ (next # {} => res \in Value)
    OBVIOUS
  <1> HIDE DEF res, next
  <1>3. \A m \in Nodes, s \in Transactions :
          values'[m][s] = IF m = n /\ s = t /\ res \in Value THEN res ELSE values[m][s]
    BY <1>1 DEF TypeOK, Store
  <1>4. StoredIn(t, n) /\ (res \in Value => values'[n][t] # Absent)
    BY <1>3, NodeFacts DEF StoredIn
  <1>5. BegunWith(t, n)
    BY <1>1 DEF TypeOK, BegunWith
  <1>6. \A s \in Transactions : \A m \in targets'[s] :
          \/ m \in targets[s] /\ ~(s = t /\ m = n)
          \/ s = t /\ m \in next
    BY <1>1 DEF TypeOK
  <1>7. \A s \in Transactions : \A m \in left'[s] :
          m \in left[s] \/ (s = t /\ m \in next /\ ~TaskTakes(t, Cluster[n], m))
    BY <1>1 DEF TypeOK
  <1>8. \A s \in Transactions : \A m \in targets'[s] :
          \/ m \in targets[s] /\ ~(s = t /\ m = n)
          \/ s = t /\ m \in Listeners(n) /\ values'[n][t] # Absent
    BY <1>2, <1>4, <1>6
  <1>9. \A s \in Transactions : \A m \in left'[s] :
          \/ m \in left[s]
          \/ s = t /\ m \in Listeners(n) /\ Cluster[m] # Cluster[n] /\ Cluster[m] \in begun[t]
    BY <1>2, <1>7 DEF TaskTakes
  <1> QED
    BY <1>1, <1>4, <1>5, <1>8, <1>9 DEF Updates

\* UpdateLooper is the update of the looper of a GlobalCellLoop.
LEMMA UpdateLooperUpdates ==
    ASSUME TypeOK, NEW t \in Transactions, NEW n \in Nodes, UpdateLooper(t, n)
    PROVE  UpdatesLooper(t, n)
  <1>1. /\ begun' = [begun EXCEPT ![t] = @ \cup {Cluster[n]}]
        /\ targets' = [targets EXCEPT ![t] = @ \ {n}]
        /\ UNCHANGED <<phase, values, left>>
    BY DEF UpdateLooper
  <1> QED
    BY <1>1 DEF TypeOK, UpdatesLooper, BegunWith

\* Send gives a sink a value.
LEMMA SendSends ==
    ASSUME TypeOK, NEW t \in Transactions, NEW n \in Sinks, NEW v \in Sent, Send(t, n, v)
    PROVE  Sends(t, n)
  <1>1. /\ Store(t, n, v)
        /\ targets' = [targets EXCEPT ![t] = @ \cup {m \in Listeners(n) : UserTakes(m)}]
        /\ left' = [left EXCEPT ![t] = @ \cup {m \in Listeners(n) : ~UserTakes(m)}]
        /\ UNCHANGED <<phase, begun>>
    BY DEF Send
  <1>2. StoredIn(t, n)
    BY <1>1, NodeFacts DEF TypeOK, Store, StoredIn
  <1>3. \A s \in Transactions : \A m \in targets'[s] :
          m \in targets[s] \/ (s = t /\ m \in Listeners(n))
    BY <1>1 DEF TypeOK
  <1>4. \A s \in Transactions : \A m \in left'[s] :
          m \in left[s] \/ (m \in Listeners(n) /\ Cluster[m] = UNMANAGED_CLUSTER_ID)
    BY <1>1 DEF TypeOK, UserTakes
  <1> QED
    BY <1>1, <1>2, <1>3, <1>4 DEF Sends

\* The end of a transaction erases no value of one that runs.
LEMMA RefreshQuiet ==
    ASSUME TypeOK, ValuesInv, NEW t \in Transactions, Refresh(t)
    PROVE  Quiet
  <1>1. phase[t] = "refreshing" /\ phase' = phase /\ UNCHANGED <<targets, begun, left>>
    BY DEF Refresh, updateVars
  <1>2. PICK n \in cleanups[t] :
             /\ n \in Nodes
             /\ \A s \in Transactions :
                  cleanups'[s] = IF s = t THEN cleanups[t] \ {n} ELSE cleanups[s]
             /\ \A m \in Nodes \ {n} : values'[m] = values[m]
             /\ \A s \in Transactions :
                  values'[n][s] = IF (n \in Cells /\ s < t) \/ (n \notin Cells /\ s = t)
                                    THEN Absent ELSE values[n][s]
             /\ exited' = FALSE
    BY RefreshErases
  <1>3. \A s \in Transactions : s < t => ~Running(s)
    BY <1>1 DEF ValuesInv, Order, Over, Running
  <1>4. ~Running(t)
    BY <1>1 DEF Running
  <1> QED
    BY <1>1, <1>2, <1>3, <1>4 DEF Quiet, Running

\* So does no other step that updates nothing.
LEMMA OthersQuiet ==
    ASSUME TypeOK, ValuesInv, NEW t \in Transactions,
           \/ Begin(t) \/ HandleRegister(t) \/ Submit(t) \/ Finalize(t)
           \/ Refresh(t) \/ Done(t) \/ ReleaseHooks(t) \/ UNCHANGED vars
    PROVE  Quiet
  <1>1. ASSUME UNCHANGED <<values, targets, begun, left>>, NEW p \in Phases \ {"none"},
               phase' = [phase EXCEPT ![t] = p], p \in {"open", "submitted"} =>
                 phase[t] \in {"none", "open"}, p = "open" => phase[t] = "none"
        PROVE  Quiet
    <2>1. \A s \in Transactions : phase'[s] = IF s = t THEN p ELSE phase[s]
      BY <1>1 DEF TypeOK
    <2>2. \A s \in Transactions :
            /\ Running(s)' => Running(s) \/ phase[s] = "none"
            /\ phase'[s] \in {"none", "open"} => phase[s] \in {"none", "open"}
      BY <1>1, <2>1 DEF Running
    <2> QED
      BY <1>1, <2>2 DEF Quiet
  <1>2. CASE Begin(t)
    BY <1>1, <1>2 DEF Begin, Phases, updateVars
  <1>3. CASE Submit(t)
    BY <1>1, <1>3 DEF Submit, Phases, updateVars
  <1>4. CASE Finalize(t)
    BY <1>1, <1>4 DEF Finalize, Phases, updateVars
  <1>5. CASE Done(t)
    BY <1>1, <1>5 DEF Done, Phases, updateVars
  <1>6. CASE ReleaseHooks(t)
    BY <1>1, <1>6 DEF ReleaseHooks, Phases, updateVars
  <1>7. CASE HandleRegister(t)
    <2>1. UNCHANGED <<phase, targets, begun, left>>
      BY <1>7 DEF HandleRegister, updateVars
    <2>2. \A n \in Nodes, s \in Transactions :
            /\ n \notin GlobalLoopers => values'[n] = values[n]
            /\ values[n][s] # Absent => values'[n][s] # Absent
      BY <1>7 DEF HandleRegister, TypeOK
    <2> QED
      BY <2>1, <2>2 DEF Quiet, Running
  <1>8. CASE UNCHANGED vars
    BY <1>8 DEF vars, updateVars, Quiet, Running
  <1> QED
    BY <1>2, <1>3, <1>4, <1>5, <1>6, <1>7, <1>8, RefreshQuiet

\* What every update finds.
Due(t, n) ==
    /\ n \in targets[t]
    /\ MayUpdate(t, n)
    /\ OnTop(t, n)

\* A step is an update of a node or of the looper of a GlobalCellLoop that is due, a send
\* to a sink, or updates nothing.
LEMMA StepKinds ==
    ASSUME TypeOK, ValuesInv, [Next]_vars
    PROVE  \/ \E t \in Transactions, n \in Nodes \ GlobalLoopers : Due(t, n) /\ Updates(t, n)
           \/ \E t \in Transactions, n \in GlobalLoopers : Due(t, n) /\ UpdatesLooper(t, n)
           \/ \E t \in Transactions, n \in Sinks : phase[t] = "open" /\ Sends(t, n)
           \/ Quiet
  <1>1. ASSUME NEW t \in Transactions, NEW n \in Sinks, NEW v \in Sent, Send(t, n, v)
        PROVE  phase[t] = "open" /\ Sends(t, n)
    BY <1>1, SendSends DEF Send
  <1>2. ASSUME NEW t \in Transactions, NEW n \in Nodes, Update(t, n)
        PROVE  n \notin GlobalLoopers /\ Due(t, n) /\ Updates(t, n)
    BY <1>2, UpdateUpdates DEF Update, Due
  <1>3. ASSUME NEW t \in Transactions, NEW n \in Nodes, UpdateLooper(t, n)
        PROVE  n \in GlobalLoopers /\ Due(t, n) /\ UpdatesLooper(t, n)
    BY <1>3, UpdateLooperUpdates DEF UpdateLooper, Due
  <1>4. Rest \/ UNCHANGED vars => Quiet
    BY OthersQuiet, TransactionsNat DEF Rest
  <1> QED
    BY <1>1, <1>2, <1>3, <1>4, OthersQuiet DEF Next

-----------------------------------------------------------------------------
(* Clusters are updated from above.                                        *)

\* Node n took its value from an updater: it is neither sent nor initial, nor
\* put there by a hook.
Updated(t, n) ==
    /\ values[n][t] # Absent
    /\ n \notin Sinks \cup GlobalLoopers
    /\ ~(t = 0 /\ n \in DOMAIN Initial)

\* No stream has a value in the transaction of build.
NoStreamBuilt == \A n \in Nodes \ Cells : values[n][0] = Absent

\* The clusters with an updated node are among those a task has begun, and nothing is
\* registered above those.
BegunFromAbove ==
    \A t \in Transactions :
        /\ phase[t] \in {"none", "open"} => begun[t] = {}
        /\ \A n \in Nodes : Updated(t, n) => Cluster[n] \in begun[t]
        /\ \A d \in begun[t], k \in targets[t] \ GlobalLoopers :
             <<Cluster[k], d>> \notin ClusterFeeds

\* Only the looper of a GlobalCellLoop may be left behind.
LeftLoopers == Sinks # {} => \A t \in Transactions : left[t] \subseteq GlobalLoopers

ClustersInv == NoStreamBuilt /\ BegunFromAbove /\ LeftLoopers

\* What the transaction of build updates is made of cells.
LEMMA BuildTargets ==
    ASSUME TypeOK, ValuesInv, NoStreamBuilt, NEW n \in targets[0]
    PROVE  /\ n \in Cells \ DOMAIN Initial
           /\ Operation[n] \in {"cell_map", "lift", "cell_loop", "global_cell_loop"}
  <1>1. n \in Nodes
    BY TransactionsNat DEF TypeOK
  <1>2. PICK m \in Listened(n) : values[m][0] # Absent
    BY TransactionsNat DEF ValuesInv, Triggered
  <1>3. m \in Cells
    BY <1>1, <1>2, ArgsFacts DEF NoStreamBuilt
  <1>4. Operation[n] \notin {"snapshot", "gate"}
    <2> SUFFICES ASSUME Operation[n] \in {"snapshot", "gate"} PROVE FALSE
      OBVIOUS
    <2>1. m = Args[n][1]
      BY <1>2 DEF Listened
    <2>2. 1 \in DOMAIN Args[n]
      <3>1. Len(Args[n]) >= 2
        BY <1>1, ArgsTyped
      <3> QED
        BY <1>1, <3>1, ArgsFacts
    <2> QED
      BY <1>1, <1>3, <2>1, <2>2, ArgsTyped
  <1>5. PICK i \in DOMAIN Args[n] : m = Args[n][i]
    BY <1>1, <1>2, <1>4 DEF Listened, Range
  <1>6. Operation[n] \in {"cell_map", "lift", "cell_loop", "global_cell_loop"}
    BY <1>1, <1>3, <1>4, <1>5, ArgsTyped
  <1> QED
    BY <1>1, <1>6, InitialHolds DEF Cells, CellOperations

\* A listener is in the cluster of what it listens to or below it.
LEMMA ListenersBelow ==
    ASSUME NEW n \in Nodes, NEW m \in Listeners(n), m \notin GlobalLoopers
    PROVE  \/ Cluster[n] = Cluster[m]
           \/ <<Cluster[n], Cluster[m]>> \in ClusterFeeds
  <1>1. m \in Nodes /\ n \in Range(Args[m])
    BY ListenersFacts, ArgsFacts
  <1> QED
    BY <1>1, ClustersOrdered

\* With a sink in the graph, no other node is in the cluster of the sinks.
LEMMA ListenersManaged ==
    ASSUME NEW n \in Nodes, NEW m \in Listeners(n), Sinks # {}
    PROVE  Cluster[m] # UNMANAGED_CLUSTER_ID
  BY ListenersFacts, ClustersBuilt

\* The initial values register cells, none of them in a cluster nobody takes it from.
LEMMA ClustersInit == Init => ClustersInv
  <1> SUFFICES ASSUME Init PROVE ClustersInv
    OBVIOUS
  <1>1. /\ \A n \in Nodes, t \in Transactions :
             values[n][t] = IF t = 0 /\ n \in DOMAIN Initial THEN Initial[n] ELSE Absent
        /\ \A t \in Transactions : begun[t] = {}
        /\ \A t \in Transactions : \A m \in left[t] :
             /\ \E n \in DOMAIN Initial : m \in Listeners(n)
             /\ Cluster[m] = UNMANAGED_CLUSTER_ID
    BY DEF Init, UserTakes
  <1>2. NoStreamBuilt
    BY <1>1, TransactionsNat, GraphTyped DEF NoStreamBuilt
  <1>3. BegunFromAbove
    BY <1>1 DEF BegunFromAbove, Updated
  <1>4. LeftLoopers
    <2> SUFFICES ASSUME Sinks # {}, NEW t \in Transactions, NEW m \in left[t] PROVE FALSE
      BY DEF LeftLoopers
    <2>1. PICK n \in DOMAIN Initial : m \in Listeners(n)
      BY <1>1
    <2> QED
      BY <1>1, <2>1, NodeFacts, ListenersManaged
  <1> QED
    BY <1>2, <1>3, <1>4 DEF ClustersInv

\* An update keeps it: its listeners are not above what was begun.
LEMMA UpdateFromAbove ==
    ASSUME TypeOK, ValuesInv, ClustersInv, NEW t \in Transactions,
           NEW n \in Nodes \ GlobalLoopers, Due(t, n), Updates(t, n)
    PROVE  ClustersInv'
  <1>1. /\ n \in targets[t]
        /\ \A m \in targets[t] : <<Cluster[m], Cluster[n]>> \notin ClusterFeeds
        /\ phase[t] = "submitted"
    BY DEF Due, MayUpdate, PendingAbove
  <1>2. /\ phase' = phase
        /\ \A m \in Nodes, s \in Transactions : values'[m][s] # values[m][s] => m = n /\ s = t
        /\ \A s \in Transactions :
             begun'[s] = IF s = t THEN begun[t] \cup {Cluster[n]} ELSE begun[s]
        /\ \A s \in Transactions : \A m \in targets'[s] :
             m \in targets[s] \/ (s = t /\ m \in Listeners(n))
        /\ \A s \in Transactions : \A m \in left'[s] :
             \/ m \in left[s]
             \/ s = t /\ m \in Listeners(n) /\ Cluster[m] # Cluster[n] /\ Cluster[m] \in begun[t]
    BY DEF Updates, StoredIn, BegunWith
  <1>3. \A d \in begun[t], k \in targets[t] \ GlobalLoopers :
          <<Cluster[k], d>> \notin ClusterFeeds
    BY DEF ClustersInv, BegunFromAbove
  <1>4. NoStreamBuilt'
    <2>1. t = 0 => n \in Cells
      BY <1>1, BuildTargets DEF ClustersInv
    <2> QED
      BY <1>2, <2>1, TransactionsNat DEF ClustersInv, NoStreamBuilt
  <1>5. ASSUME NEW d \in begun'[t], NEW k \in targets'[t] \ GlobalLoopers
        PROVE  <<Cluster[k], d>> \notin ClusterFeeds
    <2>1. d \in begun[t] \/ d = Cluster[n]
      BY <1>2
    <2>2. CASE k \in targets[t]
      BY <1>1, <1>3, <1>5, <2>1, <2>2
    <2>3. CASE k \in Listeners(n)
      <3>1. \/ Cluster[n] = Cluster[k]
            \/ <<Cluster[n], Cluster[k]>> \in ClusterFeeds
        BY <1>5, <2>3, ListenersBelow
      <3>2. d = Cluster[n] \/ <<Cluster[n], d>> \notin ClusterFeeds
        BY <1>1, <1>3, <2>1
      <3> QED
        BY <3>1, <3>2, ClustersOrdered
    <2> QED
      BY <1>2, <1>5, <2>2, <2>3
  <1>6. BegunFromAbove'
    <2>1. \A s \in Transactions : phase'[s] \in {"none", "open"} => begun'[s] = {}
      BY <1>1, <1>2 DEF ClustersInv, BegunFromAbove
    <2>2. \A s \in Transactions, m \in Nodes : Updated(s, m)' => Cluster[m] \in begun'[s]
      BY <1>2 DEF ClustersInv, BegunFromAbove, Updated
    <2>3. \A s \in Transactions : \A d \in begun'[s], k \in targets'[s] \ GlobalLoopers :
            <<Cluster[k], d>> \notin ClusterFeeds
      <3> SUFFICES ASSUME NEW s \in Transactions, NEW d \in begun'[s],
                          NEW k \in targets'[s] \ GlobalLoopers
                   PROVE  <<Cluster[k], d>> \notin ClusterFeeds
        OBVIOUS
      <3>1. CASE s = t
        BY <1>5, <3>1
      <3>2. CASE s # t
        BY <1>2, <3>2 DEF ClustersInv, BegunFromAbove
      <3> QED
        BY <3>1, <3>2
    <2> QED
      BY <2>1, <2>2, <2>3 DEF BegunFromAbove
  <1>7. LeftLoopers'
    <2> SUFFICES ASSUME Sinks # {}, NEW s \in Transactions, NEW m \in left'[s]
                 PROVE  m \in GlobalLoopers
      BY DEF LeftLoopers
    <2>1. CASE m \in left[s]
      BY <2>1 DEF ClustersInv, LeftLoopers
    <2>2. CASE m \in Listeners(n) /\ Cluster[m] # Cluster[n] /\ Cluster[m] \in begun[t]
      BY <1>1, <1>3, <2>2, ListenersBelow
    <2> QED
      BY <1>2, <2>1, <2>2
  <1> QED
    BY <1>4, <1>6, <1>7 DEF ClustersInv

\* So does the update of the looper of a GlobalCellLoop, below which all waits.
LEMMA UpdateLooperFromAbove ==
    ASSUME TypeOK, ClustersInv, NEW t \in Transactions, NEW n \in GlobalLoopers,
           Due(t, n), UpdatesLooper(t, n)
    PROVE  ClustersInv'
  <1>1. /\ \A m \in targets[t] : <<Cluster[m], Cluster[n]>> \notin ClusterFeeds
        /\ phase[t] = "submitted"
    BY DEF Due, MayUpdate, PendingAbove
  <1>2. /\ UNCHANGED <<phase, values, left>>
        /\ \A s \in Transactions :
             begun'[s] = IF s = t THEN begun[t] \cup {Cluster[n]} ELSE begun[s]
        /\ \A s \in Transactions : targets'[s] \subseteq targets[s]
    BY DEF UpdatesLooper, BegunWith
  <1>3. NoStreamBuilt' /\ LeftLoopers'
    BY <1>2 DEF ClustersInv, NoStreamBuilt, LeftLoopers
  <1>4. \A s \in Transactions : \A d \in begun'[s], k \in targets'[s] \ GlobalLoopers :
          <<Cluster[k], d>> \notin ClusterFeeds
    BY <1>1, <1>2 DEF ClustersInv, BegunFromAbove
  <1>5. \A s \in Transactions :
          /\ phase'[s] \in {"none", "open"} => begun'[s] = {}
          /\ \A m \in Nodes : Updated(s, m)' => Cluster[m] \in begun'[s]
    BY <1>1, <1>2 DEF ClustersInv, BegunFromAbove, Updated
  <1> QED
    BY <1>3, <1>4, <1>5 DEF ClustersInv, BegunFromAbove

\* So does a send: in a transaction that is open nothing was begun.
LEMMA SendFromAbove ==
    ASSUME TypeOK, ValuesInv, ClustersInv, NEW t \in Transactions, NEW n \in Sinks,
           phase[t] = "open", Sends(t, n)
    PROVE  ClustersInv'
  <1>1. /\ UNCHANGED <<phase, begun>>
        /\ \A m \in Nodes, s \in Transactions : values'[m][s] # values[m][s] => m = n /\ s = t
        /\ \A s \in Transactions : \A m \in targets'[s] :
             m \in targets[s] \/ (s = t /\ m \in Listeners(n))
        /\ \A s \in Transactions : \A m \in left'[s] :
             m \in left[s] \/ (m \in Listeners(n) /\ Cluster[m] = UNMANAGED_CLUSTER_ID)
    BY DEF Sends, StoredIn
  <1>2. t # 0 /\ begun[t] = {} /\ n \in Nodes
    BY NodeFacts DEF ValuesInv, Order, ClustersInv, BegunFromAbove
  <1>3. NoStreamBuilt'
    BY <1>1, <1>2, TransactionsNat DEF ClustersInv, NoStreamBuilt
  <1>4. BegunFromAbove'
    <2>1. \A s \in Transactions, m \in Nodes : Updated(s, m)' => Updated(s, m)
      BY <1>1 DEF Updated
    <2>2. \A s \in Transactions : \A d \in begun[s] : targets'[s] \subseteq targets[s]
      BY <1>1, <1>2
    <2> QED
      BY <1>1, <2>1, <2>2 DEF ClustersInv, BegunFromAbove
  <1>5. LeftLoopers'
    BY <1>1, <1>2, ListenersManaged DEF ClustersInv, LeftLoopers
  <1> QED
    BY <1>3, <1>4, <1>5 DEF ClustersInv

\* So does what updates nothing.
LEMMA QuietFromAbove ==
    ASSUME TypeOK, ClustersInv, Quiet
    PROVE  ClustersInv'
  <1>1. /\ UNCHANGED <<targets, begun, left>>
        /\ \A n \in Nodes \ GlobalLoopers, t \in Transactions :
             values'[n][t] # Absent => values[n][t] # Absent
        /\ \A t \in Transactions :
             phase'[t] \in {"none", "open"} => phase[t] \in {"none", "open"}
    BY DEF Quiet
  <1>2. \A n \in Nodes, t \in Transactions : Updated(t, n)' => Updated(t, n)
    BY <1>1 DEF Updated
  <1>3. NoStreamBuilt'
    BY <1>1, TransactionsNat, NodeFacts DEF ClustersInv, NoStreamBuilt
  <1>4. BegunFromAbove' /\ LeftLoopers'
    BY <1>1, <1>2 DEF ClustersInv, BegunFromAbove, LeftLoopers
  <1> QED
    BY <1>3, <1>4 DEF ClustersInv

\* It holds in every run.
LEMMA ClustersCorrect == Spec => [](TypeOK /\ ValuesInv /\ ClustersInv)
  <1>1. TypeOK /\ ValuesInv /\ ClustersInv /\ [Next]_vars => ClustersInv'
    <2> SUFFICES ASSUME TypeOK, ValuesInv, ClustersInv, [Next]_vars PROVE ClustersInv'
      OBVIOUS
    <2> QED
      BY StepKinds, UpdateFromAbove, UpdateLooperFromAbove, SendFromAbove, QuietFromAbove
  <1> QED
    BY <1>1, ClustersInit, ValuesInit, ValuesNext, PTL DEF Spec

\* Where a cluster was begun nothing is left but loopers of GlobalCellLoops, each because
\* a task of its cluster had begun (transaction.cpp:68-81 and 115-134).
THEOREM OnlyGlobalLoopersLeft ==
    ASSUME Sinks # {}
    PROVE  Spec => [](\A t \in Transactions : left[t] \subseteq GlobalLoopers)
  <1>1. ClustersInv => \A t \in Transactions : left[t] \subseteq GlobalLoopers
    BY DEF ClustersInv, LeftLoopers
  <1> QED
    BY <1>1, ClustersCorrect, PTL

-----------------------------------------------------------------------------
(* A node is updated once, after all it depends on.                        *)

\* What is registered for update has no value yet.
Once ==
    \A t \in Transactions : \A n \in targets[t] \ GlobalLoopers : values[n][t] = Absent

\* What was updated ranks no higher than what is still to be, in one cluster and
\* behind the same loopers.
ByRank(behind) ==
    \A t \in Transactions : \A n \in targets[t] \ GlobalLoopers, m \in Nodes :
        Updated(t, m) /\ Cluster[m] = Cluster[n] /\ behind[m] = behind[n] =>
            in_cluster_rank[m] <= in_cluster_rank[n]

\* A looper took its value from its source; and what is behind it has none, and is not
\* registered, before it took one.  Build calls no looper of a stream.
AfterLoopers(behind) ==
    \A t \in Transactions : Running(t) =>
        /\ \A l \in Loopers : values[l][t] # Absent =>
             \E m \in Listened(l) : values[m][t] # Absent
        /\ \A m \in Nodes \ Loopers : \A l \in behind[m] :
             (t # 0 \/ l \in Cells) /\ (m \in targets[t] \/ values[m][t] # Absent) =>
               values[l][t] # Absent

OnceInv(behind) == Once /\ ByRank(behind) /\ AfterLoopers(behind)

\* A looper has its source only to listen to.
LEMMA LooperSource ==
    ASSUME NEW l \in Loopers \cup GlobalLoopers, NEW m \in Listened(l), NEW n \in Listened(l)
    PROVE  m = n
  <1>1. l \in Nodes
    BY NodeFacts
  <1>2. Args[l] \in Seq(Nodes) /\ Len(Args[l]) <= 1
    BY <1>1, ArgsTyped, ArgsFacts
  <1>3. PICK i \in DOMAIN Args[l] : m = Args[l][i]
    BY <1>1, ArgsFacts DEF Range
  <1>4. PICK j \in DOMAIN Args[l] : n = Args[l][j]
    BY <1>1, ArgsFacts DEF Range
  <1>5. i = j
    BY <1>2
  <1> QED
    BY <1>3, <1>4, <1>5

\* A node that is no looper ranks above what it listens to in its cluster.
LEMMA ListenersRank ==
    ASSUME NEW n \in Nodes, NEW m \in Listeners(n) \ (Loopers \cup GlobalLoopers),
           Cluster[m] = Cluster[n]
    PROVE  in_cluster_rank[n] < in_cluster_rank[m]
  <1>1. m \in Nodes /\ n \in Range(Args[m])
    BY ListenersFacts, ArgsFacts
  <1>2. <<n, m>> \in Edges
    BY <1>1 DEF Edges, AllEdges
  <1> QED
    BY <1>1, <1>2, RanksRise

\* No node is registered for update that has its value.
LEMMA ListenerFresh ==
    ASSUME TypeOK, ValuesInv, ClustersInv, NEW behind, LoopsApart(behind), OnceInv(behind),
           NEW t \in Transactions, NEW n \in targets[t] \ GlobalLoopers,
           NEW m \in Listeners(n) \ GlobalLoopers
    PROVE  values[m][t] = Absent /\ m # n
  <1>1. n \in Nodes /\ m \in Nodes \ Sinks /\ n \in Listened(m)
    BY ListenersFacts DEF TypeOK
  <1>2. values[n][t] = Absent
    BY DEF OnceInv, Once
  <1>3. m \in Loopers => m # n
    <2> SUFFICES ASSUME m \in Loopers, m = n PROVE FALSE
      OBVIOUS
    <2>1. PICK k \in Listened(m) : values[k][t] # Absent
      BY DEF ValuesInv, Triggered
    <2> QED
      BY <1>1, <1>2, <2>1, LooperSource
  <1>4. m \notin Loopers => m # n
    <2> SUFFICES ASSUME m \notin Loopers, m = n PROVE FALSE
      OBVIOUS
    <2>1. in_cluster_rank[n] < in_cluster_rank[n]
      BY <1>1, ListenersRank
    <2> QED
      BY <1>1, <2>1, RanksRise
  <1>5. values[m][t] = Absent
    <2> SUFFICES ASSUME values[m][t] # Absent PROVE FALSE
      OBVIOUS
    <2>1. t = 0 => m \notin DOMAIN Initial
      <3> SUFFICES ASSUME t = 0, m \in DOMAIN Initial PROVE FALSE
        OBVIOUS
      <3>1. Operation[m] = "hold"
        BY <1>1, InitialHolds DEF Sinks
      <3>2. Len(Args[m]) = 1 /\ 1 \in DOMAIN Args[m]
        BY <1>1, <3>1, ArgsTyped, ArgsFacts
      <3>3. n = Args[m][1]
        BY <1>1, <3>1, <3>2, ArgsFacts DEF Listened, Range
      <3>4. n \notin Cells
        BY <1>1, <3>1, <3>2, <3>3, ArgsTyped
      <3> QED
        BY <3>4, BuildTargets DEF ClustersInv
    <2>2. Updated(t, m)
      BY <1>1, <2>1 DEF Updated
    <2>3. Cluster[m] \in begun[t]
      BY <1>1, <2>2 DEF ClustersInv, BegunFromAbove
    <2>4. Cluster[m] = Cluster[n]
      BY <1>1, <2>3, ListenersBelow DEF ClustersInv, BegunFromAbove
    <2>5. CASE m \in Loopers
      <3>1. Running(t)
        BY DEF ValuesInv, Triggered
      <3>2. PICK k \in Listened(m) : values[k][t] # Absent
        BY <2>5, <3>1 DEF OnceInv, AfterLoopers
      <3> QED
        BY <1>1, <1>2, <2>5, <3>2, LooperSource
    <2>6. CASE m \notin Loopers
      <3>1. behind[m] = behind[n]
        BY <1>1, <2>4, <2>6 DEF LoopsApart
      <3>2. in_cluster_rank[m] <= in_cluster_rank[n]
        BY <1>1, <2>2, <2>4, <3>1 DEF OnceInv, ByRank
      <3>3. in_cluster_rank[n] < in_cluster_rank[m]
        BY <1>1, <2>4, <2>6, ListenersRank
      <3> QED
        BY <1>1, <3>2, <3>3, RanksRise
    <2> QED
      BY <2>5, <2>6
  <1> QED
    BY <1>3, <1>4, <1>5

\* The cluster of what is registered anew in another cluster is not begun.
LEMMA ListenerOrdered ==
    ASSUME TypeOK, ClustersInv, NEW t \in Transactions, NEW n \in targets[t] \ GlobalLoopers,
           NEW m \in Listeners(n) \ GlobalLoopers, Cluster[m] # Cluster[n]
    PROVE  \A k \in Nodes : Updated(t, k) => Cluster[k] # Cluster[m]
  <1>1. n \in Nodes
    BY DEF TypeOK
  <1> QED
    BY <1>1, ListenersBelow DEF ClustersInv, BegunFromAbove

\* The initial values are nobody's updates, and none is behind the looper of a cell.
LEMMA OnceInit ==
    ASSUME NEW behind, LoopsApart(behind), Init
    PROVE  OnceInv(behind)
  <1>1. /\ \A n \in Nodes, t \in Transactions :
             values[n][t] = IF t = 0 /\ n \in DOMAIN Initial THEN Initial[n] ELSE Absent
        /\ \A t \in Transactions : \A m \in targets[t] :
             t = 0 /\ \E n \in DOMAIN Initial : m \in Listeners(n)
    BY DEF Init
  <1>2. TypeOK /\ ValuesInv /\ ClustersInv
    BY ValuesInit, ClustersInit
  <1>3. Once
    <2>1. \A n \in targets[0] : n \in Nodes /\ n \notin DOMAIN Initial
      BY <1>2, BuildTargets, NodeFacts DEF ClustersInv
    <2> QED
      BY <1>1, <2>1 DEF Once
  <1>4. \A t \in Transactions, n \in Nodes : ~Updated(t, n)
    BY <1>1 DEF Updated
  <1>5. \A t \in Transactions : \A l \in Loopers : values[l][t] = Absent
    BY <1>1, InitialHolds, NodeFacts DEF Loopers
  <1>6. ASSUME NEW m \in Nodes \ Loopers, NEW l \in behind[m], l \in Cells,
               m \in targets[0] \/ values[m][0] # Absent
        PROVE  FALSE
    <2>1. CASE m \in DOMAIN Initial
      BY <1>6, <2>1 DEF LoopsApart
    <2>2. CASE m \notin DOMAIN Initial
      <3>1. m \in targets[0]
        BY <1>1, <1>6, <2>2, TransactionsNat
      <3>2. PICK n \in DOMAIN Initial : m \in Listeners(n)
        BY <1>1, <3>1, TransactionsNat
      <3>3. n \in Listened(m) /\ m \notin Sinks
        BY <3>2, NodeFacts, ListenersFacts
      <3>4. l \in behind[n]
        BY <1>6, <3>3 DEF LoopsApart
      <3> QED
        BY <1>6, <3>4 DEF LoopsApart
    <2> QED
      BY <2>1, <2>2
  <1>7. ASSUME NEW t \in Transactions, NEW m \in Nodes \ Loopers, NEW l \in behind[m],
               t # 0 \/ l \in Cells, m \in targets[t] \/ values[m][t] # Absent
        PROVE  FALSE
    BY <1>1, <1>6, <1>7
  <1>8. AfterLoopers(behind)
    BY <1>5, <1>7 DEF AfterLoopers
  <1> QED
    BY <1>3, <1>4, <1>8 DEF OnceInv, ByRank

\* A looper that the transaction of build calls is that of a cell.
LEMMA LooperOfCell ==
    ASSUME TypeOK, ValuesInv, NoStreamBuilt, NEW n \in targets[0], NEW l \in Loopers,
           n \in Listened(l)
    PROVE  l \in Cells
  <1>1. l \in Nodes
    BY NodeFacts
  <1>2. PICK i \in DOMAIN Args[l] : n = Args[l][i]
    BY <1>1, ArgsFacts DEF Range
  <1>3. Args[l][i] \in Cells
    BY <1>2, BuildTargets
  <1> QED
    BY <1>1, <1>2, <1>3, ArgsTyped DEF Loopers, Cells, CellOperations

\* An update comes first in its cluster, and what it registers ranks above it and is
\* behind the same loopers.
LEMMA UpdateOnce ==
    ASSUME TypeOK, ValuesInv, ClustersInv, NEW behind, LoopsApart(behind), OnceInv(behind),
           NEW t \in Transactions, NEW n \in Nodes \ GlobalLoopers, Due(t, n), Updates(t, n)
    PROVE  OnceInv(behind)'
  <1>1. /\ n \in targets[t]
        /\ \A m \in targets[t] :
             Cluster[m] = Cluster[n] => in_cluster_rank[n] <= in_cluster_rank[m]
    BY DEF Due, OnTop
  <1>2. /\ phase' = phase
        /\ \A m \in Nodes, s \in Transactions :
             /\ values'[m][s] # values[m][s] => m = n /\ s = t
             /\ values[m][s] # Absent => values'[m][s] # Absent
        /\ \A s \in Transactions : \A m \in targets'[s] :
             \/ m \in targets[s] /\ ~(s = t /\ m = n)
             \/ s = t /\ m \in Listeners(n) /\ values'[n][t] # Absent
    BY DEF Updates, StoredIn
  <1>3. \A m \in Listeners(n) \ GlobalLoopers :
          /\ m \in Nodes \ Sinks /\ n \in Listened(m)
          /\ m # n /\ values[m][t] = Absent
    BY <1>1, ListenerFresh, ListenersFacts
  <1>4. Once'
    <2>1. \A s \in Transactions : targets[s] \subseteq Nodes
      BY DEF TypeOK
    <2> QED
      BY <1>2, <1>3, <2>1 DEF OnceInv, Once
  <1>5. AfterLoopers(behind)'
    <2>1. ASSUME NEW s \in Transactions, Running(s), NEW l \in Loopers, values'[l][s] # Absent
          PROVE  \E m \in Listened(l) : values'[m][s] # Absent
      <3>1. l \in Nodes /\ Listened(l) \subseteq Nodes
        BY NodeFacts, ArgsFacts
      <3>2. \E m \in Listened(l) : values[m][s] # Absent
        BY <1>1, <1>2, <2>1, <3>1 DEF ValuesInv, Triggered, OnceInv, AfterLoopers
      <3> QED
        BY <1>2, <3>1, <3>2
    <2>2. ASSUME NEW s \in Transactions, Running(s), NEW m \in Nodes \ Loopers,
                 NEW l \in behind[m], s # 0 \/ l \in Cells,
                 m \in targets'[s] \/ values'[m][s] # Absent
          PROVE  values'[l][s] # Absent
      <3>1. l \in Loopers /\ l \in Nodes
        BY NodeFacts DEF LoopsApart
      <3>2. CASE m \in targets[s] \/ values[m][s] # Absent
        BY <1>2, <2>2, <3>1, <3>2 DEF OnceInv, AfterLoopers
      <3>3. CASE m \notin targets[s] /\ values[m][s] = Absent
        <4>1. CASE m \notin targets'[s]
          BY <1>1, <1>2, <2>2, <3>3, <4>1
        <4>2. CASE m \in targets'[s]
          <5>1. s = t /\ m \in Listeners(n) /\ values'[n][t] # Absent
            BY <1>2, <3>3, <4>2
          <5>2. m \notin GlobalLoopers /\ m \notin Sinks
            BY <2>2 DEF LoopsApart
          <5>3. n \in Listened(m)
            BY <1>3, <5>1, <5>2
          <5>4. l \in behind[n]
            BY <2>2, <5>2, <5>3 DEF LoopsApart
          <5>5. CASE n \in Loopers
            BY <5>1, <5>4, <5>5 DEF LoopsApart
          <5>6. CASE n \notin Loopers
            BY <1>1, <1>2, <2>2, <3>1, <5>1, <5>4, <5>6 DEF OnceInv, AfterLoopers
          <5> QED
            BY <5>5, <5>6
        <4> QED
          BY <4>1, <4>2
      <3> QED
        BY <3>2, <3>3
    <2> QED
      BY <1>2, <2>1, <2>2 DEF AfterLoopers, Running
  <1>6. ByRank(behind)'
    <2> SUFFICES ASSUME NEW s \in Transactions, NEW k \in targets'[s] \ GlobalLoopers,
                        NEW m \in Nodes, Updated(s, m)', Cluster[m] = Cluster[k],
                        behind[m] = behind[k]
                 PROVE  in_cluster_rank[m] <= in_cluster_rank[k]
      BY DEF ByRank
    <2>1. (s = t /\ m = n) \/ Updated(s, m)
      BY <1>2 DEF Updated
    <2>2. CASE k \in targets[s]
      BY <1>1, <2>1, <2>2 DEF OnceInv, ByRank
    <2>3. CASE k \notin targets[s]
      <3>1. s = t /\ k \in Listeners(n) \ GlobalLoopers
        BY <1>2, <2>3
      <3>2. k \in Nodes \ Sinks /\ n \in Listened(k)
        BY <1>3, <3>1
      <3>3. Cluster[k] = Cluster[n]
        BY <1>1, <2>1, <3>1, ListenerOrdered
      <3>4. CASE k \notin Loopers
        <4>1. behind[k] = behind[n]
          BY <3>1, <3>2, <3>3, <3>4 DEF LoopsApart
        <4>2. in_cluster_rank[n] < in_cluster_rank[k]
          BY <3>1, <3>3, <3>4, ListenersRank
        <4>3. in_cluster_rank[m] <= in_cluster_rank[n]
          BY <1>1, <2>1, <3>1, <3>3, <4>1, RanksRise DEF OnceInv, ByRank
        <4> QED
          BY <3>2, <4>2, <4>3, RanksRise
      <3>5. CASE k \in Loopers
        <4>1. values'[k][t] = Absent
          BY <1>4, <3>1 DEF Once
        <4>2. values'[m][t] # Absent
          BY <3>1 DEF Updated
        <4>3. k \in behind[m] /\ m \notin Loopers
          BY <3>5, <4>1, <4>2 DEF LoopsApart
        <4>4. t # 0 \/ k \in Cells
          BY <1>1, <3>2, <3>5, LooperOfCell DEF ClustersInv
        <4>5. Running(t)'
          BY <1>1, <1>2 DEF ValuesInv, Triggered, Running
        <4> QED
          BY <1>5, <4>1, <4>2, <4>3, <4>4, <4>5 DEF AfterLoopers
      <3> QED
        BY <3>4, <3>5
    <2> QED
      BY <2>2, <2>3
  <1> QED
    BY <1>4, <1>5, <1>6 DEF OnceInv

\* The update of the looper of a GlobalCellLoop leaves the others what they are.
LEMMA UpdateLooperOnce ==
    ASSUME NEW behind, OnceInv(behind), NEW t \in Transactions, NEW n \in GlobalLoopers,
           UpdatesLooper(t, n)
    PROVE  OnceInv(behind)'
  <1>1. /\ UNCHANGED <<phase, values>>
        /\ \A s \in Transactions : targets'[s] \subseteq targets[s]
    BY DEF UpdatesLooper
  <1>2. Once' /\ ByRank(behind)'
    BY <1>1 DEF OnceInv, Once, ByRank, Updated
  <1>3. AfterLoopers(behind)'
    BY <1>1 DEF OnceInv, AfterLoopers, Running
  <1> QED
    BY <1>2, <1>3 DEF OnceInv

\* What a send registers is behind no looper, and nothing was updated.
LEMMA SendOnce ==
    ASSUME TypeOK, ValuesInv, ClustersInv, NEW behind, LoopsApart(behind), OnceInv(behind),
           NEW t \in Transactions, NEW n \in Sinks, phase[t] = "open", Sends(t, n)
    PROVE  OnceInv(behind)'
  <1>1. /\ phase' = phase
        /\ \A m \in Nodes, s \in Transactions :
             /\ values'[m][s] # values[m][s] => m = n /\ s = t
             /\ values[m][s] # Absent => values'[m][s] # Absent
        /\ \A s \in Transactions : \A m \in targets'[s] :
             m \in targets[s] \/ (s = t /\ m \in Listeners(n))
    BY DEF Sends, StoredIn
  <1>2. t # 0 /\ n \in Nodes /\ \A m \in Nodes : ~Updated(t, m)
    BY NodeFacts DEF ValuesInv, Order, ClustersInv, BegunFromAbove
  <1>3. \A m \in Listeners(n) : m \in Nodes \ Sinks /\ n \in Listened(m)
    BY <1>2, ListenersFacts
  <1>4. \A s \in Transactions : targets[s] \subseteq Nodes \ Sinks
    BY DEF TypeOK
  <1>5. Once'
    <2> SUFFICES ASSUME NEW s \in Transactions, NEW m \in targets'[s] \ GlobalLoopers
                 PROVE  values'[m][s] = Absent
      BY DEF Once
    <2>1. m \in Nodes \ Sinks
      BY <1>1, <1>3, <1>4
    <2>2. values'[m][s] = values[m][s]
      BY <1>1, <2>1
    <2>3. CASE m \in targets[s]
      BY <2>2, <2>3 DEF OnceInv, Once
    <2>4. CASE m \notin targets[s]
      BY <1>1, <1>2, <2>1, <2>2, <2>4 DEF Updated
    <2> QED
      BY <2>3, <2>4
  <1>6. ByRank(behind)'
    <2>1. \A s \in Transactions, m \in Nodes : Updated(s, m)' => Updated(s, m) /\ s # t
      BY <1>1, <1>2 DEF Updated
    <2> QED
      BY <1>1, <2>1 DEF OnceInv, ByRank
  <1>7. AfterLoopers(behind)'
    <2>1. ASSUME NEW s \in Transactions, Running(s), NEW l \in Loopers, values'[l][s] # Absent
          PROVE  \E m \in Listened(l) : values'[m][s] # Absent
      <3>1. l \in Nodes /\ l # n /\ Listened(l) \subseteq Nodes
        BY NodeFacts, ArgsFacts
      <3>2. \E m \in Listened(l) : values[m][s] # Absent
        BY <1>1, <2>1, <3>1 DEF OnceInv, AfterLoopers
      <3> QED
        BY <1>1, <3>1, <3>2
    <2>2. ASSUME NEW s \in Transactions, Running(s), NEW m \in Nodes \ Loopers,
                 NEW l \in behind[m], s # 0 \/ l \in Cells,
                 m \in targets'[s] \/ values'[m][s] # Absent
          PROVE  values'[l][s] # Absent
      <3>1. l \in Nodes /\ m \notin Sinks \cup GlobalLoopers
        BY <2>2, NodeFacts DEF LoopsApart
      <3>2. m \in targets[s] \/ values[m][s] # Absent
        <4>1. behind[n] = {}
          BY <1>2 DEF LoopsApart
        <4>2. m \notin Listeners(n)
          BY <1>3, <2>2, <3>1, <4>1 DEF LoopsApart
        <4> QED
          BY <1>1, <2>2, <3>1, <4>2
      <3> QED
        BY <1>1, <2>2, <3>1, <3>2 DEF OnceInv, AfterLoopers
    <2> QED
      BY <1>1, <2>1, <2>2 DEF AfterLoopers, Running
  <1> QED
    BY <1>5, <1>6, <1>7 DEF OnceInv

\* A transaction that begins has no values yet, and one that runs loses none.
LEMMA QuietOnce ==
    ASSUME TypeOK, ValuesInv, NEW behind, LoopsApart(behind), OnceInv(behind), Quiet
    PROVE  OnceInv(behind)'
  <1>1. /\ targets' = targets
        /\ \A n \in Nodes \ GlobalLoopers, t \in Transactions :
             values'[n][t] # Absent => values[n][t] # Absent
        /\ \A n \in Nodes, t \in Transactions :
             Running(t)' /\ values[n][t] # Absent => values'[n][t] # Absent
        /\ \A t \in Transactions : Running(t)' => Running(t) \/ phase[t] = "none"
    BY DEF Quiet
  <1>2. \A t \in Transactions : targets[t] \subseteq Nodes
    BY DEF TypeOK
  <1>3. Once'
    BY <1>1, <1>2 DEF OnceInv, Once
  <1>4. \A t \in Transactions, n \in Nodes : Updated(t, n)' => Updated(t, n)
    BY <1>1 DEF Updated
  <1>5. ByRank(behind)'
    BY <1>1, <1>4 DEF OnceInv, ByRank
  <1>6. ASSUME NEW t \in Transactions, Running(t)'
        PROVE  /\ \A l \in Loopers : values'[l][t] # Absent =>
                    \E m \in Listened(l) : values'[m][t] # Absent
               /\ \A m \in Nodes \ Loopers : \A l \in behind[m] :
                    (t # 0 \/ l \in Cells) /\ (m \in targets'[t] \/ values'[m][t] # Absent) =>
                      values'[l][t] # Absent
    <2>1. \A l \in Loopers : l \in Nodes \ GlobalLoopers /\ Listened(l) \subseteq Nodes
      BY NodeFacts, ArgsFacts
    <2>2. \A m \in Nodes : behind[m] # {} => m \notin GlobalLoopers
      BY DEF LoopsApart
    <2>3. \A m \in Nodes : behind[m] \subseteq Loopers
      BY DEF LoopsApart
    <2>4. CASE phase[t] = "none"
      <3>1. \A m \in Nodes \ GlobalLoopers : values'[m][t] = Absent /\ m \notin targets'[t]
        BY <1>1, <2>4 DEF ValuesInv, Stored, Triggered, Running
      <3> QED
        BY <2>1, <2>2, <3>1
    <2>5. CASE Running(t)
      <3>1. \A l \in Loopers : values[l][t] # Absent =>
              \E m \in Listened(l) : values[m][t] # Absent
        BY <2>5 DEF OnceInv, AfterLoopers
      <3>2. \A m \in Nodes \ Loopers : \A l \in behind[m] :
              (t # 0 \/ l \in Cells) /\ (m \in targets[t] \/ values[m][t] # Absent) =>
                values[l][t] # Absent
        BY <2>5 DEF OnceInv, AfterLoopers
      <3>3. \A l \in Loopers : values'[l][t] # Absent =>
              \E m \in Listened(l) : values'[m][t] # Absent
        BY <1>1, <1>6, <2>1, <3>1
      <3> QED
        BY <1>1, <1>6, <2>1, <2>2, <2>3, <3>2, <3>3
    <2> QED
      BY <1>1, <1>6, <2>4, <2>5
  <1>7. AfterLoopers(behind)'
    BY <1>6 DEF AfterLoopers
  <1> QED
    BY <1>3, <1>5, <1>7 DEF OnceInv

\* It holds in every run.
LEMMA OnceCorrect ==
    ASSUME NEW behind, LoopsApart(behind)
    PROVE  Spec => [](TypeOK /\ ValuesInv /\ ClustersInv /\ OnceInv(behind))
  <1>1. TypeOK /\ ValuesInv /\ ClustersInv /\ OnceInv(behind) /\ [Next]_vars =>
          OnceInv(behind)'
    <2> SUFFICES ASSUME TypeOK, ValuesInv, ClustersInv, OnceInv(behind), [Next]_vars
                 PROVE  OnceInv(behind)'
      OBVIOUS
    <2> QED
      BY StepKinds, UpdateOnce, UpdateLooperOnce, SendOnce, QuietOnce
  <1>2. Init => OnceInv(behind)
    BY OnceInit
  <1> QED
    BY <1>1, <1>2, ClustersCorrect, PTL DEF Spec

\* No step changes a value that an updater computed, but to erase it.
LEMMA ValueOnce ==
    ASSUME TypeOK, ValuesInv, NEW behind, OnceInv(behind), [Next]_vars,
           NEW n \in Nodes \ Sinks, NEW t \in Transactions, values[n][t] # Absent
    PROVE  values'[n][t] \in {values[n][t], Absent}
  <1>1. CASE values' = values
    BY <1>1
  <1>2. ASSUME NEW s \in Transactions, HandleRegister(s)
        PROVE  values'[n][t] = values[n][t]
    <2>1. CASE n \in GlobalLoopers
      <3>1. t # s
        BY <1>2, <2>1 DEF HandleRegister, ValuesInv, Stored
      <3> QED
        BY <1>2, <3>1 DEF HandleRegister, TypeOK
    <2>2. CASE n \notin GlobalLoopers
      BY <1>2, <2>2 DEF HandleRegister, TypeOK
    <2> QED
      BY <2>1, <2>2
  <1>3. ASSUME NEW s \in Transactions, NEW m \in Sinks, NEW v \in Sent, Send(s, m, v)
        PROVE  values'[n][t] = values[n][t]
    <2>1. StoredIn(s, m)
      BY <1>3, SendSends DEF Sends
    <2> QED
      BY <2>1 DEF StoredIn
  <1>4. ASSUME NEW s \in Transactions, NEW m \in Nodes, Update(s, m)
        PROVE  values'[n][t] = values[n][t]
    <2>1. StoredIn(s, m)
      BY <1>4, UpdateUpdates DEF Updates
    <2>2. values[m][s] = Absent
      BY <1>4 DEF Update, OnceInv, Once
    <2> QED
      BY <2>1, <2>2 DEF StoredIn
  <1>5. ASSUME NEW s \in Transactions, Refresh(s)
        PROVE  values'[n][t] \in {values[n][t], Absent}
    BY <1>5, RefreshErases
  <1>6. ASSUME NEW s \in Transactions,
               \/ Begin(s) \/ Submit(s) \/ Finalize(s) \/ Done(s) \/ ReleaseHooks(s)
               \/ \E m \in Nodes : UpdateLooper(s, m)
        PROVE  values' = values
    BY <1>6 DEF Begin, Submit, Finalize, Done, ReleaseHooks, UpdateLooper
  <1>7. Rest \/ UNCHANGED vars => values' = values
    BY DEF Rest, vars
  <1> QED
    BY <1>1, <1>2, <1>3, <1>4, <1>5, <1>6, <1>7 DEF Next

\* Where loops are apart, every node is computed once in a transaction, after all it
\* depends on: clusters come from above and the priority queue orders each
\* (cell.hpp:88-92, transaction.hpp:95-100).
THEOREM ValuesComputedOnce ==
    ASSUME NEW behind, LoopsApart(behind)
    PROVE  Spec => OneValuePerTransaction
  <1>1. TypeOK /\ ValuesInv /\ OnceInv(behind) /\ [Next]_vars =>
          [\A n \in Nodes \ Sinks, t \in Transactions :
             values[n][t] # Absent => values[n][t]' \in {values[n][t], Absent}]_vars
    BY ValueOnce
  <1> QED
    BY <1>1, OnceCorrect, PTL DEF Spec, OneValuePerTransaction

-----------------------------------------------------------------------------
(* GlobalCellLoops.                                                        *)

\* The looper of a GlobalCellLoop that is alone in a begun cluster heard of its source.
LoopersHeard ==
    \A t \in Transactions, g \in GlobalLoopers :
        (\A n \in Nodes : Cluster[n] = Cluster[g] => n = g) =>
            (Running(t) /\ Cluster[g] \in begun[t] =>
               \E m \in Listened(g) : values[m][t] # Absent)

\* With the loopers of GlobalCellLoops apart, none is registered after its cluster began.
NoneLeftInv == LoopersHeard /\ \A t \in Transactions : left[t] = {}

\* At the start nothing has begun.
LEMMA NoneLeftInit ==
    ASSUME Sinks # {}, Init
    PROVE  NoneLeftInv
  <1>1. \A t \in Transactions : begun[t] = {}
    BY DEF Init
  <1>2. \A t \in Transactions : \A m \in left[t] :
          /\ \E n \in DOMAIN Initial : m \in Listeners(n)
          /\ Cluster[m] = UNMANAGED_CLUSTER_ID
    BY DEF Init, UserTakes
  <1>3. \A t \in Transactions : left[t] = {}
    BY <1>2, NodeFacts, ListenersManaged
  <1> QED
    BY <1>1, <1>3 DEF NoneLeftInv, LoopersHeard

\* A step begins the cluster of such a looper with the looper itself, and registers
\* it before.
LEMMA NoneLeftNext ==
    ASSUME GlobalLoopsApart, Sinks # {}, TypeOK, ValuesInv, ClustersInv,
           NEW behind, OnceInv(behind), NoneLeftInv, [Next]_vars
    PROVE  NoneLeftInv'
  <1>1. \A n \in Nodes : Listened(n) \subseteq Nodes
    BY ArgsFacts
  <1>2. ASSUME NEW t \in Transactions, NEW n \in Nodes, phase' = phase, BegunWith(t, n),
               \A m \in Nodes, s \in Transactions : values[m][s] # Absent =>
                 values'[m][s] # Absent,
               n \in GlobalLoopers => \E m \in Listened(n) : values[m][t] # Absent
        PROVE  LoopersHeard'
    <2> SUFFICES ASSUME NEW s \in Transactions, NEW g \in GlobalLoopers,
                        Running(s), Cluster[g] \in begun'[s],
                        \A m \in Nodes : Cluster[m] = Cluster[g] => m = g
                 PROVE  \E m \in Listened(g) : values'[m][s] # Absent
      BY <1>2 DEF LoopersHeard, Running
    <2>1. \/ Cluster[g] \in begun[s]
          \/ s = t /\ n = g
      BY <1>2 DEF BegunWith
    <2>2. \E m \in Listened(g) : values[m][s] # Absent
      BY <1>2, <2>1 DEF NoneLeftInv, LoopersHeard
    <2> QED
      BY <1>1, <1>2, <2>2, NodeFacts
  <1>3. ASSUME NEW t \in Transactions, NEW n \in Nodes \ GlobalLoopers,
               Due(t, n), Updates(t, n)
        PROVE  NoneLeftInv'
    <2>1. LoopersHeard'
      BY <1>2, <1>3 DEF Updates, StoredIn
    <2>2. n \in targets[t] /\ Running(t) /\ values[n][t] = Absent
      BY <1>3 DEF Due, ValuesInv, Triggered, OnceInv, Once
    <2>3. ASSUME NEW m \in Listeners(n), Cluster[m] # Cluster[n], Cluster[m] \in begun[t]
          PROVE  FALSE
      <3>1. n \in Listened(m)
        BY ListenersFacts
      <3>2. <<Cluster[n], Cluster[m]>> \notin ClusterFeeds
        BY <2>2, <2>3 DEF ClustersInv, BegunFromAbove
      <3>3. m \in GlobalLoopers
        BY <2>3, <3>2, ListenersBelow
      <3>4. \A k \in Nodes : Cluster[k] = Cluster[m] => k = m
        BY <2>3, <3>1, <3>2, <3>3 DEF GlobalLoopsApart
      <3>5. PICK k \in Listened(m) : values[k][t] # Absent
        BY <2>2, <2>3, <3>3, <3>4 DEF NoneLeftInv, LoopersHeard
      <3> QED
        BY <2>2, <3>1, <3>3, <3>5, LooperSource
    <2>4. \A s \in Transactions : left'[s] = {}
      BY <1>3, <2>3 DEF Updates, NoneLeftInv
    <2> QED
      BY <2>1, <2>4 DEF NoneLeftInv
  <1>4. ASSUME NEW t \in Transactions, NEW n \in GlobalLoopers, Due(t, n), UpdatesLooper(t, n)
        PROVE  NoneLeftInv'
    <2>1. \E m \in Listened(n) : values[m][t] # Absent
      BY <1>4 DEF Due, ValuesInv, Triggered
    <2>2. LoopersHeard'
      BY <1>2, <1>4, <2>1, NodeFacts DEF UpdatesLooper
    <2> QED
      BY <1>4, <2>2 DEF UpdatesLooper, NoneLeftInv
  <1>5. ASSUME NEW t \in Transactions, NEW n \in Sinks, phase[t] = "open", Sends(t, n)
        PROVE  NoneLeftInv'
    <2>1. n \in Nodes
      BY NodeFacts
    <2>2. \A s \in Transactions : left'[s] = {}
      BY <1>5, <2>1, ListenersManaged DEF Sends, NoneLeftInv
    <2>3. /\ UNCHANGED <<phase, begun>>
          /\ \A m \in Nodes, s \in Transactions :
               values[m][s] # Absent => values'[m][s] # Absent
      BY <1>5 DEF Sends, StoredIn
    <2>4. LoopersHeard'
      BY <1>1, <2>3, NodeFacts DEF NoneLeftInv, LoopersHeard, Running
    <2> QED
      BY <2>2, <2>4 DEF NoneLeftInv
  <1>6. CASE Quiet
    <2>1. UNCHANGED <<begun, left>>
      BY <1>6 DEF Quiet
    <2>2. ASSUME NEW t \in Transactions, NEW g \in GlobalLoopers, Running(t)',
                 Cluster[g] \in begun[t],
                 \A n \in Nodes : Cluster[n] = Cluster[g] => n = g
          PROVE  \E m \in Listened(g) : values'[m][t] # Absent
      <3>1. Running(t)
        BY <1>6, <2>2 DEF Quiet, ClustersInv, BegunFromAbove
      <3>2. PICK m \in Listened(g) : values[m][t] # Absent
        BY <2>2, <3>1 DEF NoneLeftInv, LoopersHeard
      <3> QED
        BY <1>1, <1>6, <2>2, <3>2, NodeFacts DEF Quiet
    <2> QED
      BY <2>1, <2>2 DEF NoneLeftInv, LoopersHeard
  <1> QED
    BY <1>3, <1>4, <1>5, <1>6, StepKinds

\* Where loops are apart, and the looper of every GlobalCellLoop is in the cluster of its
\* source, below it or alone in its own, all that is registered for update is updated
\* (transaction.cpp:68-81 and 115-134).
THEOREM NothingIsLeft ==
    ASSUME NEW behind, LoopsApart(behind), GlobalLoopsApart, Sinks # {}
    PROVE  Spec => []NoneLeft
  <1>1. TypeOK /\ ValuesInv /\ ClustersInv /\ OnceInv(behind) /\ NoneLeftInv /\ [Next]_vars =>
          NoneLeftInv'
    BY NoneLeftNext
  <1>2. Init => NoneLeftInv
    BY NoneLeftInit
  <1>3. NoneLeftInv => NoneLeft
    BY DEF NoneLeftInv, NoneLeft
  <1> QED
    BY <1>1, <1>2, <1>3, OnceCorrect, PTL DEF Spec

-----------------------------------------------------------------------------
(* Values implements Sequential.                                           *)

\* A node of the graph that n listens to has a value in t: GlobalCellLoops call nobody.
Called(t, n) == \E m \in Listened(n) \ GlobalLoopers : values[m][t] # Absent

\* Node n was to be updated in t, and was.
Ran(t, n) == n \in Nodes \ (Sinks \cup GlobalLoopers) /\ Called(t, n) /\ n \notin targets[t]

\* What a transaction means: the values nodes take in it, those the cells had before,
\* what was sent, and what it sees in the loopers of GlobalCellLoops.
New(t) == [n \in Nodes |-> IF n \in GlobalLoopers THEN Absent ELSE values[n][t]]
Old(t) == [n \in Nodes |-> IF n \in Cells \ GlobalLoopers /\ t > 0 THEN Sample(n, t - 1)
                           ELSE Absent]
Inputs(t) == IF t = 0 THEN Initial
             ELSE [n \in {m \in Sinks : values[m][t] # Absent} |-> values[n][t]]
View(t) == [g \in GlobalLoopers |-> CellSample(g, t)]

\* No node takes a value uncalled, but a sink and what has an initial value.
CalledFirst ==
    \A t \in Transactions : Running(t) =>
        /\ \A n \in targets[t] : Called(t, n)
        /\ \A n \in Nodes \ (Sinks \cup GlobalLoopers) :
             values[n][t] # Absent => Called(t, n) \/ (t = 0 /\ n \in DOMAIN Initial)
        /\ \A n \in Sinks : values[n][t] # Absent /\ t > 0 => values[n][t] \in Sent
        /\ t = 0 => \A n \in Sinks \cup DOMAIN Initial :
             values[n][0] = IF n \in DOMAIN Initial THEN Initial[n] ELSE Absent

\* Transactions are opened after the build, and begin and end after they are registered.
Known ==
    /\ \A t \in Transactions \ {0} : phase[t] # "none" => phase[0] \in {"woken", "done"}
    /\ 0 \in registered
    /\ \A t \in Transactions : Over(t) \/ begun[t] # {} => t \in registered
    /\ \A t \in Transactions : cleanups[t] \cap GlobalLoopers = {}

\* The cluster of what ran has begun, and when a cluster begins older transactions are
\* submitted and have nothing to update there or above.
BegunAfterOlder ==
    /\ \A t \in Transactions, n \in Nodes : Running(t) /\ Ran(t, n) => Cluster[n] \in begun[t]
    /\ \A t \in Transactions : \A d \in begun[t], s \in 0 .. (t - 1) :
         /\ phase[s] \notin {"none", "open"}
         /\ \A k \in targets[s] \ GlobalLoopers :
              Cluster[k] # d /\ <<Cluster[k], d>> \notin ClusterFeeds

\* What ran ranks no higher than what is still to run, unless that waits for another
\* looper.
RanByRank(behind) ==
    \A t \in Transactions : Running(t) =>
        \A n \in Nodes, k \in targets[t] \ GlobalLoopers :
            /\ Ran(t, n) /\ Cluster[k] = Cluster[n]
            /\ behind[k] = {} \/ behind[k] = behind[n]
            => in_cluster_rank[n] <= in_cluster_rank[k]

\* What ran took the value that it should.
RanRight ==
    \A t \in Transactions, n \in Nodes :
        Running(t) /\ Ran(t, n) =>
            values[n][t] = Meaning!Taken(n, New(t), Old(t), Inputs(t), View(t))

\* The hooks of a transaction hold what the sources of loopers take.
HooksRight ==
    \A t \in Transactions, g \in GlobalLoopers :
        phase[t] \in {"none", "open", "submitted"} /\ g \notin targets[t] =>
            before_update_hooks_buffers[t][g] = New(t)[Args[g][1]]

\* The values that cells have, of the last transaction that is over.
Now == [n \in Nodes |-> IF n \in Cells \ GlobalLoopers /\ Finalized # {}
                         THEN Sample(n, Max(Finalized)) ELSE Absent]

\* The last value of a looper, or what waits for the next transaction.
LastHeld(g) ==
    IF before_update_hooks[g] # Absent THEN before_update_hooks[g]
    ELSE CellSample(g, MaxTransactions - 1)

\* It is the value of its source, when what the transaction that ends holds is counted.
LoopersFollow ==
    \A g \in GlobalLoopers :
        /\ ExecutorFree => LastHeld(g) = Now[Args[g][1]]
        /\ \A t \in Transactions : phase[t] \in {"refreshing", "woken"} =>
             Now[Args[g][1]] = IF before_update_hooks_buffers[t][g] # Absent
                                 THEN before_update_hooks_buffers[t][g] ELSE LastHeld(g)

RunInv(behind) == CalledFirst /\ BegunAfterOlder /\ RanByRank(behind) /\ RanRight
MeaningInv(behind) == Known /\ RunInv(behind) /\ HooksRight /\ LoopersFollow

-----------------------------------------------------------------------------
(* What a node takes in Sequential.                                        *)

\* What Sequential names is what Values names.
LEMMA MeaningNames ==
    /\ Meaning!Sinks = Sinks
    /\ Meaning!GlobalLoopers = GlobalLoopers
    /\ Meaning!Cells = Cells
    /\ \A f : Meaning!Range(f) = Range(f)
  BY DEF Meaning!Sinks, Sinks, Meaning!GlobalLoopers, GlobalLoopers, Meaning!Cells, Cells,
         Meaning!CellOperations, CellOperations, Meaning!Range, Range

\* A node that is neither a sink nor the looper of a GlobalCellLoop, by its operation.
LEMMA Kinds ==
    ASSUME NEW n \in Nodes \ (Sinks \cup GlobalLoopers)
    PROVE  Operation[n] \in {"cell_map", "stream_map", "lift", "hold", "cell_loop",
                             "stream_loop", "snapshot", "merge", "filter", "gate"}
  BY GraphTyped DEF Sinks, GlobalLoopers, CellOperations, StreamOperations

\* Its arguments: the first is there, and is listened to.
LEMMA KindArgs ==
    ASSUME NEW behind, LoopsClosed(behind), NEW n \in Nodes \ (Sinks \cup GlobalLoopers)
    PROVE  /\ 1 \in DOMAIN Args[n] /\ Args[n][1] \in Listened(n)
           /\ Operation[n] \in {"merge", "gate"} =>
                2 \in DOMAIN Args[n] /\ DOMAIN Args[n] = {1, 2}
           /\ Operation[n] = "merge" => Args[n][2] \in Listened(n)
           /\ Operation[n] = "lift" => \A i \in DOMAIN Args[n] :
                Args[n][i] \in Listened(n) \ GlobalLoopers /\ Args[n][i] \in Cells
           /\ Operation[n] \in {"snapshot", "gate"} => \A i \in DOMAIN Args[n] \ {1} :
                Args[n][i] \in Range(Args[n]) \ Listened(n) /\ Args[n][i] \in Cells
           /\ Listened(n) \subseteq Range(Args[n])
           /\ Operation[n] \notin {"lift", "merge"} => Listened(n) = {Args[n][1]}
  <1>1. /\ Args[n] \in Seq(Nodes) /\ DOMAIN Args[n] = 1 .. Len(Args[n]) /\ Len(Args[n]) \in Nat
        /\ Range(Args[n]) = {Args[n][i] : i \in DOMAIN Args[n]}
    BY GraphTyped DEF Range
  <1>2. Len(Args[n]) >= 1
    <2>1. n \in Loopers => Args[n] # <<>>
      BY DEF LoopsClosed
    <2> QED
      BY <1>1, <2>1, Kinds, ArgsTyped DEF Loopers
  <1>3. 1 \in DOMAIN Args[n] /\ Args[n][1] \in Listened(n)
    BY <1>1, <1>2 DEF Listened
  <1>4. Operation[n] \in {"merge", "gate"} => Len(Args[n]) = 2
    BY ArgsTyped
  <1>5. Operation[n] = "lift" => \A i \in DOMAIN Args[n] :
                Args[n][i] \in Listened(n) \ GlobalLoopers /\ Args[n][i] \in Cells
    BY <1>1, ArgsTyped, GlobalLoopersRead DEF Listened
  <1>6. Operation[n] \in {"snapshot", "gate"} => \A i \in DOMAIN Args[n] \ {1} :
                Args[n][i] \in Range(Args[n]) \ Listened(n) /\ Args[n][i] \in Cells
    <2> SUFFICES ASSUME Operation[n] \in {"snapshot", "gate"}, NEW i \in DOMAIN Args[n] \ {1}
                 PROVE  Args[n][i] \in Range(Args[n]) \ Listened(n) /\ Args[n][i] \in Cells
      OBVIOUS
    <2>1. Args[n][i] \in Cells /\ Args[n][1] \notin Cells
      BY <1>1, <1>3, ArgsTyped
    <2> QED
      BY <1>1, <2>1 DEF Listened
  <1>7. Operation[n] \notin {"lift", "merge"} => Listened(n) = {Args[n][1]}
    <2>1. Operation[n] \notin {"lift", "merge", "snapshot", "gate"} => Len(Args[n]) = 1
      <3>1. Operation[n] \in {"cell_loop", "stream_loop"} => Len(Args[n]) <= 1
        BY ArgsTyped DEF Loopers
      <3>2. Operation[n] \in {"cell_map", "stream_map", "hold", "filter"} => Len(Args[n]) = 1
        BY ArgsTyped
      <3>3. ASSUME NEW k \in Nat, k >= 1, k <= 1 PROVE k = 1
        BY <3>3
      <3>4. Operation[n] \in {"cell_loop", "stream_loop"} => Len(Args[n]) = 1
        BY <1>1, <1>2, <3>1, <3>3
      <3> QED
        BY <3>2, <3>4, Kinds
    <2>2. Len(Args[n]) = 1 => Range(Args[n]) = {Args[n][1]}
      BY <1>1
    <2> QED
      BY <2>1, <2>2 DEF Listened
  <1>8. Listened(n) \subseteq Range(Args[n])
    BY <1>1, <1>3 DEF Listened
  <1>9. Operation[n] \in {"merge", "gate"} =>
          2 \in DOMAIN Args[n] /\ DOMAIN Args[n] = {1, 2}
    <2>1. 1 .. 2 = {1, 2}
      OBVIOUS
    <2> QED
      BY <1>1, <1>4, <2>1
  <1>10. Operation[n] = "merge" => Args[n][2] \in Listened(n)
    BY <1>1, <1>9 DEF Listened
  <1> QED
    BY <1>3, <1>5, <1>6, <1>7, <1>8, <1>9, <1>10

\* What a node takes depends on what it listens to, and on what it sees of the cells
\* it does not listen to.
LEMMA TakenLocal ==
    ASSUME NEW behind, LoopsClosed(behind), NEW n \in Nodes,
           NEW f, NEW g, NEW old, NEW old2, NEW inputs, NEW inputs2, NEW view, NEW view2,
           n \in DOMAIN inputs <=> n \in DOMAIN inputs2,
           n \in DOMAIN inputs => inputs[n] = inputs2[n],
           \A m \in Listened(n) : f[m] = g[m],
           \A m \in Range(Args[n]) \ GlobalLoopers : old[m] = old2[m],
           \A c \in Range(Args[n]) \ Listened(n) :
               IF c \in GlobalLoopers THEN view[c] = view2[c]
               ELSE <<n, c>> \notin Closes => f[c] = g[c]
    PROVE  Meaning!Taken(n, f, old, inputs, view) = Meaning!Taken(n, g, old2, inputs2, view2)
  <1> USE MeaningNames
  <1>1. CASE n \in DOMAIN inputs \/ n \in Sinks \cup GlobalLoopers
    <2>1. n \in DOMAIN inputs =>
            /\ Meaning!Taken(n, f, old, inputs, view) = inputs[n]
            /\ Meaning!Taken(n, g, old2, inputs2, view2) = inputs2[n]
      BY DEF Meaning!Taken
    <2>2. n \notin DOMAIN inputs => n \in Sinks \cup GlobalLoopers
      BY <1>1
    <2>3. ASSUME n \notin DOMAIN inputs
          PROVE  /\ Meaning!Taken(n, f, old, inputs, view) = Absent
                 /\ Meaning!Taken(n, g, old2, inputs2, view2) = Absent
      BY <2>2, <2>3 DEF Meaning!Taken, Sinks, GlobalLoopers
    <2> QED
      BY <2>1, <2>3
  <1>2. CASE n \notin DOMAIN inputs /\ n \in Nodes \ (Sinks \cup GlobalLoopers)
    <2> DEFINE a == Args[n]
    <2>1. /\ 1 \in DOMAIN a /\ f[a[1]] = g[a[1]]
          /\ Operation[n] = "merge" => f[a[2]] = g[a[2]]
      BY <1>2, KindArgs
    <2>2. ASSUME Operation[n] \in {"snapshot", "gate"}, NEW i \in DOMAIN a \ {1}
          PROVE  Meaning!Seen(n, a[i], f, old, view) = Meaning!Seen(n, a[i], g, old2, view2)
      <3>1. a[i] \in Range(a) \ Listened(n)
        BY <1>2, <2>2, KindArgs
      <3> HIDE DEF a
      <3> QED
        BY <3>1 DEF Meaning!Seen, Meaning!Latest, a
    <2>3. CASE Operation[n] = "lift"
      <3>1. \A i \in DOMAIN a : f[a[i]] = g[a[i]] /\ old[a[i]] = old2[a[i]]
        BY <1>2, <2>3, KindArgs DEF Range
      <3>2. [i \in DOMAIN a |-> Meaning!Latest(a[i], f, old)]
              = [i \in DOMAIN a |-> Meaning!Latest(a[i], g, old2)]
        BY <3>1 DEF Meaning!Latest
      <3>3. (\A m \in Range(a) : f[m] = Absent) <=> (\A m \in Range(a) : g[m] = Absent)
        BY <3>1 DEF Range
      <3> QED
        BY <1>2, <2>3, <3>2, <3>3 DEF Meaning!Taken, Sinks, GlobalLoopers
    <2>4. CASE Operation[n] = "snapshot"
      <3> DEFINE args(h, o, v) ==
                   [i \in DOMAIN a |-> IF i = 1 THEN h[a[1]]
                                       ELSE Meaning!Seen(n, a[i], h, o, v)]
      <3>1. args(f, old, view) = args(g, old2, view2)
        BY <2>1, <2>2, <2>4
      <3>2. \A h, o, v, ins : n \notin DOMAIN ins =>
              Meaning!Taken(n, h, o, ins, v) =
                IF h[a[1]] = Absent THEN Absent ELSE Meaning!Apply(n, args(h, o, v))
        BY <1>2, <2>4 DEF Meaning!Taken, Sinks, GlobalLoopers
      <3> HIDE DEF args
      <3> QED
        BY <1>2, <2>1, <3>1, <3>2
    <2>5. CASE Operation[n] = "gate"
      <3>1. Meaning!Seen(n, a[2], f, old, view) = Meaning!Seen(n, a[2], g, old2, view2)
        BY <1>2, <2>2, <2>5, KindArgs
      <3> QED
        BY <1>2, <2>1, <2>5, <3>1 DEF Meaning!Taken, Sinks, GlobalLoopers
    <2>6. CASE Operation[n] \in {"cell_map", "stream_map", "hold", "cell_loop",
                             "stream_loop", "merge", "filter"}
      BY <1>2, <2>1, <2>6 DEF Meaning!Taken, Sinks, GlobalLoopers
    <2> QED
      BY <1>2, <2>3, <2>4, <2>5, <2>6, Kinds
  <1> QED
    BY <1>1, <1>2

\* A node that nobody calls takes nothing.
LEMMA TakenUncalled ==
    ASSUME NEW behind, LoopsClosed(behind), NEW n \in Nodes,
           NEW f, NEW old, NEW inputs, NEW view,
           n \notin DOMAIN inputs, \A m \in Listened(n) : f[m] = Absent
    PROVE  Meaning!Taken(n, f, old, inputs, view) = Absent
  <1> USE MeaningNames
  <1>1. CASE n \in Sinks \cup GlobalLoopers
    BY <1>1 DEF Meaning!Taken, Sinks, GlobalLoopers
  <1>2. CASE n \in Nodes \ (Sinks \cup GlobalLoopers)
    <2>1. /\ f[Args[n][1]] = Absent
          /\ Operation[n] = "merge" => f[Args[n][2]] = Absent
          /\ Operation[n] = "lift" => \A m \in Range(Args[n]) : f[m] = Absent
      BY <1>2, KindArgs DEF Listened
    <2>2. \A x : Absent \in Range(<<x>>) <=> x = Absent
      BY DEF Range
    <2>3. Meaning!Apply(n, <<Absent>>) = Absent /\ Absent \notin TrueValues
      BY <2>2, NodeFacts, GraphTyped DEF Meaning!Apply
    <2> QED
      BY <1>2, <2>1, <2>3, Kinds DEF Meaning!Taken, Sinks, GlobalLoopers
  <1> QED
    BY <1>1, <1>2

\* What users send, and a sink and the looper of a GlobalCellLoop, take depends on nobody.
LEMMA TakenAlone ==
    ASSUME NEW n \in Nodes, NEW f, NEW g, NEW old, NEW inputs, NEW view,
           n \in DOMAIN inputs \/ n \in Sinks \cup GlobalLoopers
    PROVE  Meaning!Taken(n, f, old, inputs, view) = Meaning!Taken(n, g, old, inputs, view)
  <1> USE MeaningNames
  <1>1. n \in DOMAIN inputs => \A h : Meaning!Taken(n, h, old, inputs, view) = inputs[n]
    BY DEF Meaning!Taken
  <1>2. n \notin DOMAIN inputs => \A h : Meaning!Taken(n, h, old, inputs, view) = Absent
    BY DEF Meaning!Taken, Sinks, GlobalLoopers
  <1> QED
    BY <1>1, <1>2

\* Among any nodes that take values from others there is one that needs none of them: it
\* takes its value before them.
LEMMA FirstToTake ==
    ASSUME NEW behind, LoopsApart(behind), LoopsClosed(behind),
           NEW S \in SUBSET (Nodes \ (Sinks \cup GlobalLoopers)), S # {}
    PROVE  \E n \in S :
             /\ Listened(n) \cap S = {}
             /\ \A c \in (Range(Args[n]) \ Listened(n)) \cap S : <<n, c>> \in Closes
  <1>1. PICK d : /\ \E n \in S : Cluster[n] = d
                 /\ \A n \in S : <<Cluster[n], d>> \notin ClusterFeeds
    <2> DEFINE all == {Cluster[n] : n \in Nodes}
               some == {Cluster[n] : n \in S}
    <2>1. IsFiniteSet(all)
      BY ImageFinite, GraphTyped
    <2>2. some \in SUBSET all /\ some # {}
      OBVIOUS
    <2>3. \E d \in some : \A e \in some : <<e, d>> \notin ClusterFeeds
      <3> HIDE DEF all, some
      <3> QED
        BY <2>1, <2>2, ClustersOrdered, MinimalElement
    <2> QED
      BY <2>3
  <1> DEFINE T == {n \in S : Cluster[n] = d}
             U == IF \E n \in T : behind[n] = {} THEN {n \in T : behind[n] = {}} ELSE T
  <1>2. U \subseteq T /\ U # {}
    BY <1>1
  <1>3. PICK n \in U : \A m \in U : in_cluster_rank[n] <= in_cluster_rank[m]
    <2> DEFINE ranks == {in_cluster_rank[m] : m \in U}
    <2>1. ranks \in SUBSET Nat /\ ranks # {}
      BY <1>2, RanksRise
    <2>2. PICK r \in ranks : \A q \in ranks : r <= q
      <3> HIDE DEF ranks
      <3> QED
        BY <2>1, LeastNat
    <2> QED
      BY <2>2
  <1>4. n \in S /\ n \in Nodes /\ n \notin Sinks \cup GlobalLoopers /\ Cluster[n] = d
    BY <1>2
  <1>5. ASSUME NEW m \in Range(Args[n]), m \in S, n \notin Loopers
        PROVE  m \in T /\ ~(in_cluster_rank[n] <= in_cluster_rank[m])
    <2>1. Cluster[m] = d
      BY <1>1, <1>4, <1>5, ClustersOrdered
    <2>2. <<m, n>> \in Edges
      BY <1>4, <1>5 DEF Edges, AllEdges
    <2>3. in_cluster_rank[m] < in_cluster_rank[n]
      BY <1>4, <1>5, <2>1, <2>2, RanksRise
    <2> QED
      BY <1>4, <1>5, <2>1, <2>3, RanksRise
  <1>6. ASSUME NEW m \in Range(Args[n]), m \in S, n \notin Loopers
        PROVE  behind[n] = {} /\ behind[m] # {}
    BY <1>3, <1>4, <1>5, <1>6
  <1>7. Listened(n) \cap S = {}
    <2> SUFFICES ASSUME NEW m \in Listened(n), m \in S PROVE FALSE
      OBVIOUS
    <2>1. m \in Range(Args[n]) /\ m \in Nodes
      BY <1>4, ArgsFacts
    <2>2. CASE n \in Loopers
      <3>1. m = Args[n][1] /\ behind[m] = {}
        <4>1. Operation[n] \in {"cell_loop", "stream_loop"}
          BY <2>2 DEF Loopers
        <4>2. Listened(n) = {Args[n][1]}
          BY <1>4, <4>1, KindArgs
        <4> QED
          BY <2>2, <4>2 DEF LoopsClosed
      <3>2. Cluster[m] = d
        BY <1>4, <2>1, <2>2, ClustersBuilt
      <3>3. behind[n] = {n}
        BY <2>2 DEF LoopsApart
      <3>4. n \in U /\ m \in T /\ behind[m] = {}
        BY <3>1, <3>2
      <3>5. behind[n] = {}
        BY <3>4
      <3> QED
        BY <3>3, <3>5
    <2>3. CASE n \notin Loopers
      <3>1. Cluster[m] = Cluster[n]
        BY <1>4, <1>5, <2>1, <2>3
      <3>2. behind[m] = behind[n]
        BY <1>4, <2>3, <3>1 DEF LoopsApart
      <3> QED
        BY <1>6, <2>1, <2>3, <3>2
    <2> QED
      BY <2>2, <2>3
  <1>8. ASSUME NEW c \in (Range(Args[n]) \ Listened(n)) \cap S PROVE <<n, c>> \in Closes
    <2>1. n \notin Loopers
      BY <1>4, <1>8, KindArgs DEF Loopers, Listened
    <2>2. Cluster[c] = Cluster[n] /\ behind[c] # {} /\ behind[n] = {} /\ c \notin GlobalLoopers
      BY <1>4, <1>5, <1>6, <1>8, <2>1
    <2> QED
      BY <1>4, <1>8, <2>2 DEF LoopsClosed
  <1> QED
    BY <1>4, <1>7, <1>8

\* Outcome is the only way in which every node takes what it should.
LEMMA OutcomeUnique ==
    ASSUME NEW behind, LoopsApart(behind), LoopsClosed(behind),
           NEW inputs, NEW view, NEW f,
           f = [n \in Nodes |-> Meaning!Taken(n, f, Now, inputs, view)]
    PROVE  Meaning!Outcome(inputs, view) = f
  <1> DEFINE new == CHOOSE g : g = [n \in Nodes |-> Meaning!Taken(n, g, Now, inputs, view)]
  <1>1. Meaning!Outcome(inputs, view) = new
    BY DEF Meaning!Outcome, Now
  <1>2. new = [n \in Nodes |-> Meaning!Taken(n, new, Now, inputs, view)]
    BY Zenon
  <1> HIDE DEF new
  <1> DEFINE S == {n \in Nodes : new[n] # f[n]}
  <1>3. \A n \in Nodes : /\ new[n] = Meaning!Taken(n, new, Now, inputs, view)
                        /\ f[n] = Meaning!Taken(n, f, Now, inputs, view)
    <2>1. \A g, h : h = [n \in Nodes |-> g[n]] => \A n \in Nodes : h[n] = g[n]
      OBVIOUS
    <2> QED
      BY <1>2
  <1>4. S = {}
    <2> SUFFICES ASSUME S # {} PROVE FALSE
      OBVIOUS
    <2>1. \A n \in S : n \in Nodes \ (Sinks \cup GlobalLoopers) /\ n \notin DOMAIN inputs
      BY <1>3, TakenAlone
    <2>2. PICK n \in S : /\ Listened(n) \cap S = {}
                        /\ \A c \in (Range(Args[n]) \ Listened(n)) \cap S : <<n, c>> \in Closes
      <3> HIDE DEF S
      <3> QED
        BY <2>1, FirstToTake
    <2>3. n \in Nodes /\ Range(Args[n]) \subseteq Nodes /\ Listened(n) \subseteq Nodes
      BY ArgsFacts
    <2>4. \A m \in Nodes : m \notin S => new[m] = f[m]
      OBVIOUS
    <2> HIDE DEF S
    <2>5. Meaning!Taken(n, new, Now, inputs, view) = Meaning!Taken(n, f, Now, inputs, view)
      BY <2>2, <2>3, <2>4, TakenLocal
    <2> QED
      BY <1>3, <2>3, <2>5 DEF S
  <1>5. new = f
    BY <1>2, <1>4
  <1> QED
    BY <1>1, <1>5

-----------------------------------------------------------------------------
(* What it takes in Values.                                                *)

\* The sample of a cell in t is its value in t, or else its sample in the transaction
\* before.
LEMMA SampleSplit ==
    ASSUME NEW n \in Cells, NEW t \in Transactions
    PROVE  Sample(n, t) = IF values[n][t] # Absent THEN values[n][t]
                          ELSE IF t = 0 THEN Absent ELSE Sample(n, t - 1)
  <1> DEFINE keys(s) == {k \in 0 .. s : values[n][k] # Absent}
  <1>1. /\ t \in Nat
        /\ \A s : Sample(n, s) = IF keys(s) = {} THEN Absent ELSE values[n][Max(keys(s))]
    BY TransactionsNat DEF Sample, CellSample
  <1>2. CASE values[n][t] # Absent
    <2>1. t \in keys(t) /\ keys(t) \subseteq 0 .. t
      BY <1>1, <1>2
    <2>2. Max(keys(t)) \in keys(t) /\ \A j \in keys(t) : j <= Max(keys(t))
      <3> HIDE DEF keys
      <3> QED
        BY <1>1, <2>1, MaxOf
    <2>3. Max(keys(t)) = t
      <3> DEFINE m == Max(keys(t))
      <3>1. m \in 0 .. t /\ t <= m
        BY <2>1, <2>2
      <3> HIDE DEF m
      <3>2. m = t
        BY <1>1, <3>1
      <3> QED
        BY <3>2 DEF m
    <2> HIDE DEF keys
    <2> QED
      BY <1>1, <1>2, <2>1, <2>3
  <1>3. CASE values[n][t] = Absent /\ t # 0
    <2>1. keys(t) = keys(t - 1)
      BY <1>1, <1>3
    <2> HIDE DEF keys
    <2> QED
      BY <1>1, <1>3, <2>1
  <1>4. CASE values[n][t] = Absent /\ t = 0
    <2>1. keys(t) = {}
      BY <1>4
    <2> HIDE DEF keys
    <2> QED
      BY <1>1, <1>4, <2>1
  <1> QED
    BY <1>2, <1>3, <1>4

\* The sample in t of what is no GlobalCellLoop, of the values New and Old give.
LEMMA SampleLatest ==
    ASSUME NEW n \in Nodes \ GlobalLoopers, NEW t \in Transactions
    PROVE  /\ New(t)[n] = values[n][t]
           /\ n \in Cells => Sample(n, t) = Meaning!Latest(n, New(t), Old(t))
           /\ n \notin Cells => Sample(n, t) = values[n][t]
           /\ values[n][t] # Absent => Sample(n, t) = values[n][t]
  <1>1. New(t)[n] = values[n][t]
    BY DEF New
  <1>2. t \in Nat /\ (t > 0 <=> t # 0)
    BY TransactionsNat
  <1>3. n \in Cells => Old(t)[n] = IF t = 0 THEN Absent ELSE Sample(n, t - 1)
    BY <1>2 DEF Old
  <1>4. n \notin Cells => Sample(n, t) = values[n][t]
    BY DEF Sample, StreamSample
  <1> QED
    BY <1>1, <1>3, <1>4, SampleSplit DEF Meaning!Latest

\* An updater that is called computes what its node should take, when the loops that
\* the node closes have not changed yet.
LEMMA UpdaterTaken ==
    ASSUME TypeOK, ValuesInv, NoStreamBuilt, NEW behind, LoopsClosed(behind),
           NEW t \in Transactions, NEW n \in targets[t] \ GlobalLoopers, Called(t, n),
           \A c \in Range(Args[n]) \ (Listened(n) \cup GlobalLoopers) :
               <<n, c>> \in Closes => values[c][t] = Absent
    PROVE  updater(n, t) = Meaning!Taken(n, New(t), Old(t), Inputs(t), View(t))
  <1> USE MeaningNames
  <1> DEFINE a == Args[n]
             new == New(t)
             old == Old(t)
             view == View(t)
             taken == Meaning!Taken(n, new, old, Inputs(t), view)
  <1>1. n \in Nodes \ (Sinks \cup GlobalLoopers)
    BY DEF TypeOK
  <1>2. n \notin DOMAIN Inputs(t)
    BY <1>1, BuildTargets DEF Inputs
  <1>3. \A i \in DOMAIN a : a[i] \in Nodes
    BY <1>1, ArgsFacts
  <1>4. ValuesTyped
    BY DEF TypeOK, ValuesTyped
  <1>5. \E m \in Listened(n) : values[m][t] # Absent
    BY DEF Called
  <1>6. /\ 1 \in DOMAIN a
        /\ Operation[n] \notin {"lift", "merge"} =>
             /\ a[1] \notin GlobalLoopers
             /\ values[a[1]][t] # Absent /\ new[a[1]] = values[a[1]][t]
             /\ Arg(n, 1, t) = new[a[1]] /\ UnsafeArg(n, 1, t) = new[a[1]]
             /\ new[a[1]] \in Value
    <2>1. 1 \in DOMAIN a
      BY <1>1, KindArgs
    <2> SUFFICES ASSUME Operation[n] \notin {"lift", "merge"}
                 PROVE  /\ a[1] \notin GlobalLoopers
                        /\ values[a[1]][t] # Absent /\ new[a[1]] = values[a[1]][t]
                        /\ Arg(n, 1, t) = new[a[1]] /\ UnsafeArg(n, 1, t) = new[a[1]]
                        /\ new[a[1]] \in Value
      BY <2>1
    <2>2. Listened(n) = {a[1]}
      BY <1>1, KindArgs
    <2>3. a[1] \notin GlobalLoopers /\ values[a[1]][t] # Absent
      BY <2>2 DEF Called
    <2>4. Sample(a[1], t) = values[a[1]][t] /\ new[a[1]] = values[a[1]][t]
      BY <1>3, <2>1, <2>3, SampleLatest
    <2>5. Sample(a[1], t) \in Value
      BY <1>3, <1>4, <2>1, <2>3, SampleDefined
    <2> QED
      BY <2>3, <2>4, <2>5, <2>1 DEF Arg, UnsafeArg, unsafeSample
  <1>7. ASSUME Operation[n] \in {"snapshot", "gate"}, NEW i \in DOMAIN a \ {1}
        PROVE  Arg(n, i, t) = Meaning!Seen(n, a[i], new, old, view)
    <2>1. a[i] \in Range(a) \ Listened(n) /\ a[i] \in Cells /\ a[i] \in Nodes
      BY <1>1, <1>3, <1>7, KindArgs
    <2>2. Arg(n, i, t) = Sample(a[i], t)
      BY DEF Arg
    <2>3. CASE a[i] \in GlobalLoopers
      BY <2>1, <2>2, <2>3 DEF Meaning!Seen, View, Sample
    <2>4. CASE a[i] \notin GlobalLoopers /\ <<n, a[i]>> \in Closes
      <3>1. values[a[i]][t] = Absent /\ new[a[i]] = values[a[i]][t]
        BY <2>1, <2>4 DEF New
      <3>2. Sample(a[i], t) = old[a[i]]
        BY <2>1, <2>4, <3>1, SampleLatest DEF Meaning!Latest
      <3> QED
        BY <2>2, <2>4, <3>2 DEF Meaning!Seen
    <2>5. CASE a[i] \notin GlobalLoopers /\ <<n, a[i]>> \notin Closes
      BY <2>1, <2>2, <2>5, SampleLatest DEF Meaning!Seen
    <2> QED
      BY <2>3, <2>4, <2>5
  <1>8. \A x : Range(<<x>>) = {x}
    BY DEF Range
  <1>9. \A x \in Value : Meaning!Apply(n, <<x>>) = UserFunction(n, <<x>>)
    BY <1>8, NodeFacts DEF Meaning!Apply
  <1>10. \A x \in Value : x # Absent /\ x # Failure
    BY NodeFacts
  <1>11. CASE Operation[n] \in {"cell_map", "stream_map", "hold", "cell_loop", "stream_loop"}
    <2>1. updater(n, t) = IF Operation[n] \in {"cell_map", "stream_map"}
                            THEN UserFunction(n, <<new[a[1]]>>) ELSE new[a[1]]
      BY <1>6, <1>10, <1>11 DEF updater, MapUpdater, CopyUpdater
    <2>2. taken = IF Operation[n] \in {"cell_map", "stream_map"}
                    THEN Meaning!Apply(n, <<new[a[1]]>>) ELSE new[a[1]]
      BY <1>1, <1>2, <1>11 DEF Meaning!Taken, Sinks, GlobalLoopers
    <2> QED
      BY <1>6, <1>9, <1>11, <2>1, <2>2
  <1>12. CASE Operation[n] = "filter"
    <2>1. updater(n, t) =
            IF UserFunction(n, <<new[a[1]]>>) \in TrueValues THEN new[a[1]] ELSE Absent
      BY <1>6, <1>10, <1>12 DEF updater, FilterUpdater
    <2>2. taken = IF Meaning!Apply(n, <<new[a[1]]>>) \in TrueValues THEN new[a[1]] ELSE Absent
      BY <1>1, <1>2, <1>12 DEF Meaning!Taken, Sinks, GlobalLoopers
    <2> QED
      BY <1>6, <1>9, <1>12, <2>1, <2>2
  <1>13. CASE Operation[n] = "gate"
    <2>1. Arg(n, 2, t) = Meaning!Seen(n, a[2], new, old, view)
      BY <1>1, <1>7, <1>13, KindArgs
    <2>2. updater(n, t) = IF Arg(n, 2, t) \in TrueValues THEN UnsafeArg(n, 1, t) ELSE Absent
      BY <1>13 DEF updater, GateUpdater
    <2>3. taken = IF Meaning!Seen(n, a[2], new, old, view) \in TrueValues
                    THEN new[a[1]] ELSE Absent
      BY <1>1, <1>2, <1>13 DEF Meaning!Taken, Sinks, GlobalLoopers
    <2> QED
      BY <1>6, <1>13, <2>1, <2>2, <2>3
  <1>14. CASE Operation[n] = "snapshot"
    <2> DEFINE args == [i \in DOMAIN a |-> Arg(n, i, t)]
               seen == [i \in DOMAIN a |-> IF i = 1 THEN new[a[1]]
                                           ELSE Meaning!Seen(n, a[i], new, old, view)]
    <2>1. args = seen
      BY <1>6, <1>7, <1>14
    <2>2. args[1] # Absent /\ new[a[1]] # Absent
      BY <1>6, <1>10, <1>14
    <2>3. updater(n, t) = IF args[1] = Absent THEN Failure
                          ELSE IF Absent \in Range(args) THEN Absent ELSE UserFunction(n, args)
      BY <1>14 DEF updater, SnapshotUpdater
    <2>4. taken = IF new[a[1]] = Absent THEN Absent ELSE Meaning!Apply(n, seen)
      BY <1>1, <1>2, <1>14 DEF Meaning!Taken, Sinks, GlobalLoopers
    <2> HIDE DEF args, seen, taken
    <2>5. updater(n, t) = taken
      BY <2>1, <2>2, <2>3, <2>4 DEF Meaning!Apply
    <2> QED
      BY <2>5 DEF taken
  <1>15. CASE Operation[n] = "lift"
    <2> DEFINE args == [i \in DOMAIN a |-> Arg(n, i, t)]
               seen == [i \in DOMAIN a |-> Meaning!Latest(a[i], new, old)]
    <2>1. args = seen
      BY <1>1, <1>3, <1>15, KindArgs, SampleLatest DEF Arg
    <2>2. ~\A m \in Range(a) : new[m] = Absent
      <3>1. PICK m \in Listened(n) \ GlobalLoopers : values[m][t] # Absent
        BY DEF Called
      <3>2. m \in Range(a) /\ m \in Nodes
        BY <1>1, ArgsFacts
      <3>3. new[m] = values[m][t]
        BY <3>1, <3>2 DEF New
      <3> QED
        BY <3>1, <3>2, <3>3
    <2>3. updater(n, t) = IF Absent \in Range(args) THEN Absent ELSE UserFunction(n, args)
      BY <1>15 DEF updater, LiftUpdater
    <2>4. taken = IF \A m \in Range(a) : new[m] = Absent THEN Absent
                  ELSE Meaning!Apply(n, seen)
      BY <1>1, <1>2, <1>15 DEF Meaning!Taken, Sinks, GlobalLoopers
    <2> HIDE DEF args, seen, taken
    <2>5. updater(n, t) = taken
      BY <2>1, <2>2, <2>3, <2>4 DEF Meaning!Apply
    <2> QED
      BY <2>5 DEF taken
  <1>16. CASE Operation[n] = "merge"
    <2> DEFINE v1 == new[a[1]]
               v2 == new[a[2]]
    <2>1. DOMAIN a = {1, 2} /\ a[1] \notin Cells /\ a[2] \notin Cells
      BY <1>1, <1>16, KindArgs, ArgsTyped
    <2>2. a[1] \in Nodes \ GlobalLoopers /\ a[2] \in Nodes \ GlobalLoopers
      BY <1>3, <2>1, NodeFacts
    <2>3. Arg(n, 1, t) = v1 /\ Arg(n, 2, t) = v2
      BY <2>1, <2>2, SampleLatest DEF Arg
    <2>4. Listened(n) = {a[1], a[2]}
      BY <1>16, <2>1 DEF Listened, Range
    <2>5. v1 # Absent \/ v2 # Absent
      BY <2>2, <2>4 DEF Called, New
    <2>6. Range(<<v1, v2>>) = {v1, v2}
      BY DEF Range
    <2>7. updater(n, t) = CASE v1 # Absent /\ v2 # Absent -> UserFunction(n, <<v1, v2>>)
                            [] v1 # Absent /\ v2 = Absent -> v1
                            [] v1 = Absent /\ v2 # Absent -> v2
                            [] OTHER -> Failure
      BY <1>16, <2>3 DEF updater, MergeUpdater
    <2>8. taken = IF v1 = Absent THEN v2 ELSE IF v2 = Absent THEN v1
                  ELSE Meaning!Apply(n, <<v1, v2>>)
      BY <1>1, <1>2, <1>16 DEF Meaning!Taken, Sinks, GlobalLoopers
    <2> HIDE DEF v1, v2, taken
    <2>9. updater(n, t) = taken
      BY <2>5, <2>6, <2>7, <2>8 DEF Meaning!Apply
    <2> QED
      BY <2>9 DEF taken
  <1> QED
    BY <1>1, <1>11, <1>12, <1>13, <1>14, <1>15, <1>16, Kinds

\* A node is in the cluster of the loopers it is behind.
LEMMA BehindInCluster ==
    ASSUME NEW behind, LoopsApart(behind), LoopsClosed(behind)
    PROVE  \A n \in Nodes : \A l \in behind[n] : Cluster[l] = Cluster[n]
  <1> DEFINE S == {m \in Nodes : \E k \in behind[m] : Cluster[k] # Cluster[m]}
             ranks == {in_cluster_rank[m] : m \in S}
  <1> SUFFICES ASSUME S # {} PROVE FALSE
    OBVIOUS
  <1>1. ranks \in SUBSET Nat /\ ranks # {}
    BY RanksRise
  <1>2. PICK r \in ranks : \A q \in ranks : r <= q
    <2> HIDE DEF ranks
    <2> QED
      BY <1>1, LeastNat
  <1>3. PICK n \in S : \A m \in S : in_cluster_rank[n] <= in_cluster_rank[m]
    BY <1>2
  <1>4. PICK l \in behind[n] : Cluster[l] # Cluster[n]
    BY <1>3
  <1>5. n \in Nodes /\ n \notin Loopers /\ n \notin Sinks \cup GlobalLoopers
    BY <1>3, <1>4 DEF LoopsApart
  <1>6. PICK m \in Listened(n) : TRUE
    BY <1>5, KindArgs
  <1>7. m \in Nodes /\ m \in Range(Args[n])
    BY <1>5, <1>6, ArgsFacts
  <1>8. Cluster[m] = Cluster[n] /\ behind[m] = behind[n]
    BY <1>4, <1>5, <1>6 DEF LoopsApart
  <1>9. m \in S
    BY <1>4, <1>7, <1>8
  <1>10. <<m, n>> \in Edges
    BY <1>5, <1>7 DEF Edges, AllEdges
  <1>11. in_cluster_rank[m] < in_cluster_rank[n]
    BY <1>5, <1>7, <1>8, <1>10, RanksRise
  <1>12. in_cluster_rank[n] <= in_cluster_rank[m]
    BY <1>3, <1>9
  <1> HIDE DEF S, ranks
  <1> QED
    BY <1>5, <1>7, <1>11, <1>12, RanksRise

\* What a node that is still to run will see of the loops that it closes is old.
LEMMA ClosesBefore ==
    ASSUME TypeOK, ValuesInv, ClustersInv, NEW behind, LoopsApart(behind), LoopsClosed(behind),
           OnceInv(behind), CalledFirst, RanByRank(behind), Sinks # {},
           NEW t \in Transactions, NEW n \in targets[t] \ GlobalLoopers,
           NEW c \in Range(Args[n]) \ (Listened(n) \cup GlobalLoopers), <<n, c>> \in Closes
    PROVE  values[c][t] = Absent
  <1> SUFFICES ASSUME values[c][t] # Absent PROVE FALSE
    OBVIOUS
  <1>1. n \in Nodes \ (Sinks \cup GlobalLoopers) /\ c \in Nodes /\ Running(t)
    BY ArgsFacts DEF TypeOK, ValuesInv, Triggered
  <1>2. t # 0
    <2>1. Operation[n] \in {"snapshot", "gate"}
      BY DEF Listened
    <2> QED
      BY <2>1, BuildTargets DEF ClustersInv
  <1>3. /\ Cluster[c] = Cluster[n] /\ behind[n] = {}
        /\ \E k \in behind[c] : n = Args[k][1] \/ in_cluster_rank[n] < in_cluster_rank[Args[k][1]]
    BY <1>1 DEF LoopsClosed
  <1>4. PICK l \in behind[c] :
           n = Args[l][1] \/ in_cluster_rank[n] < in_cluster_rank[Args[l][1]]
    BY <1>3
  <1>5. l \in Loopers /\ l \in Nodes /\ Cluster[l] = Cluster[n]
    <2>1. l \in Loopers
      BY <1>1, <1>4 DEF LoopsApart
    <2> QED
      BY <1>1, <1>3, <1>4, <2>1, BehindInCluster, NodeFacts
  <1>6. values[l][t] # Absent
    <2>1. c \in Loopers => c = l
      BY <1>4 DEF LoopsApart
    <2> QED
      BY <1>1, <1>2, <1>4, <2>1 DEF OnceInv, AfterLoopers
  <1> DEFINE m == Args[l][1]
  <1>7. Operation[l] \in {"cell_loop", "stream_loop"} /\ l \in Nodes \ (Sinks \cup GlobalLoopers)
    BY <1>5, NodeFacts DEF Loopers
  <1>8. Listened(l) = {m} /\ m \in Range(Args[l]) /\ m \in Nodes
    <2>1. Listened(l) = {m}
      BY <1>7, KindArgs
    <2> QED
      BY <1>7, <2>1, ArgsFacts
  <1>9. m \notin GlobalLoopers /\ values[m][t] # Absent
    BY <1>1, <1>2, <1>6, <1>7, <1>8 DEF CalledFirst, Called
  <1>10. Cluster[m] = Cluster[n] /\ m \notin Sinks
    BY <1>1, <1>5, <1>7, <1>8, ClustersBuilt
  <1>11. m # n /\ m \notin targets[t]
    BY <1>9 DEF OnceInv, Once
  <1>12. Ran(t, m)
    BY <1>1, <1>2, <1>8, <1>9, <1>10, <1>11 DEF CalledFirst, Ran
  <1>13. in_cluster_rank[m] <= in_cluster_rank[n]
    BY <1>1, <1>3, <1>8, <1>10, <1>12 DEF RanByRank
  <1>14. in_cluster_rank[n] < in_cluster_rank[m]
    BY <1>4, <1>11
  <1> HIDE DEF m
  <1> QED
    BY <1>1, <1>8, <1>13, <1>14, RanksRise

\* An update, exactly.
Takes(t, n) ==
    /\ UNCHANGED <<phase, registered, hookVars>>
    /\ \A m \in Nodes, s \in Transactions :
         values'[m][s] = IF m = n /\ s = t THEN updater(n, t) ELSE values[m][s]
    /\ BegunWith(t, n)
    /\ \A s \in Transactions, m \in Nodes :
         m \in targets'[s] <=> \/ m \in targets[s] /\ ~(s = t /\ m = n)
                               \/ s = t /\ m \in Listeners(n) /\ values'[n][t] # Absent

\* An update that fails nobody stores exactly that.
LEMMA UpdateTakes ==
    ASSUME TypeOK, ValuesInv, Once, NoneLeft', NEW t \in Transactions, NEW n \in Nodes,
           Update(t, n)
    PROVE  Takes(t, n)
  <1> DEFINE res == updater(n, t)
             next == IF res \in Value THEN Listeners(n) ELSE {}
  <1>1. /\ n \in targets[t] \ GlobalLoopers
        /\ IF res \in Value THEN Store(t, n, res) ELSE UNCHANGED <<values, cleanups>>
        /\ begun' = [begun EXCEPT ![t] = @ \cup {Cluster[n]}]
        /\ targets' = [targets EXCEPT ![t] = (@ \ {n}) \cup
                         {m \in next : TaskTakes(t, Cluster[n], m)}]
        /\ left' = [left EXCEPT ![t] = @ \cup {m \in next : ~TaskTakes(t, Cluster[n], m)}]
        /\ UNCHANGED <<phase, registered, hookVars>>
    BY DEF Update
  <1>2. res \in Value \cup {Absent} /\ values[n][t] = Absent
    BY <1>1, TargetUpdated DEF Once
  <1> HIDE DEF res
  <1>3. \A m \in Nodes, s \in Transactions :
          values'[m][s] = IF m = n /\ s = t THEN res ELSE values[m][s]
    BY <1>1, <1>2 DEF TypeOK, Store
  <1>4. next = {m \in Listeners(n) : values'[n][t] # Absent}
    BY <1>2, <1>3, NodeFacts
  <1> HIDE DEF next
  <1>5. {m \in next : ~TaskTakes(t, Cluster[n], m)} = {}
    BY <1>1 DEF NoneLeft, TypeOK
  <1>6. \A s \in Transactions, m \in Nodes :
         m \in targets'[s] <=> \/ m \in targets[s] /\ ~(s = t /\ m = n)
                               \/ s = t /\ m \in next
    BY <1>1, <1>5 DEF TypeOK
  <1>7. BegunWith(t, n)
    BY <1>1 DEF TypeOK, BegunWith
  <1> QED
    BY <1>1, <1>3, <1>4, <1>6, <1>7 DEF Takes, res

\* What ran has no initial value in the transaction of build.
LEMMA RanNotInitial ==
    ASSUME TypeOK, NoStreamBuilt, NEW t \in Transactions, NEW n \in Nodes, Ran(t, n)
    PROVE  n \notin DOMAIN Inputs(t)
  <1>1. CASE t = 0
    <2> SUFFICES ASSUME n \in DOMAIN Initial PROVE FALSE
      BY <1>1 DEF Inputs
    <2>1. Operation[n] = "hold"
      BY InitialHolds DEF Ran, Sinks
    <2>2. \A m \in Listened(n) : m \in Nodes \ Cells
      <3> TAKE m \in Listened(n)
      <3>1. m \in Range(Args[n])
        BY ArgsFacts
      <3>2. PICK i \in DOMAIN Args[n] : m = Args[n][i]
        BY <3>1 DEF Range
      <3> QED
        BY <2>1, <3>1, <3>2, ArgsTyped, ArgsFacts
    <2> QED
      BY <1>1, <2>2 DEF Ran, Called, NoStreamBuilt
  <1>2. CASE t # 0
    BY <1>2 DEF Inputs, Ran
  <1> QED
    BY <1>1, <1>2

\* What a node should take stays the same where what it sees does.
LEMMA TakenKept ==
    ASSUME NEW behind, LoopsClosed(behind), NEW t \in Transactions, NEW n \in Nodes,
           n \notin DOMAIN Inputs(t), n \notin DOMAIN Inputs(t)',
           \A m \in Listened(n) \ GlobalLoopers : values'[m][t] = values[m][t],
           \A m \in Range(Args[n]) \ GlobalLoopers : Old(t)'[m] = Old(t)[m],
           \A c \in Range(Args[n]) \ Listened(n) :
               IF c \in GlobalLoopers THEN CellSample(c, t)' = CellSample(c, t)
               ELSE <<n, c>> \notin Closes => values'[c][t] = values[c][t]
    PROVE  Meaning!Taken(n, New(t), Old(t), Inputs(t), View(t))'
             = Meaning!Taken(n, New(t), Old(t), Inputs(t), View(t))
  <1>1. \A m \in Nodes : /\ New(t)[m] = IF m \in GlobalLoopers THEN Absent ELSE values[m][t]
                         /\ New(t)'[m] = IF m \in GlobalLoopers THEN Absent ELSE values'[m][t]
    BY DEF New
  <1>2. Listened(n) \subseteq Range(Args[n]) /\ Range(Args[n]) \subseteq Nodes
    BY ArgsFacts
  <1>3. \A m \in Listened(n) : New(t)'[m] = New(t)[m]
    BY <1>1, <1>2
  <1>4. \A c \in Range(Args[n]) \ Listened(n) :
               IF c \in GlobalLoopers THEN View(t)'[c] = View(t)[c]
               ELSE <<n, c>> \notin Closes => New(t)'[c] = New(t)[c]
    BY <1>1, <1>2 DEF View
  <1>5. Meaning!Taken(n, New(t)', Old(t)', Inputs(t)', View(t)')
             = Meaning!Taken(n, New(t), Old(t), Inputs(t), View(t))
    <2> DEFINE f == New(t)'
               g == New(t)
               o == Old(t)'
               p == Old(t)
               i == Inputs(t)'
               j == Inputs(t)
               v == View(t)'
               w == View(t)
    <2>1. /\ n \notin DOMAIN i /\ n \notin DOMAIN j
          /\ \A m \in Listened(n) : f[m] = g[m]
          /\ \A m \in Range(Args[n]) \ GlobalLoopers : o[m] = p[m]
          /\ \A c \in Range(Args[n]) \ Listened(n) :
               IF c \in GlobalLoopers THEN v[c] = w[c]
               ELSE <<n, c>> \notin Closes => f[c] = g[c]
      BY <1>3, <1>4
    <2> HIDE DEF f, g, o, p, i, j, v, w
    <2>2. Meaning!Taken(n, f, o, i, v) = Meaning!Taken(n, g, p, j, w)
      BY <2>1, TakenLocal
    <2> QED
      BY <2>2 DEF f, g, o, p, i, j, v, w
  <1> QED
    BY <1>5

-----------------------------------------------------------------------------
(* Steps that leave transactions that run as they are.                     *)

\* A step that leaves transactions that run, and what they see, as they are.
Still ==
    /\ UNCHANGED <<targets, begun>>
    /\ \A t \in Transactions :
         /\ Running(t)' =>
              \/ Running(t) /\ \A n \in Nodes \ GlobalLoopers : values'[n][t] = values[n][t]
              \/ /\ t # 0 /\ phase[t] = "none" /\ begun[t] = {} /\ targets[t] = {}
                 /\ \A n \in Nodes \ GlobalLoopers : values'[n][t] = Absent
         /\ phase'[t] \in {"none", "open"} => phase[t] \in {"none", "open"}
         /\ Running(t)' /\ t \in registered =>
              /\ \A n \in Cells : t > 0 => Sample(n, t - 1)' = Sample(n, t - 1)
              /\ \A g \in GlobalLoopers : CellSample(g, t)' = CellSample(g, t)

\* The transaction before one that is not the first.
LEMMA TransactionBefore ==
    ASSUME NEW t \in Transactions, t > 0
    PROVE  t - 1 \in Transactions /\ t - 1 \in Nat /\ t - 1 <= t /\ 0 \in 0 .. (t - 1)
  <1>1. t \in Nat
    BY TransactionsNat
  <1>2. t - 1 \in 0 .. t
    BY <1>1
  <1> QED
    BY <1>1, <1>2, TransactionsNat

\* Erasing the values of a transaction that is over is such a step.
LEMMA RefreshStill ==
    ASSUME TypeOK, ValuesInv, Known, NEW r \in Transactions, Refresh(r)
    PROVE  Still
  <1>1. /\ UNCHANGED <<phase, registered, targets, begun>>
        /\ phase[r] = "refreshing"
    BY DEF Refresh, updateVars
  <1>2. PICK n \in cleanups[r] :
             /\ n \in Nodes
             /\ \A s \in Transactions :
                  cleanups'[s] = IF s = r THEN cleanups[r] \ {n} ELSE cleanups[s]
             /\ \A m \in Nodes \ {n} : values'[m] = values[m]
             /\ \A s \in Transactions :
                  values'[n][s] = IF (n \in Cells /\ s < r) \/ (n \notin Cells /\ s = r)
                                    THEN Absent ELSE values[n][s]
             /\ exited' = FALSE
    BY RefreshErases
  <1>3. n \notin GlobalLoopers /\ values[n][r] # Absent
    BY <1>2 DEF Known, ValuesInv, Owed
  <1>4. ASSUME NEW m \in Nodes, NEW s \in Transactions,
               \A k \in 0 .. s : values'[m][k] = values[m][k]
        PROVE  Sample(m, s)' = Sample(m, s)
    BY <1>4, TransactionsNat, SampleKept
  <1>5. ASSUME NEW t \in Transactions, Running(t)'
        PROVE  /\ Running(t) /\ r < t
               /\ \A m \in Nodes \ GlobalLoopers : values'[m][t] = values[m][t]
               /\ \A m \in Cells : t > 0 => Sample(m, t - 1)' = Sample(m, t - 1)
               /\ \A g \in GlobalLoopers : CellSample(g, t)' = CellSample(g, t)
    <2>1. Running(t) /\ phase[t] # "refreshing" /\ phase[t] # "done"
      BY <1>1, <1>5 DEF Running
    <2>2. r < t
      <3>1. ~(t < r)
        BY <1>1, <2>1 DEF ValuesInv, Order, Over
      <3> QED
        BY <1>1, <2>1, <3>1, TransactionsNat
    <2>3. \A s \in r .. t : values'[n][s] = values[n][s] \/ n \notin Cells
      BY <1>2, TransactionsNat
    <2>4. \A m \in Nodes : values'[m][t] = values[m][t]
      BY <1>2, <2>2, TransactionsNat
    <2>5. ASSUME NEW m \in Cells, t > 0 PROVE Sample(m, t - 1)' = Sample(m, t - 1)
      <3>1. t - 1 \in Transactions /\ t - 1 \in Nat /\ r \in 0 .. (t - 1) /\ 0 \in 0 .. (t - 1)
        BY <2>2, <2>5, TransactionsNat, TransactionBefore
      <3>2. CASE m = n
        <4>1. \A k \in r .. (t - 1) : values'[m][k] = values[m][k]
          BY <2>3, <2>5, <3>1, <3>2, TransactionsNat
        <4> QED
          BY <1>2, <1>3, <2>5, <3>1, <3>2, <4>1, SampleKept
      <3>3. CASE m # n
        <4>1. m \in Nodes /\ \A k \in 0 .. (t - 1) : values'[m][k] = values[m][k]
          BY <1>2, <3>3, NodeFacts
        <4> QED
          BY <1>4, <3>1, <4>1
      <3> QED
        BY <3>2, <3>3
    <2>6. ASSUME NEW g \in GlobalLoopers PROVE CellSample(g, t)' = CellSample(g, t)
      <3>1. values'[g] = values[g]
        BY <1>2, <1>3, NodeFacts
      <3> QED
        BY <3>1 DEF CellSample
    <2> QED
      BY <2>1, <2>2, <2>4, <2>5, <2>6
  <1> QED
    BY <1>1, <1>5 DEF Still

\* So is hearing of a transaction: nothing of it has run.
LEMMA HandleRegisterStill ==
    ASSUME TypeOK, ValuesInv, NEW r \in Transactions, r # 0, HandleRegister(r)
    PROVE  Still
  <1>1. /\ UNCHANGED <<phase, targets, begun>>
        /\ r \notin registered
    BY DEF HandleRegister, updateVars
  <1>2. /\ \A n \in Nodes \ GlobalLoopers : values'[n] = values[n]
        /\ \A g \in GlobalLoopers, s \in Transactions : s # r => values'[g][s] = values[g][s]
    BY NodeFacts DEF HandleRegister, TypeOK
  <1>3. ASSUME NEW t \in registered PROVE t < r /\ t \in Transactions
    BY <1>1, TransactionsNat DEF TypeOK, ValuesInv, Order
  <1>4. ASSUME NEW t \in registered, NEW g \in GlobalLoopers, NEW s \in Transactions, s <= t
        PROVE  CellSample(g, s)' = CellSample(g, s)
    <2>1. \A k \in 0 .. s : k \in Transactions /\ k # r
      <3>1. r \in Nat /\ s \in Nat /\ t \in Nat /\ t < r
        BY <1>3, TransactionsNat
      <3>2. ~(r <= s)
        BY <1>4, <3>1
      <3> QED
        BY <3>1, <3>2, TransactionsNat
    <2>2. \A k \in 0 .. s : values'[g][k] = values[g][k]
      BY <1>2, <2>1
    <2> QED
      BY <1>4, <2>2, TransactionsNat, NodeFacts, SampleKept DEF Sample
  <1>5. ASSUME NEW t \in registered, NEW n \in Cells, t > 0
        PROVE  Sample(n, t - 1)' = Sample(n, t - 1)
    <2>1. t - 1 \in Transactions /\ t - 1 <= t
      BY <1>3, <1>5, TransactionBefore
    <2>2. CASE n \in GlobalLoopers
      BY <1>4, <2>1, <2>2, NodeFacts DEF Sample
    <2>3. CASE n \notin GlobalLoopers
      <3>1. values'[n] = values[n] /\ n \in Cells
        BY <1>2, <2>3, NodeFacts
      <3> QED
        BY <3>1 DEF Sample, CellSample
    <2> QED
      BY <2>2, <2>3
  <1>6. \A t \in registered, g \in GlobalLoopers : CellSample(g, t)' = CellSample(g, t)
    <2>1. \A t \in Nat : t <= t
      OBVIOUS
    <2>2. registered \subseteq Transactions
      BY DEF TypeOK
    <2> QED
      BY <1>4, <2>1, <2>2, TransactionsNat
  <1> QED
    BY <1>1, <1>2, <1>5, <1>6 DEF Still, Running

\* So is a step that touches no value.
LEMMA OthersStill ==
    ASSUME TypeOK, ValuesInv, ClustersInv, NEW r \in Transactions,
           \/ (r # 0 /\ Begin(r)) \/ Submit(r) \/ Finalize(r) \/ Done(r) \/ ReleaseHooks(r)
           \/ UNCHANGED vars
    PROVE  Still
  <1>1. UNCHANGED <<values, targets, begun>>
    BY DEF Begin, Submit, Finalize, Done, ReleaseHooks, vars, updateVars
  <1>2. \A n, t : Sample(n, t)' = Sample(n, t) /\ CellSample(n, t)' = CellSample(n, t)
    BY <1>1 DEF Sample, CellSample, StreamSample
  <1>3. \A t \in Transactions :
          \/ phase'[t] = phase[t]
          \/ t = r /\ r # 0 /\ phase[t] = "none" /\ phase'[t] = "open"
          \/ phase[t] = "open" /\ phase'[t] = "submitted"
          \/ phase'[t] \in {"refreshing", "woken", "done"}
    BY DEF Begin, Submit, Finalize, Done, ReleaseHooks, vars, TypeOK
  <1>4. \A t \in Transactions : phase[t] = "none" =>
          /\ begun[t] = {} /\ targets[t] = {}
          /\ \A n \in Nodes \ GlobalLoopers : values[n][t] = Absent
    BY DEF ValuesInv, Stored, Triggered, Running, ClustersInv, BegunFromAbove, TypeOK
  <1> QED
    BY <1>1, <1>2, <1>3, <1>4 DEF Still, Running

\* Such a step changes nothing of what ran.
LEMMA StillRan ==
    ASSUME TypeOK, Known, BegunAfterOlder, Still, NEW t \in Transactions, NEW n \in Nodes,
           Running(t)'
    PROVE  /\ Called(t, n)' => Running(t) /\ Called(t, n)
           /\ Ran(t, n)' => Running(t) /\ Ran(t, n) /\ t \in registered
           /\ Running(t) /\ Called(t, n) => Called(t, n)'
  <1>1. Listened(n) \subseteq Nodes
    BY ArgsFacts
  <1>2. \/ Running(t) /\ \A m \in Nodes \ GlobalLoopers : values'[m][t] = values[m][t]
        \/ /\ phase[t] = "none" /\ targets[t] = {}
           /\ \A m \in Nodes \ GlobalLoopers : values'[m][t] = Absent
    BY DEF Still
  <1>3. targets' = targets
    BY DEF Still
  <1>4. ~(Running(t) /\ \A m \in Nodes \ GlobalLoopers : values'[m][t] = values[m][t]) =>
            ~Called(t, n)'
    BY <1>1, <1>2 DEF Called
  <1>5. Called(t, n)' => Running(t) /\ Called(t, n)
    BY <1>1, <1>4 DEF Called
  <1>6. Ran(t, n)' => Running(t) /\ Ran(t, n)
    BY <1>3, <1>5 DEF Ran
  <1>7. Running(t) /\ Ran(t, n) => t \in registered
    BY DEF BegunAfterOlder, Known
  <1>8. Running(t) /\ Called(t, n) => Called(t, n)'
    BY <1>1, <1>2 DEF Called, Running
  <1> QED
    BY <1>5, <1>6, <1>7, <1>8

\* What a transaction that runs was given stays.
LEMMA StillInputs ==
    ASSUME Still, NEW t \in Transactions, Running(t), Running(t)'
    PROVE  Inputs(t)' = Inputs(t)
  <1>1. \A n \in Sinks : values'[n][t] = values[n][t]
    BY NodeFacts DEF Still, Running
  <1>2. {m \in Sinks : values'[m][t] # Absent} = {m \in Sinks : values[m][t] # Absent}
    BY <1>1
  <1> QED
    BY <1>1, <1>2 DEF Inputs

\* Such a step keeps RunInv.
LEMMA StillKeeps ==
    ASSUME TypeOK, ValuesInv, NoStreamBuilt, Known, NEW behind, LoopsClosed(behind),
           RunInv(behind), Still
    PROVE  RunInv(behind)'
  <1> USE DEF RunInv
  <1>0. targets' = targets /\ begun' = begun
    BY DEF Still
  <1>1. CalledFirst'
    <2> SUFFICES ASSUME NEW t \in Transactions, Running(t)'
                 PROVE  /\ \A n \in targets[t] : Called(t, n)'
                        /\ \A n \in Nodes \ (Sinks \cup GlobalLoopers) :
                             values'[n][t] # Absent =>
                               Called(t, n)' \/ (t = 0 /\ n \in DOMAIN Initial)
                        /\ \A n \in Sinks : values'[n][t] # Absent /\ t > 0 =>
                             values'[n][t] \in Sent
                        /\ t = 0 => \A n \in Sinks \cup DOMAIN Initial :
                             values'[n][0] = IF n \in DOMAIN Initial THEN Initial[n] ELSE Absent
      BY <1>0 DEF CalledFirst
    <2>1. CASE Running(t) /\ \A n \in Nodes \ GlobalLoopers : values'[n][t] = values[n][t]
      <3>1. targets[t] \subseteq Nodes
        BY DEF TypeOK
      <3>2. \A n \in Nodes : Called(t, n) => Called(t, n)'
        BY <2>1, StillRan
      <3>3. DOMAIN Initial \subseteq Nodes \ GlobalLoopers
        BY InitialHolds, NodeFacts DEF GlobalLoopers
      <3> QED
        BY <2>1, <3>1, <3>2, <3>3, NodeFacts DEF CalledFirst
    <2>2. CASE /\ t # 0 /\ targets[t] = {}
               /\ \A n \in Nodes \ GlobalLoopers : values'[n][t] = Absent
      BY <2>2, NodeFacts
    <2> QED
      BY <2>1, <2>2 DEF Still
  <1>2. BegunAfterOlder'
    <2>1. ASSUME NEW t \in Transactions, NEW n \in Nodes, Running(t)', Ran(t, n)'
          PROVE  Cluster[n] \in begun'[t]
      BY <1>0, <2>1, StillRan DEF BegunAfterOlder
    <2>2. ASSUME NEW t \in Transactions, NEW d \in begun'[t], NEW s \in 0 .. (t - 1)
          PROVE  /\ phase'[s] \notin {"none", "open"}
                 /\ \A k \in targets'[s] \ GlobalLoopers :
                      Cluster[k] # d /\ <<Cluster[k], d>> \notin ClusterFeeds
      <3>1. s \in Transactions
        BY TransactionsNat
      <3> QED
        BY <1>0, <2>2, <3>1 DEF BegunAfterOlder, Still
    <2> QED
      BY <2>1, <2>2 DEF BegunAfterOlder
  <1>3. RanByRank(behind)'
    <2> SUFFICES ASSUME NEW t \in Transactions, Running(t)', NEW n \in Nodes,
                        NEW k \in targets[t] \ GlobalLoopers,
                        Ran(t, n)', Cluster[k] = Cluster[n],
                        behind[k] = {} \/ behind[k] = behind[n]
                 PROVE  in_cluster_rank[n] <= in_cluster_rank[k]
      BY <1>0 DEF RanByRank
    <2>1. Running(t) /\ Ran(t, n)
      BY StillRan
    <2> QED
      BY <2>1 DEF RanByRank
  <1>4. RanRight'
    <2> SUFFICES ASSUME NEW t \in Transactions, NEW n \in Nodes, Running(t)', Ran(t, n)'
                 PROVE  (values[n][t] = Meaning!Taken(n, New(t), Old(t), Inputs(t), View(t)))'
      BY DEF RanRight
    <2>1. Running(t) /\ Ran(t, n) /\ t \in registered
      BY StillRan
    <2>2. \A m \in Nodes \ GlobalLoopers : values'[m][t] = values[m][t]
      BY <2>1 DEF Still, Running
    <2>3. n \in Nodes \ GlobalLoopers
      BY <2>1 DEF Ran
    <2>4. Inputs(t)' = Inputs(t) /\ n \notin DOMAIN Inputs(t)
      BY <2>1, StillInputs, RanNotInitial
    <2>5. Range(Args[n]) \subseteq Nodes /\ Listened(n) \subseteq Nodes
      BY ArgsFacts
    <2>6. \A m \in Nodes : Old(t)'[m] = Old(t)[m]
      BY <2>1 DEF Still, Old
    <2>7. \A g \in GlobalLoopers : CellSample(g, t)' = CellSample(g, t)
      BY <2>1 DEF Still
    <2>8. n \notin DOMAIN Inputs(t)'
      BY <2>4
    <2>9. Meaning!Taken(n, New(t), Old(t), Inputs(t), View(t))'
             = Meaning!Taken(n, New(t), Old(t), Inputs(t), View(t))
      BY <2>2, <2>4, <2>5, <2>6, <2>7, <2>8, TakenKept
    <2>10. values[n][t] = Meaning!Taken(n, New(t), Old(t), Inputs(t), View(t))
      BY <2>1 DEF RanRight
    <2> QED
      BY <2>2, <2>3, <2>9, <2>10
  <1> QED
    BY <1>1, <1>2, <1>3, <1>4

-----------------------------------------------------------------------------
(* Steps that store values.                                                *)

\* Only node n may take another value, in t.
OnlyStored(t, n) ==
    \A m \in Nodes, s \in Transactions : ~(m = n /\ s = t) => values'[m][s] = values[m][s]

\* What that leaves as it is of a transaction.
LEMMA StoredElsewhere ==
    ASSUME NEW t \in Transactions, NEW n \in Nodes \ GlobalLoopers, OnlyStored(t, n),
           NEW u \in Transactions
    PROVE  /\ u # t \/ n \notin Sinks => Inputs(u)' = Inputs(u)
           /\ \A g \in GlobalLoopers : CellSample(g, u)' = CellSample(g, u)
           /\ \A m \in Nodes : m # n \/ u <= t => Old(u)'[m] = Old(u)[m]
  <1>1. ASSUME u # t \/ n \notin Sinks PROVE Inputs(u)' = Inputs(u)
    <2>1. \A m \in Sinks : values'[m][u] = values[m][u]
      BY <1>1, NodeFacts DEF OnlyStored
    <2>2. {m \in Sinks : values'[m][u] # Absent} = {m \in Sinks : values[m][u] # Absent}
      BY <2>1
    <2> QED
      BY <2>1, <2>2 DEF Inputs
  <1>2. ASSUME NEW m \in Cells, NEW s \in Transactions, m # n \/ s < t
        PROVE  Sample(m, s)' = Sample(m, s)
    <2>1. s \in Nat /\ 0 \in 0 .. s
      BY TransactionsNat
    <2>2. \A k \in 0 .. s : k \in Transactions /\ ~(m = n /\ k = t)
      BY <1>2, TransactionsNat
    <2>3. \A k \in 0 .. s : values'[m][k] = values[m][k]
      BY <1>2, <2>2, NodeFacts DEF OnlyStored
    <2> QED
      BY <1>2, <2>1, <2>3, SampleKept, NodeFacts
  <1>3. \A g \in GlobalLoopers : CellSample(g, u)' = CellSample(g, u)
    BY <1>2, NodeFacts DEF Sample
  <1>4. ASSUME NEW m \in Nodes, m # n \/ u <= t PROVE Old(u)'[m] = Old(u)[m]
    <2>1. CASE m \in Cells \ GlobalLoopers /\ u > 0
      <3>1. u - 1 \in Transactions /\ (u <= t => u - 1 < t)
        BY <2>1, TransactionBefore, TransactionsNat
      <3>2. Sample(m, u - 1)' = Sample(m, u - 1)
        BY <1>2, <1>4, <2>1, <3>1
      <3> QED
        BY <2>1, <3>2 DEF Old
    <2>2. CASE ~(m \in Cells \ GlobalLoopers /\ u > 0)
      BY <2>2 DEF Old
    <2> QED
      BY <2>1, <2>2
  <1> QED
    BY <1>1, <1>3, <1>4

\* The update of the looper of a GlobalCellLoop keeps it.
LEMMA UpdateLooperRun ==
    ASSUME TypeOK, NEW behind, RunInv(behind), NEW t \in Transactions, NEW n \in GlobalLoopers,
           UpdateLooper(t, n)
    PROVE  RunInv(behind)'
  <1> USE DEF RunInv
  <1>1. /\ UNCHANGED <<phase, values>>
        /\ begun' = [begun EXCEPT ![t] = @ \cup {Cluster[n]}]
        /\ targets' = [targets EXCEPT ![t] = @ \ {n}]
        /\ MayUpdate(t, n)
    BY DEF UpdateLooper
  <1>2. \A s \in Transactions : /\ targets'[s] \subseteq targets[s]
                                /\ targets[s] \subseteq targets'[s] \cup GlobalLoopers
                                /\ begun[s] \subseteq begun'[s]
                                /\ \A d \in begun'[s] :
                                     d \in begun[s] \/ (s = t /\ d = Cluster[n])
    BY <1>1 DEF TypeOK
  <1>3. \A s \in Transactions, m \in Nodes :
          /\ Called(s, m)' = Called(s, m)
          /\ Ran(s, m)' => Ran(s, m)
    BY <1>1, <1>2 DEF Called, Ran
  <1>4. \A s \in Transactions : Running(s)' = Running(s)
    BY <1>1 DEF Running
  <1>5. CalledFirst'
    <2>1. \A s \in Transactions : targets[s] \subseteq Nodes
      BY DEF TypeOK
    <2> QED
      BY <1>1, <1>2, <1>3, <1>4, <2>1 DEF CalledFirst
  <1>6. BegunAfterOlder'
    <2>1. ASSUME NEW s \in Transactions, NEW d \in begun'[s], NEW r \in 0 .. (s - 1)
          PROVE  /\ phase[r] \notin {"none", "open"}
                 /\ \A k \in targets'[r] \ GlobalLoopers :
                      Cluster[k] # d /\ <<Cluster[k], d>> \notin ClusterFeeds
      <3>1. r \in Transactions
        BY TransactionsNat
      <3>2. CASE d \in begun[s]
        BY <1>2, <2>1, <3>1, <3>2 DEF BegunAfterOlder
      <3>3. CASE s = t /\ d = Cluster[n]
        BY <1>1, <1>2, <3>1, <3>3 DEF MayUpdate, PendingAbove, PendingBeside
      <3> QED
        BY <1>2, <3>2, <3>3
    <2>2. \A s \in Transactions, m \in Nodes :
             Running(s)' /\ Ran(s, m)' => Cluster[m] \in begun'[s]
      BY <1>2, <1>3, <1>4 DEF BegunAfterOlder
    <2> QED
      BY <1>1, <2>1, <2>2 DEF BegunAfterOlder
  <1>7. RanByRank(behind)'
    BY <1>2, <1>3, <1>4 DEF RanByRank
  <1>8. RanRight'
    <2>1. \A s \in Transactions : /\ New(s)' = New(s) /\ Inputs(s)' = Inputs(s)
                                  /\ Old(s)' = Old(s) /\ View(s)' = View(s)
      BY <1>1 DEF New, Inputs, Old, View, Sample, CellSample, StreamSample
    <2>2. ASSUME NEW s \in Transactions, NEW m \in Nodes, Running(s)', Ran(s, m)'
          PROVE  values'[m][s] = Meaning!Taken(m, New(s)', Old(s)', Inputs(s)', View(s)')
      BY <1>1, <1>3, <1>4, <2>1, <2>2 DEF RanRight
    <2>3. \A s \in Transactions, m \in Nodes :
            (Meaning!Taken(m, New(s), Old(s), Inputs(s), View(s)))'
              = Meaning!Taken(m, New(s)', Old(s)', Inputs(s)', View(s)')
      OBVIOUS
    <2> QED
      BY <2>2, <2>3 DEF RanRight
  <1> QED
    BY <1>5, <1>6, <1>7, <1>8

\* A user who sends keeps it: none of the transaction has run.
LEMMA SendRun ==
    ASSUME TypeOK, ValuesInv, ClustersInv, NEW behind, LoopsClosed(behind), RunInv(behind),
           NoneLeft', NEW t \in Transactions, NEW n \in Sinks, NEW v \in Sent, Send(t, n, v)
    PROVE  RunInv(behind)'
  <1> USE DEF RunInv
  <1>1. /\ UNCHANGED <<phase, begun>> /\ phase[t] = "open"
        /\ \A m \in Nodes, s \in Transactions :
             values'[m][s] = IF m = n /\ s = t THEN v ELSE values[m][s]
        /\ \A s \in Transactions, m \in Nodes :
             m \in targets'[s] <=> m \in targets[s] \/ (s = t /\ m \in Listeners(n))
    <2>1. {m \in Listeners(n) : ~UserTakes(m)} = {}
      BY DEF Send, NoneLeft, TypeOK
    <2> QED
      BY <2>1 DEF Send, Store, TypeOK
  <1>2. n \in Nodes \ GlobalLoopers /\ OnlyStored(t, n) /\ v # Absent /\ v \in Value
    BY <1>1, NodeFacts DEF OnlyStored
  <1>3. /\ begun[t] = {} /\ t # 0 /\ t \in Nat
        /\ \A s \in Transactions : t < s => begun[s] = {}
    <2>1. ASSUME NEW s \in Transactions, t < s PROVE begun[s] = {}
      <3>1. t \in 0 .. (s - 1)
        BY <2>1, TransactionsNat
      <3> QED
        BY <1>1, <3>1 DEF BegunAfterOlder
    <2> QED
      BY <1>1, <2>1, TransactionsNat DEF ClustersInv, BegunFromAbove, ValuesInv, Order
  <1>4. \A s \in Transactions, m \in Nodes :
          /\ Running(s)' = Running(s)
          /\ Called(s, m) => Called(s, m)'
          /\ Called(s, m)' => Called(s, m) \/ (s = t /\ m \in Listeners(n))
    <2>1. \A m \in Nodes : Listened(m) \subseteq Nodes
      BY ArgsFacts
    <2> QED
      BY <1>1, <1>2, <2>1 DEF Called, Running, Listeners
  <1>5. \A s \in Transactions, m \in Nodes : Ran(s, m)' => Ran(s, m)
    BY <1>1, <1>4 DEF Ran
  <1>6. \A s \in Transactions, m \in Nodes : Running(s) /\ Ran(s, m) => s < t
    <2> SUFFICES ASSUME NEW s \in Transactions, NEW m \in Nodes, Running(s), Ran(s, m)
                 PROVE  s < t
      OBVIOUS
    <2>1. begun[s] # {}
      BY DEF BegunAfterOlder
    <2>2. s # t /\ ~(t < s) /\ s \in Nat /\ t \in Nat
      BY <1>3, <2>1, TransactionsNat
    <2> QED
      BY <2>2
  <1>7. CalledFirst'
    <2> SUFFICES ASSUME NEW s \in Transactions, Running(s)'
                 PROVE  /\ \A m \in targets'[s] : Called(s, m)'
                        /\ \A m \in Nodes \ (Sinks \cup GlobalLoopers) :
                             values'[m][s] # Absent =>
                               Called(s, m)' \/ (s = 0 /\ m \in DOMAIN Initial)
                        /\ \A m \in Sinks : values'[m][s] # Absent /\ s > 0 =>
                             values'[m][s] \in Sent
                        /\ s = 0 => \A m \in Sinks \cup DOMAIN Initial :
                             values'[m][0] = IF m \in DOMAIN Initial THEN Initial[m] ELSE Absent
      BY DEF CalledFirst
    <2>0. Running(s)
      BY <1>1 DEF Running
    <2>1. \A m \in targets'[s] : Called(s, m)'
      <3>1. \A m \in Listeners(n) : n \in Listened(m) /\ m \in Nodes
        BY DEF Listeners
      <3>2. targets'[s] \subseteq Nodes
        BY DEF Send, TypeOK, Listeners
      <3> QED
        BY <1>1, <1>2, <1>4, <2>0, <3>1, <3>2 DEF CalledFirst, Called
    <2>2. \A m \in Nodes \ (Sinks \cup GlobalLoopers) :
            values'[m][s] # Absent => Called(s, m)' \/ (s = 0 /\ m \in DOMAIN Initial)
      BY <1>1, <1>4, <2>0 DEF CalledFirst
    <2>3. \A m \in Sinks : values'[m][s] # Absent /\ s > 0 => values'[m][s] \in Sent
      BY <1>1, <2>0, NodeFacts DEF CalledFirst
    <2>4. s = 0 => \A m \in Sinks \cup DOMAIN Initial :
                     values'[m][0] = IF m \in DOMAIN Initial THEN Initial[m] ELSE Absent
      BY <1>1, <1>3, <2>0, NodeFacts DEF CalledFirst
    <2> QED
      BY <2>1, <2>2, <2>3, <2>4
  <1>8. BegunAfterOlder'
    <2>1. ASSUME NEW s \in Transactions, NEW d \in begun[s], NEW r \in 0 .. (s - 1)
          PROVE  /\ phase[r] \notin {"none", "open"}
                 /\ \A k \in targets'[r] \ GlobalLoopers :
                      Cluster[k] # d /\ <<Cluster[k], d>> \notin ClusterFeeds
      <3>1. r \in Transactions /\ r # t
        BY <1>1, <2>1, TransactionsNat DEF BegunAfterOlder
      <3>2. targets'[r] = targets[r]
        BY <3>1 DEF Send, TypeOK
      <3> QED
        BY <2>1, <3>2 DEF BegunAfterOlder
    <2> QED
      BY <1>1, <1>4, <1>5, <2>1 DEF BegunAfterOlder
  <1>9. RanByRank(behind)'
    <2> SUFFICES ASSUME NEW s \in Transactions, Running(s)', NEW m \in Nodes,
                        NEW k \in targets'[s] \ GlobalLoopers,
                        Ran(s, m)', Cluster[k] = Cluster[m],
                        behind[k] = {} \/ behind[k] = behind[m]
                 PROVE  in_cluster_rank[m] <= in_cluster_rank[k]
      BY DEF RanByRank
    <2>1. Running(s) /\ Ran(s, m)
      BY <1>4, <1>5
    <2>2. s # t
      BY <1>3, <1>6, <2>1
    <2>3. targets'[s] = targets[s]
      BY <2>2 DEF Send, TypeOK
    <2> QED
      BY <2>1, <2>3 DEF RanByRank
  <1>10. RanRight'
    <2> SUFFICES ASSUME NEW s \in Transactions, NEW m \in Nodes, Running(s)', Ran(s, m)'
                 PROVE  (values[m][s] = Meaning!Taken(m, New(s), Old(s), Inputs(s), View(s)))'
      BY DEF RanRight
    <2>1. Running(s) /\ Ran(s, m)
      BY <1>4, <1>5
    <2>2. s < t /\ s # t /\ s <= t
      BY <1>3, <1>6, <2>1, TransactionsNat
    <2>3. Inputs(s)' = Inputs(s) /\ m \notin DOMAIN Inputs(s)
      BY <1>2, <2>1, <2>2, StoredElsewhere, RanNotInitial DEF ClustersInv
    <2>4. m \notin DOMAIN Inputs(s)'
      BY <2>3
    <2>5. /\ \A c \in Nodes : values'[c][s] = values[c][s] /\ Old(s)'[c] = Old(s)[c]
          /\ \A g \in GlobalLoopers : CellSample(g, s)' = CellSample(g, s)
      BY <1>1, <1>2, <2>2, StoredElsewhere
    <2>6. Range(Args[m]) \subseteq Nodes /\ Listened(m) \subseteq Nodes
      BY ArgsFacts
    <2>7. Meaning!Taken(m, New(s), Old(s), Inputs(s), View(s))'
             = Meaning!Taken(m, New(s), Old(s), Inputs(s), View(s))
      BY <2>3, <2>4, <2>5, <2>6, TakenKept
    <2>8. values[m][s] = Meaning!Taken(m, New(s), Old(s), Inputs(s), View(s))
      BY <2>1 DEF RanRight
    <2> QED
      BY <2>5, <2>7, <2>8
  <1> QED
    BY <1>7, <1>8, <1>9, <1>10

\* A node does not read itself.
LEMMA ReadsOthers ==
    ASSUME NEW n \in Nodes \ (Loopers \cup GlobalLoopers)
    PROVE  n \notin Range(Args[n])
  <1> SUFFICES ASSUME n \in Range(Args[n]) PROVE FALSE
    OBVIOUS
  <1>1. <<n, n>> \in Edges
    BY DEF Edges, AllEdges
  <1>2. in_cluster_rank[n] < in_cluster_rank[n] /\ in_cluster_rank[n] \in Nat
    BY <1>1, RanksRise
  <1> QED
    BY <1>2

\* What is to be run is called, has no value, and nobody in it runs before what it reads.
LEMMA TargetFacts ==
    ASSUME TypeOK, ValuesInv, ClustersInv, NEW behind, LoopsApart(behind), OnceInv(behind),
           RunInv(behind), NEW t \in Transactions, NEW n \in targets[t] \ GlobalLoopers
    PROVE  /\ n \in Nodes \ (Sinks \cup GlobalLoopers)
           /\ Running(t)
           /\ values[n][t] = Absent
           /\ Called(t, n)
           /\ n \notin Listeners(n) /\ n \notin Range(Args[n]) \ Listened(n)
           /\ n \notin DOMAIN Inputs(t) /\ ~(t = 0 /\ n \in DOMAIN Initial)
  <1>1. n \in Nodes \ (Sinks \cup GlobalLoopers) /\ Running(t)
    BY DEF TypeOK, ValuesInv, Triggered
  <1>2. values[n][t] = Absent
    BY DEF OnceInv, Once
  <1>3. Called(t, n)
    BY <1>1 DEF RunInv, CalledFirst
  <1>4. n \notin Listeners(n)
    BY ListenerFresh
  <1>5. n \notin Range(Args[n]) \ Listened(n)
    <2>1. n \in Loopers => Range(Args[n]) = Listened(n)
      BY DEF Loopers, Listened
    <2> QED
      BY <1>1, <2>1, ReadsOthers
  <1>6. ~(t = 0 /\ n \in DOMAIN Initial)
    BY BuildTargets DEF ClustersInv
  <1>7. n \notin DOMAIN Inputs(t)
    BY <1>1, <1>6 DEF Inputs
  <1> QED
    BY <1>1, <1>2, <1>3, <1>4, <1>5, <1>6, <1>7

\* Which nodes an update calls, and which ran after it.
LEMMA TakesRan ==
    ASSUME TypeOK, NEW t \in Transactions, NEW n \in targets[t] \ GlobalLoopers, n \in Nodes,
           values[n][t] = Absent, n \notin Listeners(n), Takes(t, n),
           NEW s \in Transactions, NEW m \in Nodes
    PROVE  /\ Running(s)' <=> Running(s)
           /\ Called(s, m) => Called(s, m)'
           /\ Called(s, m)' =>
                Called(s, m) \/ (s = t /\ m \in Listeners(n) /\ values'[n][t] # Absent)
           /\ Ran(s, m)' => Ran(s, m) \/ (s = t /\ m = n)
           /\ Ran(s, m)' /\ s = t /\ m \in Listeners(n) => values'[n][t] = Absent
  <1>1. Listened(m) \subseteq Nodes
    BY ArgsFacts
  <1>2. Called(s, m) => Called(s, m)'
    BY <1>1 DEF Called, Takes
  <1>3. Called(s, m)' =>
          Called(s, m) \/ (s = t /\ m \in Listeners(n) /\ values'[n][t] # Absent)
    BY <1>1 DEF Called, Takes, Listeners
  <1>4. Ran(s, m)' => Ran(s, m) \/ (s = t /\ m = n)
    BY <1>3 DEF Ran, Takes
  <1>5. Ran(s, m)' /\ s = t /\ m \in Listeners(n) => values'[n][t] = Absent
    BY DEF Ran, Takes
  <1>6. Running(s)' <=> Running(s)
    BY DEF Running, Takes
  <1> QED
    BY <1>2, <1>3, <1>4, <1>5, <1>6

\* An update keeps CalledFirst: it calls only its listeners.
LEMMA UpdateCalled ==
    ASSUME TypeOK, ValuesInv, ClustersInv, NEW behind, LoopsApart(behind), OnceInv(behind),
           RunInv(behind), NEW t \in Transactions, NEW n \in targets[t] \ GlobalLoopers,
           Takes(t, n), TypeOK'
    PROVE  CalledFirst'
  <1>1. /\ n \in Nodes \ (Sinks \cup GlobalLoopers) /\ values[n][t] = Absent /\ Called(t, n)
        /\ n \notin Listeners(n) /\ ~(t = 0 /\ n \in DOMAIN Initial)
    BY TargetFacts
  <1> SUFFICES ASSUME NEW s \in Transactions, Running(s)'
               PROVE  /\ \A m \in targets'[s] : Called(s, m)'
                      /\ \A m \in Nodes \ (Sinks \cup GlobalLoopers) :
                           values'[m][s] # Absent =>
                             Called(s, m)' \/ (s = 0 /\ m \in DOMAIN Initial)
                      /\ \A m \in Sinks : values'[m][s] # Absent /\ s > 0 =>
                           values'[m][s] \in Sent
                      /\ s = 0 => \A m \in Sinks \cup DOMAIN Initial :
                           values'[m][0] = IF m \in DOMAIN Initial THEN Initial[m] ELSE Absent
    BY DEF CalledFirst
  <1>2. Running(s)
    BY DEF Running, Takes
  <1>3. \A m \in Nodes : Called(s, m) => Called(s, m)'
    BY <1>1, TakesRan
  <1>4. \A m \in targets'[s] : Called(s, m)'
    <2> TAKE m \in targets'[s]
    <2>1. /\ m \in Nodes
          /\ m \in targets[s] \/ (s = t /\ m \in Listeners(n) /\ values'[n][t] # Absent)
      <3>1. \A k \in Nodes : k \in targets'[s] =>
              k \in targets[s] \/ (s = t /\ k \in Listeners(n) /\ values'[n][t] # Absent)
        BY DEF Takes
      <3>2. targets'[s] \subseteq Nodes
        BY DEF TypeOK
      <3> QED
        BY <3>1, <3>2
    <2>2. CASE m \in targets[s]
      BY <1>2, <1>3, <2>1, <2>2 DEF RunInv, CalledFirst
    <2>3. CASE s = t /\ m \in Listeners(n) /\ values'[n][t] # Absent
      BY <1>1, <2>3 DEF Called, Listeners
    <2> QED
      BY <2>1, <2>2, <2>3
  <1>5. ASSUME NEW m \in Nodes \ (Sinks \cup GlobalLoopers), values'[m][s] # Absent
        PROVE  Called(s, m)' \/ (s = 0 /\ m \in DOMAIN Initial)
    <2>1. CASE m = n /\ s = t
      BY <1>1, <1>3, <2>1
    <2>2. CASE ~(m = n /\ s = t)
      <3>1. values[m][s] # Absent
        BY <1>5, <2>2 DEF Takes
      <3> QED
        BY <1>2, <1>3, <3>1 DEF RunInv, CalledFirst
    <2> QED
      BY <2>1, <2>2
  <1>6. \A m \in Sinks : values'[m][s] = values[m][s]
    BY <1>1, NodeFacts DEF Takes
  <1>7. s = 0 => \A m \in DOMAIN Initial : values'[m][0] = values[m][0]
    BY <1>1, NodeFacts DEF Takes
  <1> QED
    BY <1>2, <1>4, <1>5, <1>6, <1>7 DEF RunInv, CalledFirst

\* It keeps BegunAfterOlder: older transactions are past its cluster.
LEMMA UpdateBegun ==
    ASSUME TypeOK, ValuesInv, ClustersInv, NEW behind, LoopsApart(behind), OnceInv(behind),
           RunInv(behind), NEW t \in Transactions, NEW n \in targets[t] \ GlobalLoopers,
           MayUpdate(t, n), Takes(t, n), TypeOK'
    PROVE  BegunAfterOlder'
  <1>1. /\ n \in Nodes \ (Sinks \cup GlobalLoopers) /\ values[n][t] = Absent
        /\ n \notin Listeners(n)
    BY TargetFacts
  <1>2. \A s \in Transactions :
          begun'[s] = IF s = t THEN begun[t] \cup {Cluster[n]} ELSE begun[s]
    BY DEF Takes, BegunWith
  <1>3. ASSUME NEW s \in Transactions, NEW m \in Nodes, Running(s)', Ran(s, m)'
        PROVE  Cluster[m] \in begun'[s]
    <2>1. Running(s)
      BY <1>3 DEF Running, Takes
    <2>2. Ran(s, m) \/ (s = t /\ m = n)
      BY <1>1, <1>3, TakesRan
    <2> QED
      BY <1>2, <2>1, <2>2 DEF RunInv, BegunAfterOlder
  <1>4. ASSUME NEW s \in Transactions, NEW d \in begun'[s], NEW r \in 0 .. (s - 1)
        PROVE  /\ phase'[r] \notin {"none", "open"}
               /\ \A k \in targets'[r] \ GlobalLoopers :
                    Cluster[k] # d /\ <<Cluster[k], d>> \notin ClusterFeeds
    <2>1. r \in Transactions /\ r # s /\ phase' = phase
      BY TransactionsNat DEF Takes
    <2>2. \A k \in targets'[r] : k \in Nodes
      BY <2>1 DEF TypeOK
    <2>3. \A k \in targets'[r] : k \in targets[r] \/ (r = t /\ k \in Listeners(n))
      BY <2>1, <2>2 DEF Takes
    <2>4. CASE d \in begun[s]
      <3>1. /\ phase[r] \notin {"none", "open"}
            /\ \A k \in targets[r] \ GlobalLoopers :
                    Cluster[k] # d /\ <<Cluster[k], d>> \notin ClusterFeeds
        BY <2>4 DEF RunInv, BegunAfterOlder
      <3>2. ASSUME r = t, NEW k \in Listeners(n) \ GlobalLoopers
            PROVE  Cluster[k] # d /\ <<Cluster[k], d>> \notin ClusterFeeds
        <4>1. Cluster[n] # d /\ <<Cluster[n], d>> \notin ClusterFeeds
          BY <3>1, <3>2
        <4>2. Cluster[n] = Cluster[k] \/ <<Cluster[n], Cluster[k]>> \in ClusterFeeds
          BY <1>1, ListenersBelow
        <4> QED
          BY <4>1, <4>2, ClustersOrdered
      <3> QED
        BY <2>1, <2>3, <3>1, <3>2
    <2>5. CASE s = t /\ d = Cluster[n]
      <3>1. phase[r] \notin {"none", "open"} /\ ~PendingAbove(r, n) /\ ~PendingBeside(r, n)
        BY <2>5 DEF MayUpdate
      <3> QED
        BY <2>1, <2>3, <2>5, <3>1 DEF PendingAbove, PendingBeside
    <2> QED
      BY <1>2, <2>4, <2>5
  <1> QED
    BY <1>3, <1>4 DEF BegunAfterOlder

\* It keeps RanByRank: what runs ranks lowest, and calls what ranks higher.
LEMMA UpdateRanks ==
    ASSUME TypeOK, ValuesInv, ClustersInv, NEW behind, LoopsApart(behind), LoopsClosed(behind),
           OnceInv(behind), RunInv(behind), NEW t \in Transactions,
           NEW n \in targets[t] \ GlobalLoopers, OnTop(t, n), Takes(t, n), TypeOK'
    PROVE  RanByRank(behind)'
  <1>1. /\ n \in Nodes \ (Sinks \cup GlobalLoopers) /\ values[n][t] = Absent
        /\ n \notin Listeners(n) /\ Running(t)
    BY TargetFacts
  <1>2. in_cluster_rank \in [Nodes -> Nat]
    BY RanksRise
  <1> SUFFICES ASSUME NEW s \in Transactions, Running(s)', NEW m \in Nodes,
                      NEW k \in targets'[s] \ GlobalLoopers,
                      Ran(s, m)', Cluster[k] = Cluster[m],
                      behind[k] = {} \/ behind[k] = behind[m]
               PROVE  in_cluster_rank[m] <= in_cluster_rank[k]
    BY DEF RanByRank
  <1>3. Running(s) /\ k \in Nodes
    BY DEF Running, Takes, TypeOK
  <1>4. Ran(s, m) \/ (s = t /\ m = n)
    BY <1>1, TakesRan
  <1>5. \/ k \in targets[s] /\ ~(s = t /\ k = n)
        \/ s = t /\ k \in Listeners(n) /\ values'[n][t] # Absent
    BY <1>3 DEF Takes
  <1>6. CASE Ran(s, m) /\ k \in targets[s]
    BY <1>3, <1>6 DEF RunInv, RanByRank
  <1>7. CASE s = t /\ m = n /\ k \in targets[s]
    BY <1>7 DEF OnTop
  <1>8. CASE s = t /\ m = n /\ k \in Listeners(n)
    <2>1. CASE k \in Loopers
      <3>1. behind[k] = {k} /\ behind[n] = {k}
        BY <1>8, <2>1 DEF LoopsApart
      <3>2. Listened(k) = {Args[k][1]}
        <4>1. /\ Operation[k] \in {"cell_loop", "stream_loop"}
              /\ k \in Nodes \ (Sinks \cup GlobalLoopers)
          BY <1>3, <2>1, NodeFacts DEF Loopers
        <4> QED
          BY <4>1, KindArgs
      <3>3. n = Args[k][1]
        BY <1>8, <3>2 DEF Listeners
      <3> QED
        BY <2>1, <3>1, <3>3 DEF LoopsClosed
    <2>2. CASE k \notin Loopers
      <3>1. in_cluster_rank[n] < in_cluster_rank[k]
        BY <1>1, <1>8, <2>2, ListenersRank
      <3> QED
        BY <1>1, <1>2, <1>3, <1>8, <3>1
    <2> QED
      BY <2>1, <2>2
  <1>9. CASE Ran(s, m) /\ s = t /\ k \in Listeners(n)
    <2>1. Cluster[m] \in begun[t] /\ <<Cluster[n], Cluster[m]>> \notin ClusterFeeds
      BY <1>1, <1>9 DEF RunInv, BegunAfterOlder, ClustersInv, BegunFromAbove
    <2>2. Cluster[k] = Cluster[n]
      BY <1>1, <1>9, <2>1, ListenersBelow
    <2>3. CASE k \in Loopers
      <3>1. behind[k] = {k} /\ behind[m] = {k}
        BY <2>3 DEF LoopsApart
      <3>2. values[k][t] = Absent
        BY <1>9, ListenerFresh
      <3>3. m \in Nodes \ (Sinks \cup GlobalLoopers)
        BY <1>9 DEF Ran
      <3>4. PICK c \in Listened(m) \ GlobalLoopers : values[c][t] # Absent
        BY <1>9 DEF Ran, Called
      <3>5. m # k
        <4>1. m = k => c = n
          BY <1>9, <2>3, <3>4, LooperSource DEF Listeners
        <4> QED
          BY <1>1, <3>4, <4>1
      <3>6. m \notin Loopers
        BY <3>1, <3>5 DEF LoopsApart
      <3>7. behind[c] = {k}
        BY <3>1, <3>3, <3>4, <3>6 DEF LoopsApart
      <3>8. c \in Nodes \ Loopers
        <4>1. c \in Nodes
          BY <3>4, ArgsFacts
        <4>2. c \in Loopers => c = k
          BY <3>7 DEF LoopsApart
        <4> QED
          BY <3>2, <3>4, <4>1, <4>2
      <3>9. t # 0 \/ k \in Cells
        BY <1>9, <2>3, LooperOfCell DEF Listeners, ClustersInv
      <3> QED
        BY <1>1, <3>2, <3>4, <3>7, <3>8, <3>9 DEF OnceInv, AfterLoopers
    <2>4. CASE k \notin Loopers
      <3>1. k \in Nodes \ (Loopers \cup GlobalLoopers) /\ n \in Listened(k)
        BY <1>3, <1>9, <2>4 DEF Listeners
      <3>2. behind[k] = behind[n]
        BY <2>2, <3>1 DEF LoopsApart
      <3>3. in_cluster_rank[m] <= in_cluster_rank[n]
        BY <1>1, <1>9, <2>2, <3>2 DEF RunInv, RanByRank
      <3>4. in_cluster_rank[n] < in_cluster_rank[k]
        BY <1>1, <1>9, <2>2, <2>4, ListenersRank
      <3>5. in_cluster_rank[m] \in Nat /\ in_cluster_rank[n] \in Nat /\ in_cluster_rank[k] \in Nat
        BY <1>1, <1>2, <1>3
      <3> QED
        BY <3>3, <3>4, <3>5
    <2> QED
      BY <2>3, <2>4
  <1> QED
    BY <1>4, <1>5, <1>6, <1>7, <1>8, <1>9

\* It keeps RanRight: its node takes what it should, and nothing changes of what ran.
LEMMA UpdateRight ==
    ASSUME TypeOK, ValuesInv, ClustersInv, NEW behind, LoopsApart(behind), LoopsClosed(behind),
           OnceInv(behind), RunInv(behind), Sinks # {}, NEW t \in Transactions,
           NEW n \in targets[t] \ GlobalLoopers, Takes(t, n)
    PROVE  RanRight'
  <1>1. /\ n \in Nodes \ (Sinks \cup GlobalLoopers) /\ values[n][t] = Absent /\ Called(t, n)
        /\ n \notin Listeners(n) /\ Running(t) /\ n \notin Range(Args[n]) \ Listened(n)
        /\ n \notin DOMAIN Inputs(t)
    BY TargetFacts
  <1>2. OnlyStored(t, n) /\ n \in Nodes \ GlobalLoopers
    BY <1>1 DEF OnlyStored, Takes
  <1> SUFFICES ASSUME NEW s \in Transactions, NEW m \in Nodes, Running(s)', Ran(s, m)'
               PROVE  (values[m][s] = Meaning!Taken(m, New(s), Old(s), Inputs(s), View(s)))'
    BY DEF RanRight
  <1>3. Running(s)
    BY DEF Running, Takes
  <1>4. Ran(s, m) \/ (s = t /\ m = n)
    BY <1>1, TakesRan
  <1>5. Inputs(s)' = Inputs(s)
    BY <1>1, <1>2, StoredElsewhere
  <1>6. m \notin DOMAIN Inputs(s)
    BY <1>1, <1>4, RanNotInitial DEF ClustersInv
  <1>7. m \notin DOMAIN Inputs(s)'
    BY <1>5, <1>6
  <1>8. Range(Args[m]) \subseteq Nodes /\ Listened(m) \subseteq Nodes
    BY ArgsFacts
  <1>9. \A g \in GlobalLoopers : CellSample(g, s)' = CellSample(g, s)
    BY <1>2, StoredElsewhere
  <1>10. m \in Nodes \ (Sinks \cup GlobalLoopers)
    BY <1>1, <1>4 DEF Ran
  <1>11. \A c \in Nodes : ~(c = n /\ s = t) => values'[c][s] = values[c][s]
    BY <1>2 DEF OnlyStored
  <1>12. \A c \in Range(Args[m]) \ GlobalLoopers : Old(s)'[c] = Old(s)[c]
    <2>1. CASE s <= t
      BY <1>2, <1>8, <2>1, StoredElsewhere
    <2>2. CASE ~(s <= t)
      <3>1. t \in 0 .. (s - 1) /\ s # t
        BY <2>2, TransactionsNat
      <3>2. Cluster[n] # Cluster[m] /\ <<Cluster[n], Cluster[m]>> \notin ClusterFeeds
        BY <1>3, <1>4, <3>1 DEF RunInv, BegunAfterOlder
      <3>3. n \notin Range(Args[m])
        BY <1>1, <1>10, <3>2, ClustersOrdered
      <3> QED
        BY <1>2, <1>8, <3>3, StoredElsewhere
    <2> QED
      BY <2>1, <2>2
  <1>13. ASSUME \A c \in Listened(m) \ GlobalLoopers : values'[c][s] = values[c][s],
                \A c \in Range(Args[m]) \ Listened(m) :
                    c \notin GlobalLoopers /\ <<m, c>> \notin Closes =>
                      values'[c][s] = values[c][s]
         PROVE  Meaning!Taken(m, New(s), Old(s), Inputs(s), View(s))'
                  = Meaning!Taken(m, New(s), Old(s), Inputs(s), View(s))
    BY <1>6, <1>7, <1>8, <1>9, <1>12, <1>13, TakenKept
  <1>14. CASE s = t /\ m = n
    <2>1. \A c \in Range(Args[n]) \ (Listened(n) \cup GlobalLoopers) :
               <<n, c>> \in Closes => values[c][t] = Absent
      BY ClosesBefore DEF RunInv
    <2>2. updater(n, t) = Meaning!Taken(n, New(t), Old(t), Inputs(t), View(t))
      BY <1>1, <2>1, UpdaterTaken DEF ClustersInv
    <2>3. values'[n][t] = updater(n, t)
      BY <1>1 DEF Takes
    <2>4. n \notin Listened(n)
      BY <1>1 DEF Listeners
    <2>5. /\ \A c \in Listened(m) \ GlobalLoopers : values'[c][s] = values[c][s]
          /\ \A c \in Range(Args[m]) \ Listened(m) : values'[c][s] = values[c][s]
      BY <1>1, <1>8, <1>11, <1>14, <2>4
    <2> QED
      BY <1>13, <1>14, <2>2, <2>3, <2>5
  <1>15. CASE Ran(s, m) /\ ~(s = t /\ m = n)
    <2>1. values[m][s] = Meaning!Taken(m, New(s), Old(s), Inputs(s), View(s))
      BY <1>3, <1>15 DEF RunInv, RanRight
    <2>2. values'[m][s] = values[m][s]
      BY <1>11, <1>15
    <2>3. ASSUME NEW c \in Listened(m) PROVE values'[c][s] = values[c][s]
      <3>1. CASE c = n /\ s = t
        <4>1. m \in Listeners(n)
          BY <2>3, <3>1 DEF Listeners
        <4>2. values'[n][t] = Absent
          BY <1>1, <3>1, <4>1, TakesRan
        <4> QED
          BY <1>1, <3>1, <4>2
      <3>2. CASE ~(c = n /\ s = t)
        BY <1>8, <1>11, <3>2
      <3> QED
        BY <3>1, <3>2
    <2>4. ASSUME NEW c \in Range(Args[m]) \ Listened(m), c \notin GlobalLoopers,
                 <<m, c>> \notin Closes
          PROVE  values'[c][s] = values[c][s]
      <3>1. CASE c = n /\ s = t
        <4>1. Cluster[m] \in begun[t] /\ <<Cluster[n], Cluster[m]>> \notin ClusterFeeds
          BY <1>1, <1>3, <1>15, <3>1 DEF RunInv, BegunAfterOlder, ClustersInv, BegunFromAbove
        <4>2. Cluster[n] = Cluster[m]
          BY <1>1, <1>10, <2>4, <3>1, <4>1, ClustersOrdered
        <4>3. behind[n] = {} \/ behind[n] = behind[m]
          BY <2>4, <3>1, <4>2 DEF LoopsClosed
        <4>4. in_cluster_rank[m] <= in_cluster_rank[n]
          BY <1>1, <1>15, <3>1, <4>2, <4>3 DEF RunInv, RanByRank
        <4>5. m \notin Loopers
          BY <2>4 DEF Loopers, Listened
        <4>6. <<n, m>> \in Edges
          BY <1>1, <1>10, <2>4, <3>1, <4>5 DEF Edges, AllEdges
        <4>7. in_cluster_rank[n] < in_cluster_rank[m]
          BY <1>1, <4>2, <4>6, RanksRise
        <4>8. in_cluster_rank[n] \in Nat /\ in_cluster_rank[m] \in Nat
          BY <1>1, RanksRise
        <4> QED
          BY <4>4, <4>7, <4>8
      <3>2. CASE ~(c = n /\ s = t)
        BY <1>8, <1>11, <3>2
      <3> QED
        BY <3>1, <3>2
    <2>5. Meaning!Taken(m, New(s), Old(s), Inputs(s), View(s))'
                  = Meaning!Taken(m, New(s), Old(s), Inputs(s), View(s))
      BY <1>13, <2>3, <2>4
    <2> QED
      BY <2>1, <2>2, <2>5
  <1> QED
    BY <1>4, <1>14, <1>15

-----------------------------------------------------------------------------
(* RunInv holds in every run.                                              *)

\* It begins so.
LEMMA KnownInit == Init => Known
  <1> SUFFICES ASSUME Init PROVE Known
    OBVIOUS
  <1>1. /\ \A t \in Transactions : phase[t] = IF t = 0 THEN "submitted" ELSE "none"
        /\ \A t \in Transactions : begun[t] = {}
        /\ registered = {0}
        /\ \A t \in Transactions : cleanups[t] = IF t = 0 THEN DOMAIN Initial ELSE {}
    BY DEF Init
  <1>2. DOMAIN Initial \cap GlobalLoopers = {}
    BY InitialHolds DEF GlobalLoopers
  <1> QED
    BY <1>1, <1>2 DEF Known, Over

\* No step breaks it.
LEMMA KnownNext ==
    ASSUME TypeOK, ValuesInv, Known, [Next]_vars
    PROVE  Known'
  <1>1. \A t \in Transactions : cleanups[t] \cap GlobalLoopers = {}
    BY DEF Known
  <1>2. ASSUME NEW r \in Transactions, NEW n \in Sinks, NEW v \in Sent, Send(r, n, v)
        PROVE  Known'
    <2>1. UNCHANGED <<phase, registered, begun>>
      BY <1>2 DEF Send
    <2>2. \A t \in Transactions : cleanups'[t] \cap GlobalLoopers = {}
      BY <1>1, <1>2, NodeFacts DEF Send, Store, Cleaned, TypeOK
    <2> QED
      BY <2>1, <2>2 DEF Known, Over
  <1>3. ASSUME NEW r \in Transactions, NEW n \in Nodes, Update(r, n)
        PROVE  Known'
    <2>1. UNCHANGED <<phase, registered>> /\ r \in registered /\ n \notin GlobalLoopers
      BY <1>3 DEF Update, MayUpdate
    <2>2. \A t \in Transactions : begun'[t] = begun[t] \/ t = r
      BY <1>3 DEF Update, TypeOK
    <2>3. \A t \in Transactions : cleanups'[t] \cap GlobalLoopers = {}
      <3>1. cleanups' = cleanups \/ cleanups' = [cleanups EXCEPT ![r] = @ \cup {n}]
        BY <1>3 DEF Update, Store, Cleaned
      <3>2. \A t \in Transactions : cleanups'[t] \subseteq cleanups[t] \cup {n}
        BY <3>1 DEF TypeOK
      <3> QED
        BY <1>1, <2>1, <3>2
    <2> QED
      BY <2>1, <2>2, <2>3 DEF Known, Over
  <1>4. ASSUME NEW r \in Transactions, NEW n \in Nodes, UpdateLooper(r, n)
        PROVE  Known'
    <2>1. UNCHANGED <<phase, registered, cleanups>> /\ r \in registered
      BY <1>4 DEF UpdateLooper, MayUpdate
    <2>2. \A t \in Transactions : begun'[t] = begun[t] \/ t = r
      BY <1>4 DEF UpdateLooper, TypeOK
    <2> QED
      BY <2>1, <2>2 DEF Known, Over
  <1>5. ASSUME NEW r \in Transactions, Refresh(r)
        PROVE  Known'
    <2>1. UNCHANGED <<phase, registered, begun>>
      BY <1>5 DEF Refresh, updateVars
    <2>2. \A t \in Transactions : cleanups'[t] \cap GlobalLoopers = {}
      BY <1>1, <1>5 DEF Refresh, TypeOK
    <2> QED
      BY <2>1, <2>2 DEF Known, Over
  <1>6. ASSUME NEW r \in Transactions, r # 0, HandleRegister(r)
        PROVE  Known'
    <2>1. UNCHANGED <<phase, cleanups, begun>> /\ registered \subseteq registered'
      BY <1>6 DEF HandleRegister, updateVars
    <2> QED
      BY <2>1 DEF Known, Over
  <1>7. ASSUME NEW r \in Transactions,
               \/ (r # 0 /\ Begin(r)) \/ Submit(r) \/ Finalize(r) \/ Done(r) \/ ReleaseHooks(r)
        PROVE  Known'
    <2>1. UNCHANGED <<registered, cleanups, begun>>
      BY <1>7 DEF Begin, Submit, Finalize, Done, ReleaseHooks, updateVars
    <2>2. \A t \in Transactions : Over(t)' => Over(t) \/ t \in registered
      BY <1>7 DEF Begin, Submit, Finalize, Done, ReleaseHooks, TypeOK, Over
    <2>3. \A t \in Transactions \ {0} : phase'[t] # "none" => phase'[0] \in {"woken", "done"}
      <3>1. 0 \in Transactions
        BY TransactionsNat
      <3>2. CASE r # 0
        <4>1. phase'[0] = phase[0] /\ \A t \in Transactions \ {r} : phase'[t] = phase[t]
          BY <1>7, <3>1, <3>2 DEF Begin, Submit, Finalize, Done, ReleaseHooks, TypeOK
        <4>2. phase[r] # "none" \/ phase[0] \in {"woken", "done"}
          BY <1>7, <3>2 DEF Begin, Submit, Finalize, Done, ReleaseHooks
        <4> QED
          BY <3>2, <4>1, <4>2 DEF Known
      <3>3. CASE r = 0
        <4>1. \A t \in Transactions \ {0} : phase'[t] = phase[t]
          BY <1>7, <3>1, <3>3 DEF Submit, Finalize, Done, ReleaseHooks, TypeOK
        <4>2. phase[0] \in {"woken", "done"} => phase'[0] \in {"woken", "done"}
          BY <1>7, <3>1, <3>3 DEF Submit, Finalize, Done, ReleaseHooks, TypeOK
        <4> QED
          BY <4>1, <4>2 DEF Known
      <3> QED
        BY <3>2, <3>3
    <2> QED
      BY <2>1, <2>2, <2>3 DEF Known
  <1>8. Rest \/ UNCHANGED vars => Known'
    BY DEF Rest, vars, updateVars, Known, Over
  <1> QED
    BY <1>2, <1>3, <1>4, <1>5, <1>6, <1>7, <1>8, TransactionsNat DEF Next

\* A step updates a node or the looper of a GlobalCellLoop, sends to a sink, or leaves what
\* runs as it is.
LEMMA StepCases ==
    ASSUME TypeOK, ValuesInv, ClustersInv, Once, Known, NoneLeft', [Next]_vars
    PROVE  \/ \E t \in Transactions : \E n \in targets[t] \ GlobalLoopers :
                n \in Nodes /\ Update(t, n) /\ MayUpdate(t, n) /\ OnTop(t, n) /\ Takes(t, n)
           \/ \E t \in Transactions, n \in GlobalLoopers : UpdateLooper(t, n)
           \/ \E t \in Transactions, n \in Sinks, v \in Sent : Send(t, n, v)
           \/ Still
  <1>1. ASSUME NEW t \in Transactions, NEW n \in Nodes, Update(t, n)
        PROVE  /\ n \in targets[t] \ GlobalLoopers /\ MayUpdate(t, n) /\ OnTop(t, n)
               /\ Takes(t, n)
    BY <1>1, UpdateTakes DEF Update
  <1>2. ASSUME NEW t \in Transactions, NEW n \in Nodes, UpdateLooper(t, n)
        PROVE  n \in GlobalLoopers
    BY <1>2 DEF UpdateLooper
  <1>3. Rest \/ UNCHANGED vars => Still
    BY OthersStill, TransactionsNat DEF Rest
  <1> QED
    BY <1>1, <1>2, <1>3, RefreshStill, HandleRegisterStill, OthersStill DEF Next

\* RunInv holds at first: nothing ran.
LEMMA RunInit ==
    ASSUME NEW behind, Sinks # {}, Init
    PROVE  RunInv(behind)
  <1>1. /\ \A t \in Transactions : phase[t] = IF t = 0 THEN "submitted" ELSE "none"
        /\ \A t \in Transactions : begun[t] = {}
        /\ \A n \in Nodes, t \in Transactions :
             values[n][t] = IF t = 0 /\ n \in DOMAIN Initial THEN Initial[n] ELSE Absent
    BY DEF Init
  <1>2. \A t \in Transactions : Running(t) => t = 0
    BY <1>1 DEF Running
  <1>3. DOMAIN Initial \subseteq Nodes \ GlobalLoopers
    BY InitialHolds, NodeFacts DEF GlobalLoopers
  <1>4. /\ 0 \in Transactions
        /\ \A m \in targets[0] : \E n \in DOMAIN Initial : m \in Listeners(n)
        /\ \A n \in DOMAIN Initial : Listeners(n) \subseteq targets[0]
    <2>1. NoneLeftInv
      BY NoneLeftInit
    <2>2. /\ targets[0] = {m \in UNION {Listeners(n) : n \in DOMAIN Initial} : UserTakes(m)}
          /\ left[0] = {m \in UNION {Listeners(n) : n \in DOMAIN Initial} : ~UserTakes(m)}
      BY TransactionsNat DEF Init
    <2>3. left[0] = {}
      BY <2>1, TransactionsNat DEF NoneLeftInv
    <2> QED
      BY <2>2, <2>3, TransactionsNat
  <1>5. \A n \in Nodes : values[n][0] # Absent <=> n \in DOMAIN Initial
    BY <1>1, <1>4, NodeFacts
  <1>6. \A m \in Nodes : Called(0, m) => m \in targets[0]
    <2> SUFFICES ASSUME NEW m \in Nodes, Called(0, m) PROVE m \in targets[0]
      OBVIOUS
    <2>1. PICK n \in Listened(m) \ GlobalLoopers : values[n][0] # Absent
      BY DEF Called
    <2>2. n \in DOMAIN Initial /\ m \in Listeners(n)
      BY <1>5, <2>1, ArgsFacts DEF Listeners
    <2> QED
      BY <1>4, <2>2
  <1>7. \A t \in Transactions, m \in Nodes : ~(Running(t) /\ Ran(t, m))
    BY <1>2, <1>6 DEF Ran
  <1>8. CalledFirst
    <2>1. \A m \in targets[0] : Called(0, m)
      <3> TAKE m \in targets[0]
      <3>1. PICK n \in DOMAIN Initial : m \in Listeners(n)
        BY <1>4
      <3> QED
        BY <1>3, <1>5, <3>1 DEF Called, Listeners
    <2>2. \A n \in Sinks \cup DOMAIN Initial :
             values[n][0] = IF n \in DOMAIN Initial THEN Initial[n] ELSE Absent
      BY <1>1, <1>3, <1>4, NodeFacts
    <2> QED
      BY <1>2, <1>5, <2>1, <2>2 DEF CalledFirst
  <1> QED
    BY <1>1, <1>7, <1>8 DEF RunInv, BegunAfterOlder, RanByRank, RanRight

\* No step breaks RunInv.
LEMMA RunNext ==
    ASSUME TypeOK, ValuesInv, ClustersInv, NEW behind, LoopsApart(behind), LoopsClosed(behind),
           OnceInv(behind), Sinks # {}, Known, RunInv(behind), TypeOK', NoneLeft', [Next]_vars
    PROVE  RunInv(behind)'
  <1>1. ASSUME NEW t \in Transactions, NEW n \in targets[t] \ GlobalLoopers, MayUpdate(t, n),
               OnTop(t, n), Takes(t, n)
        PROVE  RunInv(behind)'
    <2>1. CalledFirst'
      BY <1>1, UpdateCalled
    <2>2. BegunAfterOlder'
      BY <1>1, UpdateBegun
    <2>3. RanByRank(behind)'
      BY <1>1, UpdateRanks
    <2>4. RanRight'
      BY <1>1, UpdateRight
    <2> QED
      BY <2>1, <2>2, <2>3, <2>4 DEF RunInv
  <1>2. Still => RunInv(behind)'
    BY StillKeeps DEF ClustersInv
  <1>3. ASSUME NEW t \in Transactions, NEW n \in GlobalLoopers, UpdateLooper(t, n)
        PROVE  RunInv(behind)'
    BY <1>3, UpdateLooperRun
  <1>4. ASSUME NEW t \in Transactions, NEW n \in Sinks, NEW v \in Sent, Send(t, n, v)
        PROVE  RunInv(behind)'
    BY <1>4, SendRun
  <1>5. Once
    BY DEF OnceInv
  <1> QED
    BY <1>1, <1>2, <1>3, <1>4, <1>5, StepCases

-----------------------------------------------------------------------------
(* The loopers of GlobalCellLoops.                                         *)

\* The transactions that are over come first, then those that are registered.
LEMMA TransactionsLine ==
    ASSUME TypeOK, ValuesInv, Known
    PROVE  \E k, q \in Nat :
             /\ k <= q /\ q > 0 /\ q <= MaxTransactions
             /\ Finalized = 0 .. (k - 1) /\ registered = 0 .. (q - 1)
             /\ Cardinality(Finalized) = k /\ Cardinality(registered \ Finalized) = q - k
             /\ k > 0 => Max(Finalized) = k - 1
             /\ k > 0 <=> Finalized # {}
             /\ registered \ Finalized = k .. (q - 1)
  <1>1. MaxTransactions \in Nat \ {0} /\ Transactions = 0 .. (MaxTransactions - 1)
    BY GraphTyped DEF Transactions
  <1>2. ASSUME NEW S \in SUBSET Transactions,
               \A r \in S, s \in Transactions : s < r => s \in S
        PROVE  \E k \in Nat : /\ k <= MaxTransactions /\ S = 0 .. (k - 1)
                              /\ k > 0 => Max(S) = k - 1
    <2>1. CASE S = {}
      <3>1. S = 0 .. (0 - 1)
        BY <2>1
      <3> QED
        BY <1>1, <3>1
    <2>2. CASE S # {}
      <3> DEFINE m == Max(S)
      <3>1. m \in S /\ \A j \in S : j <= m
        <4>1. MaxTransactions - 1 \in Nat /\ S \subseteq 0 .. (MaxTransactions - 1)
          BY <1>1
        <4> QED
          BY <2>2, <4>1, MaxOf
      <3> HIDE DEF m
      <3>2. m \in Nat /\ m + 1 \in Nat /\ m + 1 <= MaxTransactions /\ (m + 1) - 1 = m
        BY <1>1, <1>2, <3>1
      <3>3. S \subseteq 0 .. m
        BY <1>1, <1>2, <3>1, <3>2
      <3>4. ASSUME NEW s \in 0 .. m PROVE s \in S
        <4>1. s \in Transactions /\ (s = m \/ s < m)
          BY <1>1, <3>2
        <4> QED
          BY <1>2, <3>1, <4>1
      <3>5. S = 0 .. m
        BY <3>3, <3>4
      <3> QED
        BY <3>2, <3>5 DEF m
    <2> QED
      BY <2>1, <2>2
  <1>3. PICK k \in Nat : /\ k <= MaxTransactions /\ Finalized = 0 .. (k - 1)
                         /\ k > 0 => Max(Finalized) = k - 1
    <2>1. Finalized \in SUBSET Transactions
      BY DEF Finalized
    <2>2. \A r \in Finalized, s \in Transactions : s < r => s \in Finalized
      BY DEF Finalized, ValuesInv, Order, Over
    <2> HIDE DEF Finalized
    <2> QED
      BY <1>2, <2>1, <2>2
  <1>4. PICK q \in Nat : q <= MaxTransactions /\ registered = 0 .. (q - 1)
    <2>1. \A r \in registered, s \in Transactions : s < r => s \in registered
      BY DEF ValuesInv, Order
    <2>2. registered \in SUBSET Transactions
      BY DEF TypeOK
    <2> QED
      BY <1>2, <2>1, <2>2
  <1>5. q > 0
    BY <1>4 DEF Known
  <1>6. k <= q
    <2>1. Finalized \subseteq registered
      BY DEF Finalized, Known, Over
    <2>2. k > 0 => k - 1 \in Finalized
      BY <1>3
    <2>3. k > 0 => k - 1 \in 0 .. (q - 1)
      BY <1>4, <2>1, <2>2
    <2> QED
      BY <1>3, <1>4, <2>3
  <1>7. registered \ Finalized = k .. (q - 1)
    BY <1>3, <1>4, <1>6
  <1>8. Cardinality(0 .. (k - 1)) = k /\ Cardinality(k .. (q - 1)) = q - k
    <2>1. 0 \in Int /\ k - 1 \in Int /\ k \in Int /\ q - 1 \in Int
      BY <1>3, <1>4
    <2>2. /\ Cardinality(0 .. (k - 1)) = IF 0 > k - 1 THEN 0 ELSE (k - 1) - 0 + 1
          /\ Cardinality(k .. (q - 1)) = IF k > q - 1 THEN 0 ELSE (q - 1) - k + 1
      BY <2>1, FS_Interval
    <2> QED
      BY <1>3, <1>4, <1>6, <2>2
  <1>9. k > 0 <=> Finalized # {}
    BY <1>3
  <1> QED
    BY <1>3, <1>4, <1>5, <1>6, <1>7, <1>8, <1>9

\* The looper of a GlobalCellLoop listens to its source alone.
LEMMA LooperArg ==
    ASSUME NEW behind, LoopsClosed(behind), NEW g \in GlobalLoopers
    PROVE  /\ g \in Nodes /\ 1 \in DOMAIN Args[g] /\ Args[g][1] \in Cells
           /\ Args[g][1] \in Nodes /\ Listened(g) = {Args[g][1]}
           /\ g \in Listeners(Args[g][1])
  <1>1. g \in Nodes /\ Args[g] \in Seq(Nodes) /\ Args[g] # <<>>
    BY NodeFacts, GraphTyped DEF LoopsClosed
  <1>2. 1 \in DOMAIN Args[g]
    BY <1>1
  <1>3. Operation[g] = "global_cell_loop"
    BY DEF GlobalLoopers
  <1>4. Args[g][1] \in Listened(g) /\ Args[g][1] \in Cells
    BY <1>1, <1>2, <1>3, ArgsTyped DEF Listened, Range
  <1>5. \A m \in Listened(g) : m = Args[g][1]
    BY <1>4, LooperSource
  <1> QED
    BY <1>1, <1>2, <1>4, <1>5, NodeFacts DEF Listeners

\* No step but the end of a transaction changes what cells are now.
LEMMA NowKept ==
    ASSUME TypeOK, ValuesInv, ClustersInv, Once, Known, NoneLeft', [Next]_vars,
           Finalized' = Finalized
    PROVE  Now' = Now
  <1> SUFFICES ASSUME NEW n \in Cells \ GlobalLoopers, Finalized # {}
               PROVE  Sample(n, Max(Finalized))' = Sample(n, Max(Finalized))
    BY DEF Now
  <1>1. PICK m \in Finalized : m = Max(Finalized) /\ \A r \in Finalized : r <= m
    <2>1. Finalized \subseteq 0 .. (MaxTransactions - 1) /\ MaxTransactions - 1 \in Nat
      BY GraphTyped DEF Finalized, Transactions
    <2> QED
      BY <2>1, MaxOf
  <1>2. m = Max(Finalized)'
    BY <1>1
  <1> SUFFICES \E s \in 0 .. m : /\ s = 0 \/ values[n][s] # Absent
                                 /\ \A k \in s .. m : values'[n][k] = values[n][k]
    <2>1. m \in Transactions /\ n \in Nodes
      BY NodeFacts DEF Finalized
    <2>2. PICK s \in 0 .. m : /\ s = 0 \/ values[n][s] # Absent
                              /\ \A k \in s .. m : values'[n][k] = values[n][k]
      OBVIOUS
    <2>3. Sample(n, m)' = Sample(n, m)
      BY <2>1, <2>2, SampleKept
    <2>4. Sample(n, Max(Finalized))' = Sample(n, m)'
      BY <1>2 DEF Sample, CellSample, StreamSample
    <2> QED
      BY <1>1, <2>3, <2>4
  <1>3. m \in Nat /\ 0 .. m \subseteq Transactions /\ m \in Transactions /\ n \in Nodes
    BY <1>1, TransactionsNat, NodeFacts DEF Finalized
  <1>4. ASSUME \A k \in 0 .. m : values'[n][k] = values[n][k]
        PROVE  \E s \in 0 .. m : /\ s = 0 \/ values[n][s] # Absent
                                 /\ \A k \in s .. m : values'[n][k] = values[n][k]
    <2>1. 0 \in 0 .. m
      BY <1>3
    <2> QED
      BY <1>4, <2>1
  <1>5. ASSUME NEW t \in Transactions, Running(t) PROVE t \notin 0 .. m
    <2>1. t # m /\ ~(t < m)
      BY <1>1, <1>5 DEF Finalized, Running, ValuesInv, Order, Over
    <2> QED
      BY <1>3, <2>1, TransactionsNat
  <1>6. ASSUME NEW t \in Transactions, NEW c \in Nodes, Update(t, c)
        PROVE  \A k \in 0 .. m : values'[n][k] = values[n][k]
    <2>1. Running(t) /\ Takes(t, c)
      BY <1>6, UpdateTakes DEF Update, MayUpdate, Running
    <2> QED
      BY <1>3, <1>5, <2>1 DEF Takes
  <1>7. ASSUME NEW t \in Transactions, NEW c \in Sinks, NEW v \in Sent, Send(t, c, v)
        PROVE  \A k \in 0 .. m : values'[n][k] = values[n][k]
    <2>1. Running(t)
      BY <1>7 DEF Send, Running
    <2>2. \A k \in Transactions : k # t => values'[n][k] = values[n][k]
      BY <1>3, <1>7, NodeFacts DEF Send, Store, TypeOK
    <2> QED
      BY <1>3, <1>5, <2>1, <2>2
  <1>8. ASSUME NEW t \in Transactions, Refresh(t)
        PROVE  \E s \in 0 .. m : /\ s = 0 \/ values[n][s] # Absent
                                 /\ \A k \in s .. m : values'[n][k] = values[n][k]
    <2>1. PICK c \in cleanups[t] :
             /\ c \in Nodes
             /\ \A s \in Transactions :
                  cleanups'[s] = IF s = t THEN cleanups[t] \ {c} ELSE cleanups[s]
             /\ \A x \in Nodes \ {c} : values'[x] = values[x]
             /\ \A s \in Transactions :
                  values'[c][s] = IF (c \in Cells /\ s < t) \/ (c \notin Cells /\ s = t)
                                    THEN Absent ELSE values[c][s]
             /\ exited' = FALSE
      BY <1>8, RefreshErases
    <2>2. CASE c = n
      <3>1. values[n][t] # Absent
        BY <2>1, <2>2 DEF ValuesInv, Owed
      <3>2. t <= m /\ t \in Nat
        BY <1>1, <1>8, TransactionsNat DEF Refresh, Finalized
      <3>3. t \in 0 .. m /\ \A k \in t .. m : k \in Transactions /\ ~(k < t)
        BY <1>3, <3>2
      <3>4. \A k \in t .. m : values'[n][k] = values[n][k]
        BY <2>1, <2>2, <3>3
      <3> QED
        BY <3>1, <3>3, <3>4
    <2>3. CASE c # n
      BY <1>3, <1>4, <2>1, <2>3
    <2> QED
      BY <2>2, <2>3
  <1>9. ASSUME NEW t \in Transactions,
               \/ Begin(t) \/ HandleRegister(t) \/ Submit(t)
               \/ (\E c \in Nodes : UpdateLooper(t, c)) \/ Finalize(t) \/ Done(t) \/ ReleaseHooks(t) \/ UNCHANGED vars
        PROVE  values'[n] = values[n]
    BY <1>3, <1>9 DEF Begin, HandleRegister, Submit, UpdateLooper, Finalize, Done, ReleaseHooks,
                 vars
  <1>10. Rest => UNCHANGED vars
    BY DEF Rest
  <1> QED
    BY <1>3, <1>4, <1>6, <1>7, <1>8, <1>9, <1>10 DEF Next

\* No transaction but the one that ends holds values for loopers that wait to be released.
LEMMA HooksInit ==
    ASSUME NEW behind, LoopsClosed(behind), Sinks # {}, Init
    PROVE  HooksRight /\ LoopersFollow
  <1>1. /\ \A t \in Transactions : phase[t] = IF t = 0 THEN "submitted" ELSE "none"
        /\ \A n \in Nodes, t \in Transactions :
             values[n][t] = IF t = 0 /\ n \in DOMAIN Initial THEN Initial[n] ELSE Absent
        /\ \A g \in GlobalLoopers : /\ before_update_hooks[g] = Absent
                                    /\ \A t \in Transactions :
                                         before_update_hooks_buffers[t][g] = Absent
    BY DEF Init, NoHooks
  <1>2. ASSUME NEW g \in GlobalLoopers, NEW t \in Transactions, g \notin targets[t]
        PROVE  New(t)[Args[g][1]] = Absent
    <2> DEFINE src == Args[g][1]
    <2>1. src \in Nodes /\ g \in Listeners(src)
      BY LooperArg
    <2>2. t = 0 => src \notin DOMAIN Initial
      <3>1. NoneLeftInv
        BY NoneLeftInit
      <3>2. /\ targets[0] = {m \in UNION {Listeners(n) : n \in DOMAIN Initial} : UserTakes(m)}
            /\ left[0] = {m \in UNION {Listeners(n) : n \in DOMAIN Initial} : ~UserTakes(m)}
        BY TransactionsNat DEF Init
      <3>3. left[0] = {}
        BY <3>1, TransactionsNat DEF NoneLeftInv
      <3> HIDE DEF src
      <3> QED
        BY <1>2, <2>1, <3>2, <3>3
    <2>3. values[src][t] = Absent
      BY <1>1, <2>1, <2>2
    <2> HIDE DEF src
    <2>4. New(t)[src] = Absent
      BY <2>1, <2>3 DEF New
    <2> QED
      BY <2>4 DEF src
  <1>3. Finalized = {}
    BY <1>1 DEF Finalized
  <1>4. ASSUME NEW g \in GlobalLoopers PROVE Now[Args[g][1]] = Absent /\ LastHeld(g) = Absent
    <2>1. \A t \in Transactions : values[g][t] = Absent
      BY <1>1, InitialHolds, NodeFacts DEF GlobalLoopers
    <2>2. \A t \in 0 .. (MaxTransactions - 1) : values[g][t] = Absent
      BY <2>1 DEF Transactions
    <2>3. CellSample(g, MaxTransactions - 1) = Absent
      BY <2>2 DEF CellSample
    <2>4. Args[g][1] \in Nodes
      BY LooperArg
    <2> QED
      BY <1>1, <1>3, <2>3, <2>4 DEF Now, LastHeld
  <1>5. HooksRight
    BY <1>1, <1>2 DEF HooksRight
  <1>6. LoopersFollow
    BY <1>1, <1>4 DEF LoopersFollow
  <1> QED
    BY <1>5, <1>6

\* What a node does with its listeners of GlobalCellLoops.
LEMMA HooksStored ==
    ASSUME NEW behind, LoopsClosed(behind), HooksRight,
           NEW t \in Transactions, NEW n \in Nodes, OnlyStored(t, n),
           UNCHANGED <<phase, before_update_hooks_buffers>>,
           values[n][t] = values'[n][t] \/ Listeners(n) \subseteq targets'[t],
           \A s \in Transactions : targets[s] \subseteq targets'[s] \cup (Nodes \ GlobalLoopers)
    PROVE  HooksRight'
  <1> SUFFICES ASSUME NEW s \in Transactions, NEW g \in GlobalLoopers,
                      phase[s] \in {"none", "open", "submitted"}, g \notin targets'[s]
               PROVE  before_update_hooks_buffers[s][g] = New(s)'[Args[g][1]]
    BY DEF HooksRight
  <1>1. g \notin targets[s] /\ Args[g][1] \in Nodes /\ g \in Listeners(Args[g][1])
    BY LooperArg
  <1>2. before_update_hooks_buffers[s][g] = New(s)[Args[g][1]]
    BY <1>1 DEF HooksRight
  <1>3. values'[Args[g][1]][s] = values[Args[g][1]][s]
    BY <1>1 DEF OnlyStored
  <1> QED
    BY <1>1, <1>2, <1>3 DEF New

\* No step breaks HooksRight.
LEMMA HooksNext ==
    ASSUME TypeOK, ValuesInv, ClustersInv, Once, Known, NoneLeft', CalledFirst, HooksRight,
           NEW behind, LoopsClosed(behind), [Next]_vars
    PROVE  HooksRight'
  <1>1. ASSUME NEW t \in Transactions, NEW n \in Nodes, Update(t, n)
        PROVE  HooksRight'
    <2>1. Takes(t, n) /\ n \in targets[t] \ GlobalLoopers
      BY <1>1, UpdateTakes DEF Update
    <2>2. OnlyStored(t, n) /\ UNCHANGED <<phase, before_update_hooks_buffers>>
      BY <2>1 DEF Takes, OnlyStored, hookVars
    <2>3. values[n][t] = Absent
      BY <2>1 DEF Once
    <2>4. Listeners(n) \subseteq Nodes
      BY DEF Listeners
    <2>5. values[n][t] = values'[n][t] \/ Listeners(n) \subseteq targets'[t]
      BY <2>1, <2>3, <2>4 DEF Takes
    <2>6. \A s \in Transactions : targets[s] \subseteq targets'[s] \cup (Nodes \ GlobalLoopers)
      <3>1. \A s \in Transactions : targets[s] \subseteq Nodes
        BY DEF TypeOK
      <3>2. \A s \in Transactions, m \in Nodes : m \in targets[s] => m \in targets'[s] \/ m = n
        BY <2>1 DEF Takes
      <3> QED
        BY <2>1, <3>1, <3>2
    <2> QED
      BY <2>2, <2>5, <2>6, HooksStored
  <1>2. ASSUME NEW t \in Transactions, NEW n \in Sinks, NEW v \in Sent, Send(t, n, v)
        PROVE  HooksRight'
    <2>1. n \in Nodes
      BY NodeFacts
    <2>2. OnlyStored(t, n) /\ UNCHANGED <<phase, before_update_hooks_buffers>>
      BY <1>2, <2>1 DEF Send, Store, OnlyStored, hookVars, TypeOK
    <2>3. {m \in Listeners(n) : ~UserTakes(m)} = {}
      BY <1>2 DEF Send, NoneLeft, TypeOK
    <2>4. /\ Listeners(n) \subseteq targets'[t]
          /\ \A s \in Transactions : targets[s] \subseteq targets'[s]
      BY <1>2, <2>3 DEF Send, TypeOK
    <2> QED
      BY <2>1, <2>2, <2>4, HooksStored
  <1>3. ASSUME NEW t \in Transactions, NEW n \in GlobalLoopers, UpdateLooper(t, n)
        PROVE  HooksRight'
    <2> DEFINE src == Args[n][1]
    <2>1. /\ n \in targets[t] /\ UNCHANGED <<phase, values>>
          /\ before_update_hooks_buffers' =
               [before_update_hooks_buffers EXCEPT ![t][n] = Arg(n, 1, t)]
          /\ targets' = [targets EXCEPT ![t] = @ \ {n}]
      BY <1>3 DEF UpdateLooper
    <2>2. src \in Nodes /\ Listened(n) = {src}
      BY LooperArg
    <2>3. Running(t)
      BY <2>1 DEF ValuesInv, Triggered
    <2>4. src \notin GlobalLoopers /\ values[src][t] # Absent
      BY <2>1, <2>2, <2>3 DEF CalledFirst, Called
    <2>5. Arg(n, 1, t) = New(t)[src]
      BY <2>2, <2>4, SampleLatest DEF Arg
    <2>6. \A s \in Transactions : New(s)' = New(s)
      BY <2>1 DEF New
    <2>7. \A s \in Transactions, g \in GlobalLoopers :
            before_update_hooks_buffers'[s][g] =
              IF s = t /\ g = n THEN Arg(n, 1, t) ELSE before_update_hooks_buffers[s][g]
      BY <2>1 DEF TypeOK
    <2>8. \A s \in Transactions, g \in GlobalLoopers :
            g \notin targets'[s] => g \notin targets[s] \/ (s = t /\ g = n)
      BY <2>1 DEF TypeOK
    <2> HIDE DEF src
    <2>9. ASSUME NEW s \in Transactions, NEW g \in GlobalLoopers,
                 phase[s] \in {"none", "open", "submitted"}, g \notin targets'[s]
          PROVE  before_update_hooks_buffers'[s][g] = New(s)[Args[g][1]]
      <3>1. CASE s = t /\ g = n
        BY <2>5, <2>7, <3>1 DEF src
      <3>2. CASE ~(s = t /\ g = n)
        BY <2>7, <2>8, <2>9, <3>2 DEF HooksRight
      <3> QED
        BY <3>1, <3>2
    <2>10. \A s \in Transactions, g \in GlobalLoopers :
              (New(s)[Args[g][1]])' = New(s)[Args[g][1]]
      BY <2>6
    <2> QED
      BY <2>1, <2>9, <2>10 DEF HooksRight
  <1>4. ASSUME UNCHANGED targets,
               \A s \in Transactions : phase'[s] \in {"none", "open", "submitted"} =>
                 /\ phase[s] \in {"none", "open", "submitted"}
                 /\ before_update_hooks_buffers'[s] = before_update_hooks_buffers[s]
                 /\ \A n \in Nodes \ GlobalLoopers : values'[n][s] = values[n][s]
        PROVE  HooksRight'
    <2> SUFFICES ASSUME NEW s \in Transactions, NEW g \in GlobalLoopers,
                        phase'[s] \in {"none", "open", "submitted"}, g \notin targets[s]
                 PROVE  before_update_hooks_buffers'[s][g] = New(s)'[Args[g][1]]
      BY <1>4 DEF HooksRight
    <2>1. Args[g][1] \in Nodes
      BY LooperArg
    <2>2. before_update_hooks_buffers[s][g] = New(s)[Args[g][1]]
      BY <1>4 DEF HooksRight
    <2> QED
      BY <1>4, <2>1, <2>2 DEF New
  <1>5. ASSUME NEW t \in Transactions, Refresh(t)
        PROVE  HooksRight'
    <2>1. UNCHANGED <<phase, targets, before_update_hooks_buffers>> /\ phase[t] = "refreshing"
      BY <1>5 DEF Refresh, updateVars, hookVars
    <2>2. PICK n \in cleanups[t] :
             /\ n \in Nodes
             /\ \A s \in Transactions :
                  cleanups'[s] = IF s = t THEN cleanups[t] \ {n} ELSE cleanups[s]
             /\ \A m \in Nodes \ {n} : values'[m] = values[m]
             /\ \A s \in Transactions :
                  values'[n][s] = IF (n \in Cells /\ s < t) \/ (n \notin Cells /\ s = t)
                                    THEN Absent ELSE values[n][s]
             /\ exited' = FALSE
      BY <1>5, RefreshErases
    <2>3. ASSUME NEW s \in Transactions, phase[s] \in {"none", "open", "submitted"}
          PROVE  s # t /\ ~(s < t)
      BY <2>1, <2>3 DEF ValuesInv, Order, Over
    <2>4. ASSUME NEW s \in Transactions, phase[s] \in {"none", "open", "submitted"},
                 NEW m \in Nodes
          PROVE  values'[m][s] = values[m][s]
      BY <2>2, <2>3, <2>4
    <2> QED
      BY <1>4, <2>1, <2>4
  <1>6. ASSUME NEW t \in Transactions, HandleRegister(t)
        PROVE  HooksRight'
    <2>1. UNCHANGED <<phase, targets, before_update_hooks_buffers>>
      BY <1>6 DEF HandleRegister, updateVars
    <2>2. \A n \in Nodes \ GlobalLoopers : values'[n] = values[n]
      BY <1>6 DEF HandleRegister
    <2> QED
      BY <1>4, <2>1, <2>2
  <1>7. ASSUME NEW t \in Transactions,
               Begin(t) \/ Submit(t) \/ Finalize(t) \/ Done(t) \/ ReleaseHooks(t)
        PROVE  HooksRight'
    <2>1. UNCHANGED <<values, targets>>
      BY <1>7 DEF Begin, Submit, Finalize, Done, ReleaseHooks, updateVars
    <2>2. \A s \in Transactions : phase'[s] \in {"none", "open", "submitted"} =>
                 /\ phase[s] \in {"none", "open", "submitted"}
                 /\ before_update_hooks_buffers'[s] = before_update_hooks_buffers[s]
      BY <1>7 DEF Begin, Submit, Finalize, Done, ReleaseHooks, hookVars, TypeOK
    <2> QED
      BY <1>4, <2>1, <2>2
  <1>8. Rest \/ UNCHANGED vars => HooksRight'
    <2>1. Rest \/ UNCHANGED vars =>
            UNCHANGED <<phase, targets, before_update_hooks_buffers, values>>
      BY DEF Rest, vars, updateVars, hookVars
    <2> QED
      BY <1>4, <2>1
  <1>9. \A t \in Transactions, n \in Nodes : UpdateLooper(t, n) => n \in GlobalLoopers
    BY DEF UpdateLooper
  <1> QED
    BY <1>1, <1>2, <1>3, <1>5, <1>6, <1>7, <1>8, <1>9 DEF Next

\* The end of a transaction, and what cells are before and after it.
LEMMA FinalizeNow ==
    ASSUME TypeOK, ValuesInv, Known, NEW t \in Transactions, Finalize(t)
    PROVE  /\ Cardinality(Finalized) = t /\ Cardinality(Finalized)' = t + 1
           /\ t \in Nat
           /\ Now = Old(t)
           /\ Now' = [n \in Nodes |-> IF n \in Cells \ GlobalLoopers
                                        THEN Meaning!Latest(n, New(t), Old(t)) ELSE Absent]
  <1>1. /\ \A s \in Transactions : phase'[s] = IF s = t THEN "refreshing" ELSE phase[s]
        /\ phase[t] = "submitted" /\ values' = values
        /\ \A s \in 0 .. (t - 1) : phase[s] = "done"
    BY DEF Finalize, TypeOK
  <1>2. PICK k, q \in Nat :
             /\ k <= q /\ q > 0 /\ q <= MaxTransactions
             /\ Finalized = 0 .. (k - 1) /\ registered = 0 .. (q - 1)
             /\ Cardinality(Finalized) = k /\ Cardinality(registered \ Finalized) = q - k
             /\ k > 0 => Max(Finalized) = k - 1
             /\ k > 0 <=> Finalized # {}
             /\ registered \ Finalized = k .. (q - 1)
    BY TransactionsLine
  <1>3. t \in Nat /\ t = k
    <2>1. t \in Nat /\ 0 .. t \subseteq Transactions
      BY TransactionsNat
    <2>2. t \notin Finalized
      BY <1>1 DEF Finalized
    <2>3. 0 .. (t - 1) \subseteq Finalized
      BY <1>1, <2>1 DEF Finalized
    <2>4. ~(t < k)
      BY <1>2, <2>1, <2>2
    <2>5. ~(k < t)
      <3> SUFFICES ASSUME k < t PROVE FALSE
        OBVIOUS
      <3>1. k \in 0 .. (t - 1)
        BY <2>1
      <3>2. k \in 0 .. (k - 1)
        BY <1>2, <2>3, <3>1
      <3> QED
        BY <3>2
    <2> QED
      BY <2>1, <2>4, <2>5
  <1>4. Finalized' = 0 .. t
    <2>1. Finalized' = Finalized \cup {t}
      BY <1>1 DEF Finalized
    <2> QED
      BY <1>2, <1>3, <2>1
  <1>5. Cardinality(Finalized') = t + 1 /\ Max(Finalized') = t
    <2>1. Cardinality(0 .. t) = t + 1
      <3>1. Cardinality(0 .. t) = IF 0 > t THEN 0 ELSE t - 0 + 1
        BY <1>3, FS_Interval
      <3> QED
        BY <1>3, <3>1
    <2>2. Max(0 .. t) = t
      <3> DEFINE m == Max(0 .. t)
      <3>1. m \in 0 .. t /\ \A j \in 0 .. t : j <= m
        <4>1. t \in 0 .. t
          BY <1>3
        <4> QED
          BY <1>3, <4>1, MaxOf
      <3> HIDE DEF m
      <3>2. m = t
        BY <1>3, <3>1
      <3> QED
        BY <3>2 DEF m
    <2> QED
      BY <1>4, <2>1, <2>2
  <1>6. Cardinality(Finalized)' = Cardinality(Finalized')
    OBVIOUS
  <1>7. Now = Old(t)
    <2>1. \A n \in Nodes : Now[n] = Old(t)[n]
      BY <1>2, <1>3 DEF Now, Old
    <2> QED
      BY <2>1 DEF Now, Old
  <1>8. ASSUME NEW n \in Cells \ GlobalLoopers
        PROVE  Now'[n] = Meaning!Latest(n, New(t), Old(t))
    <2>1. t \in Finalized'
      BY <1>3, <1>4
    <2>2. Now'[n] = Sample(n, Max(Finalized))'
      BY <2>1, NodeFacts DEF Now
    <2>3. Sample(n, Max(Finalized))' = Sample(n, t)
      BY <1>1, <1>5 DEF Sample, CellSample, StreamSample
    <2> QED
      BY <2>2, <2>3, NodeFacts, SampleLatest
  <1>9. \A n \in Nodes : n \notin Cells \ GlobalLoopers => Now'[n] = Absent
    BY DEF Now
  <1>10. Now' = [n \in Nodes |-> IF n \in Cells \ GlobalLoopers
                                        THEN Meaning!Latest(n, New(t), Old(t)) ELSE Absent]
    BY <1>8, <1>9 DEF Now
  <1> QED
    BY <1>2, <1>3, <1>5, <1>6, <1>7, <1>10

\* A step that is not the end of a transaction ends none.
LEMMA FinalizedKept ==
    ASSUME TypeOK, ValuesInv, [Next]_vars, \A t \in Transactions : ~Finalize(t)
    PROVE  Finalized' = Finalized
  <1>1. ASSUME NEW t \in Transactions,
               Begin(t) \/ Submit(t) \/ Done(t) \/ ReleaseHooks(t)
        PROVE  Finalized' = Finalized
    BY <1>1 DEF Begin, Submit, Done, ReleaseHooks, Finalized, TypeOK
  <1>2. phase' = phase => Finalized' = Finalized
    BY DEF Finalized
  <1>3. ASSUME NEW t \in Transactions, NEW n \in Nodes, Update(t, n) \/ UpdateLooper(t, n)
        PROVE  phase' = phase
    BY <1>3 DEF Update, UpdateLooper
  <1>4. ASSUME NEW t \in Transactions, NEW n \in Sinks, NEW v \in Sent, Send(t, n, v)
        PROVE  phase' = phase
    BY <1>4 DEF Send
  <1>5. ASSUME NEW t \in Transactions, HandleRegister(t) \/ Refresh(t)
        PROVE  phase' = phase
    BY <1>5 DEF HandleRegister, Refresh
  <1>6. Rest \/ UNCHANGED vars => phase' = phase
    BY DEF Rest, vars
  <1> QED
    BY <1>1, <1>2, <1>3, <1>4, <1>5, <1>6 DEF Next

\* No step breaks LoopersFollow.
LEMMA FollowNext ==
    ASSUME TypeOK, ValuesInv, ClustersInv, Once, Known, NoneLeft', HooksRight, LoopersFollow,
           NEW behind, LoopsClosed(behind), [Next]_vars
    PROVE  LoopersFollow'
  <1> DEFINE src(g) == Args[g][1]
             in == before_update_hooks_buffers
  <1>1. ASSUME NEW t \in Transactions, Finalize(t)
        PROVE  LoopersFollow'
    <2>1. /\ \A s \in Transactions : phase'[s] = IF s = t THEN "refreshing" ELSE phase[s]
          /\ phase[t] = "submitted" /\ targets[t] = {} /\ ExecutorFree
          /\ UNCHANGED <<values, hookVars>>
      BY <1>1 DEF Finalize, TypeOK
    <2>2. ~ExecutorFree' /\ \A s \in Transactions \ {t} : phase'[s] \notin {"refreshing", "woken"}
      BY <2>1 DEF ExecutorFree
    <2>3. ASSUME NEW g \in GlobalLoopers
          PROVE  Now'[src(g)] = IF in[t][g] # Absent THEN in[t][g] ELSE LastHeld(g)
      <3>1. src(g) \in Cells /\ src(g) \in Nodes
        BY LooperArg
      <3>2. in[t][g] = New(t)[src(g)] /\ LastHeld(g) = Old(t)[src(g)]
        BY <1>1, <2>1, FinalizeNow DEF HooksRight, LoopersFollow
      <3>3. Now'[src(g)] = IF src(g) \notin GlobalLoopers
                             THEN Meaning!Latest(src(g), New(t), Old(t)) ELSE Absent
        BY <1>1, <3>1, FinalizeNow
      <3>4. src(g) \in GlobalLoopers => New(t)[src(g)] = Absent /\ Old(t)[src(g)] = Absent
        BY <3>1 DEF New, Old
      <3> HIDE DEF src, in
      <3> QED
        BY <3>2, <3>3, <3>4 DEF Meaning!Latest
    <2>4. \A g \in GlobalLoopers : LastHeld(g)' = LastHeld(g) /\ in' = in
      BY <2>1 DEF LastHeld, CellSample, hookVars
    <2>5. ASSUME NEW g \in GlobalLoopers
          PROVE  /\ ExecutorFree' => LastHeld(g)' = Now'[src(g)]
                 /\ \A s \in Transactions : phase'[s] \in {"refreshing", "woken"} =>
                      Now'[src(g)] = IF in'[s][g] # Absent THEN in'[s][g] ELSE LastHeld(g)'
      BY <2>2, <2>3, <2>4
    <2> QED
      BY <2>5 DEF LoopersFollow
  <1>2. ASSUME \A t \in Transactions : ~Finalize(t)
        PROVE  Now' = Now
    BY <1>2, FinalizedKept, NowKept
  <1>3. ASSUME Now' = Now,
               \A s \in Transactions : phase'[s] \in {"refreshing", "woken"} =>
                 phase[s] \in {"refreshing", "woken"} /\ in'[s] = in[s],
               ExecutorFree' => ExecutorFree,
               \A g \in GlobalLoopers : LastHeld(g)' = LastHeld(g)
        PROVE  LoopersFollow'
    <2>1. ASSUME NEW g \in GlobalLoopers
          PROVE  /\ ExecutorFree' => LastHeld(g)' = Now'[src(g)]
                 /\ \A s \in Transactions : phase'[s] \in {"refreshing", "woken"} =>
                      Now'[src(g)] = IF in'[s][g] # Absent THEN in'[s][g] ELSE LastHeld(g)'
      BY <1>3 DEF LoopersFollow
    <2> QED
      BY <2>1 DEF LoopersFollow
  <1>4. ASSUME UNCHANGED before_update_hooks,
               \A g \in GlobalLoopers, t \in Transactions : values'[g][t] = values[g][t]
        PROVE  \A g \in GlobalLoopers : LastHeld(g)' = LastHeld(g)
    <2>1. ASSUME NEW g \in GlobalLoopers
          PROVE  CellSample(g, MaxTransactions - 1)' = CellSample(g, MaxTransactions - 1)
      <3>1. \A k \in 0 .. (MaxTransactions - 1) : values'[g][k] = values[g][k]
        BY <1>4 DEF Transactions
      <3>2. MaxTransactions - 1 \in Transactions /\ 0 \in 0 .. (MaxTransactions - 1)
        BY GraphTyped DEF Transactions
      <3> QED
        BY <3>1, <3>2, NodeFacts, SampleKept DEF Sample
    <2> QED
      BY <1>4, <2>1 DEF LastHeld
  <1>5. ASSUME NEW t \in Transactions, NEW n \in Nodes, Update(t, n)
        PROVE  LoopersFollow'
    <2>1. UNCHANGED <<phase, hookVars>> /\ n \in targets[t] \ GlobalLoopers
      BY <1>5 DEF Update
    <2>2. Takes(t, n)
      BY <1>5, UpdateTakes
    <2>3. Now' = Now
      <3>1. Finalized' = Finalized
        BY <2>1 DEF Finalized
      <3> QED
        BY <3>1, NowKept
    <2>4. \A g \in GlobalLoopers : LastHeld(g)' = LastHeld(g)
      BY <1>4, <2>1, <2>2, NodeFacts DEF Takes, hookVars
    <2> QED
      BY <1>3, <2>1, <2>3, <2>4 DEF ExecutorFree, hookVars
  <1>6. ASSUME NEW t \in Transactions, NEW n \in Nodes, UpdateLooper(t, n)
        PROVE  LoopersFollow'
    <2>1. UNCHANGED <<phase, values, before_update_hooks>> /\ phase[t] = "submitted"
      BY <1>6 DEF UpdateLooper, MayUpdate
    <2>2. \A s \in Transactions \ {t} : in'[s] = in[s]
      BY <1>6 DEF UpdateLooper, TypeOK
    <2>3. Now' = Now
      <3>1. Finalized' = Finalized
        BY <2>1 DEF Finalized
      <3> QED
        BY <3>1, NowKept
    <2>4. \A g \in GlobalLoopers : LastHeld(g)' = LastHeld(g)
      BY <1>4, <2>1
    <2> QED
      BY <1>3, <2>1, <2>2, <2>3, <2>4 DEF ExecutorFree
  <1>7. ASSUME NEW t \in Transactions, NEW n \in Sinks, NEW v \in Sent, Send(t, n, v)
        PROVE  LoopersFollow'
    <2>1. UNCHANGED <<phase, hookVars>>
      BY <1>7 DEF Send
    <2>2. Now' = Now
      <3>1. Finalized' = Finalized
        BY <2>1 DEF Finalized
      <3> QED
        BY <3>1, NowKept
    <2>3. \A g \in GlobalLoopers, s \in Transactions : values'[g][s] = values[g][s]
      BY <1>7, NodeFacts DEF Send, Store, TypeOK
    <2>4. \A g \in GlobalLoopers : LastHeld(g)' = LastHeld(g)
      BY <1>4, <2>1, <2>3 DEF hookVars
    <2> QED
      BY <1>3, <2>1, <2>2, <2>4 DEF ExecutorFree, hookVars
  <1>8. ASSUME NEW t \in Transactions, Refresh(t)
        PROVE  LoopersFollow'
    <2>1. UNCHANGED <<phase, hookVars>>
      BY <1>8 DEF Refresh
    <2>2. Now' = Now
      <3>1. Finalized' = Finalized
        BY <2>1 DEF Finalized
      <3> QED
        BY <3>1, NowKept
    <2>3. \A g \in GlobalLoopers : values'[g] = values[g]
      <3>1. PICK n \in cleanups[t] :
             /\ n \in Nodes
             /\ \A s \in Transactions :
                  cleanups'[s] = IF s = t THEN cleanups[t] \ {n} ELSE cleanups[s]
             /\ \A m \in Nodes \ {n} : values'[m] = values[m]
             /\ \A s \in Transactions :
                  values'[n][s] = IF (n \in Cells /\ s < t) \/ (n \notin Cells /\ s = t)
                                    THEN Absent ELSE values[n][s]
             /\ exited' = FALSE
        BY <1>8, RefreshErases
      <3>2. n \notin GlobalLoopers
        BY <3>1 DEF Known
      <3> QED
        BY <3>1, <3>2, NodeFacts
    <2>4. \A g \in GlobalLoopers : LastHeld(g)' = LastHeld(g)
      BY <1>4, <2>1, <2>3 DEF hookVars
    <2> QED
      BY <1>3, <2>1, <2>2, <2>4 DEF ExecutorFree, hookVars
  <1>9. ASSUME NEW t \in Transactions, (t # 0 /\ Begin(t)) \/ Submit(t) \/ Done(t)
        PROVE  LoopersFollow'
    <2>1. UNCHANGED <<values, hookVars>>
      BY <1>9 DEF Begin, Submit, Done
    <2>2. \A s \in Transactions :
            phase'[s] \in {"refreshing", "woken"} <=> phase[s] \in {"refreshing", "woken"}
      BY <1>9 DEF Begin, Submit, Done, TypeOK
    <2>3. Now' = Now
      <3>1. Finalized' = Finalized
        BY <1>9 DEF Begin, Submit, Done, Finalized, TypeOK
      <3> QED
        BY <3>1, NowKept
    <2>4. \A g \in GlobalLoopers : LastHeld(g)' = LastHeld(g)
      BY <1>4, <2>1 DEF hookVars
    <2> QED
      BY <1>3, <2>1, <2>2, <2>3, <2>4 DEF ExecutorFree, hookVars
  <1>10. ASSUME NEW t \in Transactions, ReleaseHooks(t)
         PROVE  LoopersFollow'
    <2>1. /\ phase[t] = "woken" /\ values' = values
          /\ \A s \in Transactions : phase'[s] = IF s = t THEN "done" ELSE phase[s]
          /\ \A g \in GlobalLoopers :
               before_update_hooks'[g] = IF in[t][g] # Absent THEN in[t][g]
                                         ELSE before_update_hooks[g]
      BY <1>10 DEF ReleaseHooks, TypeOK
    <2>2. Now' = Now
      <3>1. Finalized' = Finalized
        BY <2>1 DEF Finalized
      <3> QED
        BY <3>1, NowKept
    <2>3. \A s \in Transactions : phase'[s] \notin {"refreshing", "woken"}
      <3> TAKE s \in Transactions
      <3>1. s # t => phase[s] \notin {"refreshing", "woken"}
        <4>1. s \in Nat /\ t \in Nat
          BY TransactionsNat
        <4>2. s # t => s < t \/ t < s
          BY <4>1
        <4> QED
          BY <2>1, <4>2 DEF ValuesInv, Order, Over
      <3> QED
        BY <2>1, <3>1
    <2>4. ASSUME NEW g \in GlobalLoopers PROVE LastHeld(g)' = Now[src(g)]
      <3>1. CellSample(g, MaxTransactions - 1)' = CellSample(g, MaxTransactions - 1)
        BY <2>1 DEF CellSample
      <3>2. Now[src(g)] = IF in[t][g] # Absent THEN in[t][g] ELSE LastHeld(g)
        BY <2>1 DEF LoopersFollow
      <3>3. LastHeld(g)' = IF in[t][g] # Absent THEN in[t][g] ELSE LastHeld(g)
        BY <2>1, <3>1 DEF LastHeld
      <3> QED
        BY <3>2, <3>3
    <2> QED
      BY <2>2, <2>3, <2>4 DEF LoopersFollow
  <1>11. ASSUME NEW t \in Transactions, HandleRegister(t)
         PROVE  LoopersFollow'
    <2>1. /\ UNCHANGED <<phase, before_update_hooks_buffers>>
          /\ \A g \in GlobalLoopers : before_update_hooks'[g] = Absent
          /\ \A g \in GlobalLoopers, s \in Transactions :
               values'[g][s] = IF s = t /\ before_update_hooks[g] # Absent
                                 THEN before_update_hooks[g] ELSE values[g][s]
          /\ t \notin registered
      BY <1>11, NodeFacts DEF HandleRegister, TypeOK, NoHooks
    <2>2. Now' = Now
      <3>1. Finalized' = Finalized
        BY <2>1 DEF Finalized
      <3> QED
        BY <3>1, NowKept
    <2>3. ASSUME NEW g \in GlobalLoopers PROVE LastHeld(g)' = LastHeld(g)
      <3>1. LastHeld(g)' = CellSample(g, MaxTransactions - 1)'
        BY <2>1 DEF LastHeld
      <3> DEFINE last == MaxTransactions - 1
      <3>2. last \in Transactions /\ 0 .. last = Transactions /\ last \in Nat /\ 0 \in 0 .. last
        BY GraphTyped DEF Transactions
      <3>3. CASE before_update_hooks[g] = Absent
        <4>1. \A k \in 0 .. last : values'[g][k] = values[g][k]
          BY <2>1, <3>2, <3>3
        <4>2. Sample(g, last)' = Sample(g, last)
          BY <3>2, <4>1, NodeFacts, SampleKept
        <4> QED
          BY <3>1, <3>3, <4>2, NodeFacts DEF Sample, LastHeld
      <3>4. CASE before_update_hooks[g] # Absent
        <4> DEFINE keys == {k \in 0 .. last : values'[g][k] # Absent}
        <4>1. t \in keys
          BY <2>1, <3>2, <3>4
        <4>2. \A k \in keys : k <= t
          <5> TAKE k \in keys
          <5>1. k = t \/ k \in registered
            BY <2>1, <3>2 DEF ValuesInv, Stored
          <5>2. k = t \/ ~(t < k)
            BY <2>1, <5>1 DEF ValuesInv, Order
          <5> QED
            BY <3>2, <5>2, TransactionsNat
        <4>3. keys \subseteq 0 .. last /\ keys # {}
          BY <4>1
        <4> HIDE DEF keys
        <4>4. Max(keys) \in keys /\ t <= Max(keys)
          BY <3>2, <4>1, <4>3, MaxOf
        <4>5. Max(keys) = t
          <5>1. PICK x \in keys : x = Max(keys)
            BY <4>4
          <5>2. x \in Nat /\ t \in Nat /\ x <= t /\ t <= x
            BY <3>2, <4>2, <4>3, <4>4, <5>1, TransactionsNat
          <5> QED
            BY <5>1, <5>2
        <4>6. CellSample(g, last)' = values'[g][Max(keys)]
          BY <4>3 DEF CellSample, keys
        <4> QED
          BY <2>1, <3>1, <3>4, <4>5, <4>6 DEF LastHeld
      <3> QED
        BY <3>3, <3>4
    <2> QED
      BY <1>3, <2>1, <2>2, <2>3 DEF ExecutorFree
  <1>12. ASSUME UNCHANGED vars PROVE LoopersFollow'
    <2>1. UNCHANGED <<phase, values, hookVars>>
      BY <1>12 DEF vars
    <2>2. Now' = Now
      <3>1. Finalized' = Finalized
        BY <2>1 DEF Finalized
      <3> QED
        BY <3>1, NowKept
    <2>3. \A g \in GlobalLoopers : LastHeld(g)' = LastHeld(g)
      BY <1>4, <2>1 DEF hookVars
    <2> QED
      BY <1>3, <2>1, <2>2, <2>3 DEF ExecutorFree, hookVars
  <1>13. Rest => UNCHANGED vars
    BY DEF Rest
  <1>14. \A t \in Transactions : t > 0 => t # 0
    OBVIOUS
  <1> QED
    BY <1>1, <1>5, <1>6, <1>7, <1>8, <1>9, <1>10, <1>11, <1>12, <1>13, <1>14 DEF Next

-----------------------------------------------------------------------------
(* Every step is one of Sequential, or none.                               *)

\* It all holds in every run.
LEMMA MeaningCorrect ==
    ASSUME NEW behind, LoopsApart(behind), LoopsClosed(behind), GlobalLoopsApart, Sinks # {}
    PROVE  Spec => [](/\ TypeOK /\ ValuesInv /\ ClustersInv /\ OnceInv(behind) /\ NoneLeftInv
                      /\ MeaningInv(behind))
  <1>1. Init => NoneLeftInv /\ MeaningInv(behind)
    BY NoneLeftInit, KnownInit, RunInit, HooksInit DEF MeaningInv
  <1>2. /\ TypeOK /\ ValuesInv /\ ClustersInv /\ OnceInv(behind) /\ NoneLeftInv
        /\ MeaningInv(behind) /\ [Next]_vars /\ TypeOK'
        => NoneLeftInv' /\ MeaningInv(behind)'
    <2> SUFFICES ASSUME TypeOK, ValuesInv, ClustersInv, OnceInv(behind), NoneLeftInv,
                        MeaningInv(behind), [Next]_vars, TypeOK'
                 PROVE  NoneLeftInv' /\ MeaningInv(behind)'
      OBVIOUS
    <2>1. NoneLeftInv'
      BY NoneLeftNext
    <2>2. NoneLeft'
      BY <2>1 DEF NoneLeftInv, NoneLeft
    <2>3. Once /\ Known /\ RunInv(behind) /\ HooksRight /\ LoopersFollow /\ CalledFirst
      BY DEF OnceInv, MeaningInv, RunInv
    <2>4. Known'
      BY <2>3, KnownNext
    <2>5. RunInv(behind)'
      BY <2>2, <2>3, RunNext
    <2>6. HooksRight'
      BY <2>2, <2>3, HooksNext
    <2>7. LoopersFollow'
      BY <2>2, <2>3, FollowNext
    <2> QED
      BY <2>1, <2>4, <2>5, <2>6, <2>7 DEF MeaningInv
  <1> QED
    BY <1>1, <1>2, OnceCorrect, PTL DEF Spec

\* What each transaction that is opened and not over sees in the loopers.
Views == [i \in 1 .. Cardinality(registered \ Finalized) |->
            [g \in GlobalLoopers |-> CellSample(g, Cardinality(Finalized) + i - 1)]]

\* At the end of a transaction every node has what it should take.
LEMMA AllRight ==
    ASSUME TypeOK, ValuesInv, NEW behind, LoopsClosed(behind), RunInv(behind),
           NEW t \in Transactions, Running(t), targets[t] = {}
    PROVE  New(t) = [n \in Nodes |-> Meaning!Taken(n, New(t), Old(t), Inputs(t), View(t))]
  <1> DEFINE taken(n) == Meaning!Taken(n, New(t), Old(t), Inputs(t), View(t))
  <1> SUFFICES ASSUME NEW n \in Nodes
               PROVE  New(t)[n] = taken(n)
    <2>1. New(t) = [n \in Nodes |-> New(t)[n]]
      BY DEF New
    <2> QED
      BY <2>1, Zenon
  <1>1. New(t)[n] = IF n \in GlobalLoopers THEN Absent ELSE values[n][t]
    BY DEF New
  <1>2. CASE n \in DOMAIN Inputs(t)
    <2>1. taken(n) = Inputs(t)[n]
      BY <1>2 DEF Meaning!Taken
    <2>2. n \notin GlobalLoopers /\ values[n][t] = Inputs(t)[n]
      <3>1. CASE t = 0
        <4>1. n \in DOMAIN Initial /\ Inputs(t) = Initial
          BY <1>2, <3>1 DEF Inputs
        <4> QED
          BY <3>1, <4>1, InitialHolds DEF RunInv, CalledFirst, GlobalLoopers
      <3>2. CASE t # 0
        BY <1>2, <3>2, NodeFacts DEF Inputs
      <3> QED
        BY <3>1, <3>2
    <2> QED
      BY <1>1, <2>1, <2>2
  <1>3. CASE n \notin DOMAIN Inputs(t) /\ n \in Sinks \cup GlobalLoopers
    <2>1. taken(n) = Absent
      BY <1>3, MeaningNames DEF Meaning!Taken, Sinks, GlobalLoopers
    <2>2. n \in Sinks => values[n][t] = Absent
      <3>1. CASE t = 0
        BY <1>3, <3>1 DEF Inputs, RunInv, CalledFirst
      <3>2. CASE t # 0
        BY <1>3, <3>2 DEF Inputs
      <3> QED
        BY <3>1, <3>2
    <2> QED
      BY <1>1, <1>3, <2>1, <2>2
  <1>4. CASE n \notin DOMAIN Inputs(t) /\ n \in Nodes \ (Sinks \cup GlobalLoopers)
    <2>1. CASE Called(t, n)
      <3>1. values[n][t] = taken(n)
        BY <1>4, <2>1 DEF Ran, RunInv, RanRight
      <3> QED
        BY <1>1, <1>4, <3>1
    <2>2. CASE ~Called(t, n)
      <3>1. Listened(n) \subseteq Nodes
        BY ArgsFacts
      <3>2. \A m \in Listened(n) : New(t)[m] = Absent
        BY <2>2, <3>1 DEF Called, New
      <3>3. taken(n) = Absent
        BY <1>4, <3>2, TakenUncalled
      <3>4. ~(t = 0 /\ n \in DOMAIN Initial)
        BY <1>4 DEF Inputs
      <3>5. values[n][t] = Absent
        BY <1>4, <2>2, <3>4 DEF RunInv, CalledFirst
      <3> QED
        BY <1>1, <1>4, <3>3, <3>5
    <2> QED
      BY <2>1, <2>2
  <1> QED
    BY <1>2, <1>3, <1>4

\* The end of a transaction is a transaction of Sequential.
LEMMA FinalizeMeans ==
    ASSUME TypeOK, ValuesInv, NEW behind, LoopsApart(behind), LoopsClosed(behind),
           MeaningInv(behind), NEW t \in Transactions, Finalize(t)
    PROVE  Meaning!Next
  <1>1. /\ phase[t] = "submitted" /\ t \in registered /\ targets[t] = {}
        /\ UNCHANGED <<values, registered>>
        /\ heard' = [n \in Nodes |-> IF n \in cleanups[t]
                                 THEN Append(heard[n], <<t, unsafeSample(n, t)>>) ELSE heard[n]]
    BY DEF Finalize
  <1>2. Running(t) /\ Known /\ RunInv(behind)
    BY <1>1 DEF Running, MeaningInv
  <1>3. /\ t \in Nat /\ Cardinality(Finalized) = t /\ Cardinality(Finalized)' = t + 1
        /\ Now = Old(t)
        /\ Now' = [n \in Nodes |-> IF n \in Cells \ GlobalLoopers
                                        THEN Meaning!Latest(n, New(t), Old(t)) ELSE Absent]
    BY <1>2, FinalizeNow
  <1>4. PICK q \in Nat : /\ t < q /\ Cardinality(registered \ Finalized) = q - t
                         /\ (Cardinality(registered \ Finalized))' = q - (t + 1)
    <2>1. PICK k, q \in Nat :
             /\ k <= q /\ q > 0 /\ q <= MaxTransactions
             /\ Finalized = 0 .. (k - 1) /\ registered = 0 .. (q - 1)
             /\ Cardinality(Finalized) = k /\ Cardinality(registered \ Finalized) = q - k
             /\ k > 0 => Max(Finalized) = k - 1
             /\ k > 0 <=> Finalized # {}
             /\ registered \ Finalized = k .. (q - 1)
      BY <1>2, TransactionsLine
    <2>2. t < q /\ k = t
      BY <1>1, <1>3, <2>1
    <2>3. (registered \ Finalized)' = (t + 1) .. (q - 1)
      <3>1. Finalized' = Finalized \cup {t}
        BY <1>1 DEF Finalized, Finalize, TypeOK
      <3> QED
        BY <1>1, <1>3, <2>1, <2>2, <3>1
    <2>4. Cardinality((t + 1) .. (q - 1)) = q - (t + 1)
      <3>1. t + 1 \in Int /\ q - 1 \in Int
        BY <1>3, <2>1
      <3>2. Cardinality((t + 1) .. (q - 1)) = IF t + 1 > q - 1 THEN 0 ELSE (q - 1) - (t + 1) + 1
        BY <3>1, FS_Interval
      <3> QED
        BY <1>3, <2>1, <2>2, <3>2
    <2> QED
      BY <2>1, <2>2, <2>3, <2>4
  <1> DEFINE seen(s) == [g \in GlobalLoopers |-> CellSample(g, s)]
             S == {seen(s) : s \in Nat}
  <1>5. /\ Views = [i \in 1 .. (q - t) |-> seen(t + i - 1)]
        /\ Views' = [i \in 1 .. (q - (t + 1)) |-> seen((t + 1) + i - 1)]
    <2>1. Views = [i \in 1 .. (q - t) |-> [g \in GlobalLoopers |-> CellSample(g, t + i - 1)]]
      BY <1>3, <1>4 DEF Views
    <2>2. Views' = [i \in 1 .. (q - (t + 1)) |->
                      [g \in GlobalLoopers |-> CellSample(g, (t + 1) + i - 1)]]
      <3>1. \A g, s : CellSample(g, s)' = CellSample(g, s)
        BY <1>1 DEF CellSample
      <3>2. Views' = [i \in 1 .. (q - (t + 1)) |->
                       [g \in GlobalLoopers |-> CellSample(g, (t + 1) + i - 1)']]
        BY <1>3, <1>4 DEF Views
      <3> QED
        BY <3>1, <3>2
    <2> QED
      BY <2>1, <2>2
  <1>6. View(t) = seen(t)
    BY DEF View
  <1>7. Head(Views) = View(t) /\ Views' = Tail(Views) /\ Views # <<>>
    <2> HIDE DEF seen
    <2>1. \A i \in 1 .. (q - t) : seen(t + i - 1) \in S
      BY <1>3, <1>4
    <2>2. q - t \in Nat /\ q - t >= 1
      BY <1>3, <1>4
    <2> HIDE DEF S
    <2>3. Views \in Seq(S) /\ Len(Views) = q - t
      BY <1>5, <2>1, <2>2
    <2>4. Head(Views) = seen(t + 1 - 1)
      BY <1>5, <2>2, <2>3
    <2>5. t + 1 - 1 = t
      BY <1>3
    <2>6. Tail(Views) = [i \in 1 .. (q - t - 1) |-> seen(t + (i + 1) - 1)]
      BY <1>3, <1>5, <2>2, <2>3
    <2>7. \A i \in 1 .. (q - t - 1) : t + (i + 1) - 1 = (t + 1) + i - 1
      BY <1>3
    <2>8. q - t - 1 = q - (t + 1)
      BY <1>3, <1>4
    <2> QED
      BY <1>5, <1>6, <2>2, <2>3, <2>4, <2>5, <2>6, <2>7, <2>8
  <1> HIDE DEF seen, S
  <1>8. New(t) = Meaning!Outcome(Inputs(t), View(t))
    <2>1. New(t) = [n \in Nodes |-> Meaning!Taken(n, New(t), Now, Inputs(t), View(t))]
      BY <1>1, <1>2, <1>3, AllRight
    <2> DEFINE f == New(t)
    <2> HIDE DEF f
    <2>2. f = [n \in Nodes |-> Meaning!Taken(n, f, Now, Inputs(t), View(t))]
      BY <2>1 DEF f
    <2>3. Meaning!Outcome(Inputs(t), View(t)) = f
      BY <2>2, OutcomeUnique
    <2> QED
      BY <2>3 DEF f
  <1>9. Now' = [n \in Nodes |-> IF n \in Cells /\ New(t)[n] # Absent THEN New(t)[n] ELSE Now[n]]
    <2>1. ASSUME NEW n \in Nodes
          PROVE  (IF n \in Cells \ GlobalLoopers
                    THEN Meaning!Latest(n, New(t), Old(t)) ELSE Absent)
                   = IF n \in Cells /\ New(t)[n] # Absent THEN New(t)[n] ELSE Now[n]
      BY <1>3 DEF Meaning!Latest, New, Old
    <2> QED
      BY <1>3, <2>1
  <1>10. heard' = [n \in Nodes |-> IF New(t)[n] # Absent
                                   THEN Append(heard[n], <<t, New(t)[n]>>) ELSE heard[n]]
    <2>1. ASSUME NEW n \in Nodes
          PROVE  /\ n \in cleanups[t] <=> New(t)[n] # Absent
                 /\ n \in cleanups[t] => unsafeSample(n, t) = New(t)[n]
      <3>1. CASE n \in GlobalLoopers
        BY <1>2, <3>1 DEF New, Known
      <3>2. CASE n \notin GlobalLoopers
        <4>1. New(t)[n] = values[n][t] /\ (values[n][t] # Absent => Sample(n, t) = values[n][t])
          BY <3>2, SampleLatest
        <4>2. n \in cleanups[t] <=> values[n][t] # Absent
          BY <1>1, <3>2 DEF ValuesInv, Stored, Owed, Over
        <4> QED
          BY <4>1, <4>2 DEF unsafeSample
      <3> QED
        BY <3>1, <3>2
    <2> QED
      BY <1>1, <2>1
  <1>11. PICK inputs : inputs = Inputs(t)
    OBVIOUS
  <1>12. ASSUME t > 0
         PROVE  \E sent \in SUBSET Sinks : inputs \in [sent -> Sent]
    <2> DEFINE sent == {m \in Sinks : values[m][t] # Absent}
    <2>1. inputs = [n \in sent |-> values[n][t]]
      BY <1>3, <1>11, <1>12 DEF Inputs
    <2>2. \A n \in sent : values[n][t] \in Sent
      BY <1>2, <1>12 DEF RunInv, CalledFirst
    <2>3. inputs \in [sent -> Sent]
      BY <2>1, <2>2
    <2>4. sent \in SUBSET Sinks
      OBVIOUS
    <2> HIDE DEF sent
    <2> QED
      BY <2>3, <2>4
  <1>13. Meaning!Transact(inputs)
    <2> DEFINE new == Meaning!Outcome(inputs, Head(Views))
    <2>0. new = New(t)
      BY <1>7, <1>8, <1>11
    <2> HIDE DEF new
    <2>1. /\ Cardinality(Finalized)' = Cardinality(Finalized) + 1
          /\ heard' = [n \in Nodes |-> IF new[n] # Absent
                         THEN Append(heard[n], <<Cardinality(Finalized), new[n]>>) ELSE heard[n]]
          /\ Now' = [n \in Nodes |->
                        IF n \in Meaning!Cells /\ new[n] # Absent
                        THEN new[n] ELSE Now[n]]
          /\ Views' = Tail(Views)
      BY <1>3, <1>7, <1>9, <1>10, <2>0, MeaningNames
    <2> QED
      BY <2>1 DEF Meaning!Transact, Now, Views, new
  <1>14. CASE t = 0
    <2>1. inputs = Initial
      BY <1>11, <1>14 DEF Inputs
    <2>2. Cardinality(Finalized) = 0
      BY <1>3, <1>14
    <2> QED
      BY <1>13, <2>1, <2>2 DEF Meaning!Next
  <1>15. CASE t > 0
    <2>1. Views # <<>> /\ Cardinality(Finalized) > 0
      BY <1>3, <1>7, <1>15
    <2>2. \E sent \in SUBSET Meaning!Sinks : \E ins \in [sent -> Sent] : Meaning!Transact(ins)
      BY <1>12, <1>13, <1>15, MeaningNames
    <2> QED
      BY <2>1, <2>2 DEF Meaning!Next, Views
  <1> QED
    BY <1>3, <1>14, <1>15

\* When the Executor hears of a transaction, it is opened in Sequential.
LEMMA RegisterMeans ==
    ASSUME TypeOK, ValuesInv, ClustersInv, Once, NoneLeft', NEW behind, LoopsClosed(behind),
           MeaningInv(behind), NEW t \in Transactions, t # 0, HandleRegister(t)
    PROVE  Meaning!Next
  <1> USE DEF MeaningInv
  <1>1. /\ UNCHANGED <<phase, heard>> /\ ExecutorFree /\ phase[t] # "none"
        /\ t \notin registered /\ t - 1 \in registered /\ registered' = registered \cup {t}
        /\ \A g \in GlobalLoopers, s \in Transactions :
             values'[g][s] = IF s = t /\ before_update_hooks[g] # Absent
                               THEN before_update_hooks[g] ELSE values[g][s]
    BY NodeFacts DEF HandleRegister, TypeOK
  <1>2. PICK k, q \in Nat :
             /\ k <= q /\ q > 0 /\ q <= MaxTransactions
             /\ Finalized = 0 .. (k - 1) /\ registered = 0 .. (q - 1)
             /\ Cardinality(Finalized) = k /\ Cardinality(registered \ Finalized) = q - k
             /\ k > 0 => Max(Finalized) = k - 1
             /\ k > 0 <=> Finalized # {}
             /\ registered \ Finalized = k .. (q - 1)
    BY TransactionsLine
  <1>3. t = q
    <2>1. t \in Nat
      BY TransactionsNat
    <2>2. t - 1 <= q - 1 /\ ~(t <= q - 1)
      BY <1>1, <1>2, <2>1
    <2> QED
      BY <1>2, <2>1, <2>2
  <1>4. k > 0
    <2>1. phase[0] \in {"woken", "done"}
      BY <1>1 DEF Known
    <2>2. 0 \in Finalized
      BY <2>1, TransactionsNat DEF Finalized
    <2> QED
      BY <1>2, <2>2
  <1>5. Finalized' = Finalized /\ Now' = Now
    <2>1. Finalized' = Finalized
      BY <1>1 DEF Finalized
    <2>2. [Next]_vars
      <3>1. t > 0 /\ ~exited
        BY TransactionsNat DEF ValuesInv, NoFailure
      <3> QED
        BY <3>1 DEF Next
    <2> QED
      BY <2>1, <2>2, NowKept
  <1>6. Cardinality((registered \ Finalized)') = (q - k) + 1
    <2>1. (registered \ Finalized)' = k .. q
      BY <1>1, <1>2, <1>3, <1>5
    <2>2. Cardinality(k .. q) = IF k > q THEN 0 ELSE q - k + 1
      BY FS_Interval
    <2>3. ~(k > q) /\ q - k + 1 = (q - k) + 1
      BY <1>2
    <2>4. Cardinality(k .. q) = (q - k) + 1
      BY <2>2, <2>3
    <2> QED
      BY <2>1, <2>4, Zenon
  <1>7. ASSUME NEW g \in GlobalLoopers
        PROVE  /\ CellSample(g, t)' = Now[Args[g][1]]
               /\ \A s \in 0 .. (q - 1) : CellSample(g, s)' = CellSample(g, s)
    <2>1. LastHeld(g) = Now[Args[g][1]]
      BY <1>1 DEF LoopersFollow
    <2> DEFINE last == MaxTransactions - 1
    <2>2. last \in Nat /\ Transactions = 0 .. last /\ t \in Nat /\ t \in 0 .. last
      BY GraphTyped DEF Transactions
    <2>3. \A s \in Transactions : values[g][s] # Absent => s < t
      BY <1>2, <1>3 DEF ValuesInv, Stored
    <2>4. ASSUME NEW s \in 0 .. (q - 1) PROVE CellSample(g, s)' = CellSample(g, s)
      <3>1. s \in Transactions /\ 0 \in 0 .. s /\ \A j \in 0 .. s : j \in Transactions /\ j # t
        BY <1>2, <1>3, <2>2
      <3>2. \A j \in 0 .. s : values'[g][j] = values[g][j]
        BY <1>1, <3>1
      <3>3. Sample(g, s)' = Sample(g, s)
        BY <3>1, <3>2, NodeFacts, SampleKept
      <3> QED
        BY <3>3, NodeFacts DEF Sample
    <2>5. CASE before_update_hooks[g] # Absent
      <3> DEFINE keys == {j \in 0 .. t : values'[g][j] # Absent}
      <3>1. values'[g][t] = before_update_hooks[g]
        BY <1>1, <2>5
      <3>2. t \in keys /\ keys \subseteq 0 .. t /\ keys # {}
        BY <2>2, <2>5, <3>1
      <3>3. CellSample(g, t)' = values'[g][Max(keys)]
        BY <3>2 DEF CellSample
      <3> HIDE DEF keys
      <3>4. PICK x \in keys : x = Max(keys) /\ t <= x
        BY <2>2, <3>2, MaxOf
      <3>5. x = t
        BY <2>2, <3>2, <3>4
      <3> QED
        BY <2>1, <2>4, <2>5, <3>1, <3>3, <3>4, <3>5 DEF LastHeld
    <2>6. CASE before_update_hooks[g] = Absent
      <3>1. {j \in 0 .. t : values'[g][j] # Absent} = {j \in 0 .. last : values[g][j] # Absent}
        BY <1>1, <2>2, <2>3, <2>6
      <3>2. \A j \in 0 .. last : values'[g][j] = values[g][j]
        BY <1>1, <2>2, <2>6
      <3> DEFINE keys == {j \in 0 .. last : values[g][j] # Absent}
      <3>3. keys # {} => Max(keys) \in 0 .. last
        <4>1. keys \subseteq 0 .. last
          OBVIOUS
        <4> HIDE DEF keys
        <4> QED
          BY <2>2, <4>1, MaxOf
      <3>4. CellSample(g, t)' = IF keys = {} THEN Absent ELSE values'[g][Max(keys)]
        BY <3>1 DEF CellSample
      <3>5. CellSample(g, last) = IF keys = {} THEN Absent ELSE values[g][Max(keys)]
        BY DEF CellSample
      <3> HIDE DEF keys
      <3> QED
        BY <2>1, <2>4, <2>6, <3>2, <3>3, <3>4, <3>5 DEF LastHeld
    <2> QED
      BY <2>5, <2>6
  <1> DEFINE seen(i) == [g \in GlobalLoopers |-> CellSample(g, k + i - 1)]
             S == {seen(i) : i \in Nat}
             new == [g \in GlobalLoopers |-> Now[Args[g][1]]]
  <1>8. Views = [i \in 1 .. (q - k) |-> seen(i)]
    BY <1>2 DEF Views
  <1>9. Views' = [i \in 1 .. ((q - k) + 1) |-> IF i = (q - k) + 1 THEN new ELSE seen(i)]
    <2>1. Views' = [i \in 1 .. ((q - k) + 1) |->
                      [g \in GlobalLoopers |-> CellSample(g, k + i - 1)']]
      <3>1. Cardinality(Finalized') = k
        BY <1>2, <1>5
      <3> QED
        BY <1>6, <3>1 DEF Views
    <2>2. ASSUME NEW i \in 1 .. ((q - k) + 1)
          PROVE  [g \in GlobalLoopers |-> CellSample(g, k + i - 1)'] =
                   IF i = (q - k) + 1 THEN new ELSE seen(i)
      <3>1. CASE i = (q - k) + 1
        <4>1. k + i - 1 = t
          BY <1>2, <1>3, <3>1
        <4> QED
          BY <1>7, <3>1, <4>1
      <3>2. CASE i # (q - k) + 1
        <4>1. k + i - 1 \in 0 .. (q - 1)
          BY <1>2, <3>2
        <4> QED
          BY <1>7, <3>2, <4>1
      <3> QED
        BY <3>1, <3>2
    <2> HIDE DEF seen, new
    <2> QED
      BY <2>1, <2>2
  <1>10. Views' = Append(Views, new)
    <2> HIDE DEF seen, new
    <2>1. q - k \in Nat
      BY <1>2
    <2>2. \A i \in 1 .. (q - k) : seen(i) \in S
      OBVIOUS
    <2> HIDE DEF S
    <2>3. Views \in Seq(S \cup {new}) /\ Len(Views) = q - k
      BY <1>8, <2>1, <2>2
    <2>4. Append(Views, new) = [i \in 1 .. ((q - k) + 1) |->
                                  IF i = (q - k) + 1 THEN new ELSE Views[i]]
      <3> DEFINE longer == Append(Views, new)
      <3>1. longer \in Seq(S \cup {new}) /\ Len(longer) = (q - k) + 1
        BY <2>1, <2>3
      <3>2. \A i \in 1 .. ((q - k) + 1) :
               longer[i] = IF i = (q - k) + 1 THEN new ELSE Views[i]
        BY <2>1, <2>3
      <3> HIDE DEF longer
      <3>3. longer = [i \in 1 .. ((q - k) + 1) |->
                        IF i = (q - k) + 1 THEN new ELSE Views[i]]
        BY <2>1, <3>1, <3>2
      <3> QED
        BY <3>3 DEF longer
    <2>5. \A i \in 1 .. ((q - k) + 1) : i # (q - k) + 1 => Views[i] = seen(i)
      BY <1>8, <2>1
    <2> QED
      BY <1>9, <2>4, <2>5
  <1>11. /\ Cardinality(Finalized) > 0
         /\ Cardinality(Finalized)' = Cardinality(Finalized)
         /\ Views' = Append(Views, [g \in Meaning!GlobalLoopers |-> Now[Args[g][1]]])
    BY <1>2, <1>4, <1>5, <1>10, MeaningNames
  <1> HIDE DEF seen, S, new
  <1> QED
    BY <1>1, <1>5, <1>11 DEF Meaning!Next, Meaning!Open, Now, Views

\* Every other step shows nothing there.
LEMMA OthersMean ==
    ASSUME TypeOK, ValuesInv, ClustersInv, Once, NoneLeft', NEW behind, MeaningInv(behind),
           [Next]_vars, \A t \in Transactions : ~Finalize(t),
           \A t \in Transactions : ~(t # 0 /\ HandleRegister(t))
    PROVE  UNCHANGED <<Cardinality(Finalized), Now, heard, Views>>
  <1>1. Known /\ TypeOK' /\ ValuesInv'
    BY ValuesNext DEF MeaningInv
  <1>2. Finalized' = Finalized
    BY FinalizedKept
  <1>3. Now' = Now
    BY <1>1, <1>2, NowKept
  <1>4. UNCHANGED <<registered, heard>>
    <2>1. \A t \in Transactions : t > 0 => t # 0
      OBVIOUS
    <2>2. ASSUME NEW t \in Transactions,
                 \/ Begin(t) \/ Submit(t) \/ Refresh(t) \/ Done(t) \/ ReleaseHooks(t)
                 \/ (\E n \in Sinks, v \in Sent : Send(t, n, v))
                 \/ (\E n \in Nodes : Update(t, n) \/ UpdateLooper(t, n))
          PROVE  UNCHANGED <<registered, heard>>
      BY <2>2 DEF Begin, Submit, Refresh, Done, ReleaseHooks, Send, Update, UpdateLooper
    <2>3. Rest \/ UNCHANGED vars => UNCHANGED <<registered, heard>>
      BY DEF Rest, vars
    <2> QED
      BY <2>1, <2>2, <2>3 DEF Next
  <1>5. ASSUME NEW g \in GlobalLoopers, NEW s \in registered \ Finalized
        PROVE  CellSample(g, s)' = CellSample(g, s)
    <2>1. s \in Transactions /\ g \in Nodes /\ g \in Cells
      BY NodeFacts DEF TypeOK
    <2>2. Running(s)'
      <3>1. s \in Transactions /\ s \in registered' /\ s \notin Finalized'
        BY <1>2, <1>4, <2>1
      <3>2. phase'[s] # "none" /\ phase'[s] \notin {"refreshing", "woken", "done"}
        BY <1>1, <3>1 DEF Finalized, ValuesInv, Order
      <3>3. phase'[s] \in Phases
        BY <1>1, <2>1 DEF TypeOK
      <3> QED
        BY <3>2, <3>3 DEF Running, Phases
    <2>3. CASE Still
      BY <2>1, <2>2, <2>3 DEF Still
    <2>4. ASSUME \A j \in Transactions : values'[g][j] = values[g][j]
          PROVE  CellSample(g, s)' = CellSample(g, s)
      <3>1. 0 \in 0 .. s /\ \A j \in 0 .. s : j \in Transactions
        BY <2>1, TransactionsNat
      <3>2. \A j \in 0 .. s : values'[g][j] = values[g][j]
        BY <2>4, <3>1
      <3>3. Sample(g, s)' = Sample(g, s)
        BY <2>1, <3>1, <3>2, SampleKept
      <3> QED
        BY <2>1, <3>3 DEF Sample
    <2>5. ASSUME NEW t \in Transactions, NEW n \in targets[t] \ GlobalLoopers, Takes(t, n)
          PROVE  \A j \in Transactions : values'[g][j] = values[g][j]
      BY <2>1, <2>5 DEF Takes
    <2>6. ASSUME NEW t \in Transactions, NEW n \in GlobalLoopers, UpdateLooper(t, n)
          PROVE  \A j \in Transactions : values'[g][j] = values[g][j]
      BY <2>6 DEF UpdateLooper
    <2>7. ASSUME NEW t \in Transactions, NEW n \in Sinks, NEW v \in Sent, Send(t, n, v)
          PROVE  \A j \in Transactions : values'[g][j] = values[g][j]
      <3>1. g # n
        BY <2>1, NodeFacts
      <3> QED
        BY <2>1, <2>7, <3>1, NodeFacts DEF Send, Store, TypeOK
    <2> QED
      BY <1>1, <2>3, <2>4, <2>5, <2>6, <2>7, StepCases
  <1>6. PICK k, q \in Nat :
             /\ k <= q /\ q > 0 /\ q <= MaxTransactions
             /\ Finalized = 0 .. (k - 1) /\ registered = 0 .. (q - 1)
             /\ Cardinality(Finalized) = k /\ Cardinality(registered \ Finalized) = q - k
             /\ k > 0 => Max(Finalized) = k - 1
             /\ k > 0 <=> Finalized # {}
             /\ registered \ Finalized = k .. (q - 1)
    BY <1>1, TransactionsLine
  <1>7. Views' = Views
    <2>1. Cardinality((registered \ Finalized)') = q - k /\ Cardinality(Finalized') = k
      BY <1>2, <1>4, <1>6
    <2>2. Views' = [i \in 1 .. (q - k) |-> [g \in GlobalLoopers |-> CellSample(g, k + i - 1)']]
      BY <2>1 DEF Views
    <2>3. Views = [i \in 1 .. (q - k) |-> [g \in GlobalLoopers |-> CellSample(g, k + i - 1)]]
      BY <1>6 DEF Views
    <2>4. \A i \in 1 .. (q - k) : k + i - 1 \in registered \ Finalized
      BY <1>6
    <2>5. \A i \in 1 .. (q - k) :
             [g \in GlobalLoopers |-> CellSample(g, k + i - 1)'] =
             [g \in GlobalLoopers |-> CellSample(g, k + i - 1)]
      BY <1>5, <2>4
    <2> QED
      BY <2>2, <2>3, <2>5
  <1> QED
    BY <1>2, <1>3, <1>4, <1>7

\* It starts where Sequential does.
LEMMA InitMeans ==
    ASSUME Sinks # {}, Init
    PROVE  Meaning!Init
  <1>1. Finalized = {} /\ Cardinality(Finalized) = 0
    <2>1. Finalized = {}
      BY TransactionsNat DEF Init, Finalized
    <2> QED
      BY <2>1, FS_EmptySet
  <1>2. Cardinality(registered \ Finalized) = 1
    <2>1. registered \ Finalized = {0}
      BY <1>1 DEF Init
    <2> QED
      BY <2>1, FS_Singleton
  <1>3. Now = [n \in Nodes |-> Absent]
    BY <1>1 DEF Now
  <1>4. \A g \in GlobalLoopers : CellSample(g, 0) = Absent
    <2> TAKE g \in GlobalLoopers
    <2>1. g \in Nodes /\ g \notin DOMAIN Initial
      BY InitialHolds, NodeFacts DEF GlobalLoopers
    <2>2. values[g][0] = Absent
      BY <2>1, TransactionsNat DEF Init
    <2>3. {j \in 0 .. 0 : values[g][j] # Absent} = {}
      BY <2>2
    <2> QED
      BY <2>3 DEF CellSample
  <1>5. Views = [i \in 1 .. 1 |-> [g \in GlobalLoopers |-> Absent]]
    <2>1. Views = [i \in 1 .. 1 |-> [g \in GlobalLoopers |-> CellSample(g, 0 + i - 1)]]
      BY <1>1, <1>2 DEF Views
    <2>2. \A i \in 1 .. 1 : 0 + i - 1 = 0
      OBVIOUS
    <2> QED
      BY <1>4, <2>1, <2>2
  <1>6. Views = <<[g \in GlobalLoopers |-> Absent]>>
    BY <1>5
  <1> QED
    BY <1>1, <1>3, <1>6, MeaningNames DEF Meaning!Init, Init, Now, Views

\* However the updates of several transactions overlap, listeners are told, and cells
\* keep, what updating the graph one transaction after the other gives, and a transaction
\* sees in a GlobalCellLoop what was over when it was registered (document.md:152,
\* 186-209 and 223-226).
THEOREM MeaningKept ==
    ASSUME NEW behind, LoopsApart(behind), LoopsClosed(behind), GlobalLoopsApart, Sinks # {}
    PROVE  Spec => Serializable
  <1>1. Init => Meaning!Init
    BY InitMeans
  <1>2. /\ TypeOK /\ ValuesInv /\ ClustersInv /\ OnceInv(behind) /\ MeaningInv(behind)
        /\ NoneLeftInv' /\ [Next]_vars
        => Meaning!Next \/ UNCHANGED <<Cardinality(Finalized), Now, heard, Views>>
    <2> SUFFICES ASSUME TypeOK, ValuesInv, ClustersInv, OnceInv(behind), MeaningInv(behind),
                        NoneLeftInv', [Next]_vars
                 PROVE  \/ Meaning!Next
                        \/ UNCHANGED <<Cardinality(Finalized), Now, heard, Views>>
      OBVIOUS
    <2>1. Once /\ NoneLeft'
      BY DEF OnceInv, NoneLeftInv, NoneLeft
    <2>2. (\E t \in Transactions : Finalize(t)) => Meaning!Next
      BY FinalizeMeans
    <2>3. (\E t \in Transactions : t # 0 /\ HandleRegister(t)) => Meaning!Next
      BY <2>1, RegisterMeans
    <2> QED
      BY <2>1, <2>2, <2>3, OthersMean
  <1>3. /\ TypeOK /\ ValuesInv /\ ClustersInv /\ OnceInv(behind) /\ MeaningInv(behind)
        /\ NoneLeftInv' /\ [Next]_vars
        => [Meaning!Next]_<<Cardinality(Finalized),
                            [n \in Nodes |-> IF n \in Cells \ GlobalLoopers /\ Finalized # {}
                                             THEN Sample(n, Max(Finalized)) ELSE Absent],
                            heard,
                            [i \in 1 .. Cardinality(registered \ Finalized) |->
                               [g \in GlobalLoopers |->
                                  CellSample(g, Cardinality(Finalized) + i - 1)]]>>
    BY <1>2 DEF Now, Views
  <1> QED
    BY <1>1, <1>3, MeaningCorrect, PTL DEF Spec, Serializable, Meaning!Spec

=============================================================================
