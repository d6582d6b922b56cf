------------------------------ MODULE UserProofs ------------------------------
(***************************************************************************)
(* Theorems about UserTransactions, for any number of threads,             *)
(* transactions and nested objects.                                        *)
(***************************************************************************)
EXTENDS UserTransactions, SequenceTheorems, FiniteSetTheorems, TLAPS

Queued(type, t) ==
    \E i \in 1 .. Len(executor_messages) : executor_messages[i] = [type |-> type, id |-> t]

\* A transaction is in the queue for execution at most once.
OneExecute ==
    \A i, j \in 1 .. Len(executor_messages) :
        /\ executor_messages[i] = executor_messages[j]
        /\ executor_messages[i].type = "Execute"
        => i = j

\* The stack of a thread holds its current transaction once, and no other.
ScopesInv ==
    \A u \in Threads :
        /\ \A i \in 1 .. Len(scopes[u]) : scopes[u][i] \in {nullptr, current_transaction[u]}
        /\ \A i, j \in 1 .. Len(scopes[u]) :
             scopes[u][i] # nullptr /\ scopes[u][j] # nullptr => i = j
        /\ current_transaction[u] # nullptr =>
             \E i \in 1 .. Len(scopes[u]) : scopes[u][i] = current_transaction[u]

Closing(u, t) == Waiting(u, t) /\ pc[u].call = "close"

\* The current transaction of a thread is its own, nobody else's to join, and
\* not sent unless the thread closes it.
OwnerInv ==
    \A u \in Threads : \A t \in Transactions :
        current_transaction[u] = t =>
            /\ opener[t] = u
            /\ inner[t] = "alive"
            /\ handler[t] = Nobody
            /\ message[t] = "none" \/ (message[t] = "alive" /\ Closing(u, t))

\* Who waits closes its innermost object or holds the JoinHandler.
WaitInv ==
    \A u \in Threads : \A t \in Transactions :
        Waiting(u, t) =>
            /\ message[t] = "alive"
            /\ Closing(u, t) => scopes[u] # <<>> /\ Innermost(u) = t
            /\ ~Closing(u, t) => handler[t] = u

\* From the creation of a transaction to the end of its message.
LifeInv ==
    \A t \in Transactions :
        /\ t >= next_transaction_id =>
             opener[t] = Nobody /\ inner[t] = "none" /\ message[t] = "none"
        /\ handler[t] # Nobody => message[t] = "alive" /\ inner[t] = "alive"
        /\ message[t] = "none" =>
             ~already_done[t] /\ t \notin transactions /\ ~Queued("Execute", t)
        /\ message[t] # "none" /\ ~already_done[t] => message[t] = "alive" /\ inner[t] = "alive"
        /\ IsOpen(t) => opener[t] \in Threads /\ current_transaction[opener[t]] = t
        /\ message[t] = "alive" => handler[t] # Nobody \/ \E u \in Threads : Closing(u, t)

\* The Executor meets every transaction once.
ExecutorInv ==
    /\ OneExecute
    /\ \A t \in Transactions :
         /\ Queued("Execute", t) => t \notin transactions /\ ~already_done[t]
         /\ t \in transactions /\ already_done[t] =>
              executor \in {In("unlocking", t), In("erasing", t)}
         /\ executor \in {In("listeners", t), In("done", t), In("unlocking", t)} =>
              t \in transactions
         /\ executor = In("unlocking", t) => message[t] = "alive" /\ inner[t] = "alive"

\* The transaction a thread has open is the last it created.
NewestInv ==
    \A s, t \in Transactions : IsOpen(s) /\ opener[t] = opener[s] => t <= s

\* Where an InnerTransaction may be left behind: only what a JoinHandler held.
HandedInv ==
    \A t \in Transactions :
        /\ handler[t] # Nobody => t \in handed
        /\ message[t] = "deleted" /\ t \notin handed => inner[t] = "deleted"

Inv ==
    /\ TypeOK
    /\ ScopesInv
    /\ OwnerInv
    /\ WaitInv
    /\ LifeInv
    /\ ExecutorInv
    /\ NewestInv
    /\ HandedInv

-----------------------------------------------------------------------------
(* Types.                                                                  *)

\* What the assumption says of the constants.
LEMMA Constants ==
    /\ nullptr \notin Transactions
    /\ Nobody \notin Threads
    /\ ExecutorThread \in Threads
    /\ Users \subseteq Threads
    /\ \A t \in Transactions : t \in Nat /\ t < MaxTransactions
  BY UsersAssumption DEF Transactions, nullptr, Threads

\* A waiting thread's pc is a record with a transaction.
LEMMA PcTypes ==
    /\ \A w \in Waits :
         /\ w # Running
         /\ w.id \in Transactions
         /\ w.at \in {"locking", "asleep"}
         /\ w.call \in {"join", "drop", "close"}
         /\ \A at \in {"locking", "asleep"} :
              /\ [w EXCEPT !.at = at] \in Waits
              /\ [w EXCEPT !.at = at] # Running
              /\ [w EXCEPT !.at = at].id = w.id
              /\ [w EXCEPT !.at = at].call = w.call
    /\ \A t \in Transactions, call \in {"join", "drop", "close"} :
         [at |-> "locking", id |-> t, call |-> call] \in Waits
  <1>1. \A w \in Waits : w.at # "running"
    BY DEF Waits
  <1>2. Running.at = "running"
    BY DEF Running
  <1>3. \A w \in Waits : w # Running
    BY <1>1, <1>2
  <1>4. \A w \in Waits, at \in {"locking", "asleep"} :
           /\ [w EXCEPT !.at = at] \in Waits
           /\ [w EXCEPT !.at = at].id = w.id
           /\ [w EXCEPT !.at = at].call = w.call
    BY DEF Waits
  <1> QED
    BY <1>3, <1>4 DEF Waits

\* The Executor is at one place with one transaction at a time.
LEMMA ExecutorTypes ==
    /\ Popping \in ExecutorPcs
    /\ [at |-> "stopped"] \in ExecutorPcs
    /\ \A at, t : /\ In(at, t).at = at
                  /\ In(at, t).id = t
    /\ \A at \in {"listeners", "done", "unlocking", "erasing"}, t \in Transactions :
         In(at, t) \in ExecutorPcs
    /\ \A at \in {"listeners", "done", "unlocking", "erasing"}, t \in Transactions :
         Popping # In(at, t) /\ [at |-> "stopped"] # In(at, t)
    /\ \A e \in ExecutorPcs, at \in {"listeners", "done", "unlocking", "erasing"} :
         e.at = at => e.id \in Transactions /\ e = In(at, e.id)
  <1>1. Popping.at = "popping" /\ [at |-> "stopped"].at = "stopped"
    BY DEF Popping
  <1>2. \A at, t : In(at, t).at = at /\ In(at, t).id = t
    BY DEF In
  <1>3. \A at \in {"listeners", "done", "unlocking", "erasing"}, t \in Transactions :
           Popping # In(at, t) /\ [at |-> "stopped"] # In(at, t)
    BY <1>1, <1>2
  <1>4. \A e \in ExecutorPcs, at \in {"listeners", "done", "unlocking", "erasing"} :
           e.at = at => e.id \in Transactions /\ e = In(at, e.id)
    BY DEF ExecutorPcs, In
  <1> QED
    BY <1>2, <1>3, <1>4 DEF ExecutorPcs, Popping, In

-----------------------------------------------------------------------------
(* The Executor's queue.                                                   *)

\* What is behind a push is queued, and nothing else than before.
LEMMA Pushed ==
    ASSUME executor_messages \in Seq(MessageType), NEW m \in MessageType,
           executor_messages' = Append(executor_messages, m)
    PROVE  /\ executor_messages' \in Seq(MessageType)
           /\ \A type, t : Queued(type, t)' <=> (Queued(type, t) \/ m = [type |-> type, id |-> t])
           /\ OneExecute /\ (m.type = "Execute" => ~Queued("Execute", m.id)) => OneExecute'
  <1> DEFINE q == executor_messages
  <1>1. /\ Append(q, m) \in Seq(MessageType)
        /\ Len(Append(q, m)) = Len(q) + 1
        /\ \A i \in 1 .. Len(q) : Append(q, m)[i] = q[i]
        /\ Append(q, m)[Len(q) + 1] = m
    BY AppendProperties
  <1>2. Len(q) \in Nat
    BY LenProperties
  <1>3. \A type, t : Queued(type, t)' <=> (Queued(type, t) \/ m = [type |-> type, id |-> t])
    BY <1>1, <1>2 DEF Queued
  <1>4. ASSUME OneExecute, m.type = "Execute" => ~Queued("Execute", m.id)
        PROVE  OneExecute'
    <2>1. \A i \in 1 .. Len(q) : q[i] = m => m.type # "Execute"
      <3> SUFFICES ASSUME NEW i \in 1 .. Len(q), q[i] = m, m.type = "Execute" PROVE FALSE
        OBVIOUS
      <3>1. m = [type |-> "Execute", id |-> m.id]
        BY DEF MessageType
      <3> QED
        BY <3>1, <1>4 DEF Queued
    <2> QED
      BY <1>1, <1>2, <1>4, <2>1 DEF OneExecute
  <1> QED
    BY <1>1, <1>3, <1>4

\* What is popped was queued; an Execute message is not queued again.
LEMMA Popped ==
    ASSUME executor_messages \in Seq(MessageType), executor_messages # <<>>,
           NEW m, m = Head(executor_messages),
           executor_messages' = Tail(executor_messages)
    PROVE  /\ executor_messages' \in Seq(MessageType)
           /\ m \in MessageType
           /\ Queued(m.type, m.id)
           /\ \A type, t : Queued(type, t)' => Queued(type, t)
           /\ OneExecute => OneExecute'
           /\ OneExecute /\ m.type = "Execute" => ~Queued("Execute", m.id)'
  <1> DEFINE q == executor_messages
  <1>1. /\ m \in MessageType
        /\ Tail(q) \in Seq(MessageType)
        /\ Len(Tail(q)) = Len(q) - 1
        /\ \A i \in 1 .. Len(Tail(q)) : Tail(q)[i] = q[i + 1]
    BY HeadTailProperties
  <1>2. Len(q) \in Nat \ {0} /\ m = q[1]
    BY EmptySeq
  <1>3. m = [type |-> m.type, id |-> m.id]
    BY <1>1 DEF MessageType
  <1>4. Queued(m.type, m.id)
    BY <1>2, <1>3 DEF Queued
  <1>5. \A type, t : Queued(type, t)' => Queued(type, t)
    BY <1>1, <1>2 DEF Queued
  <1>6. OneExecute => OneExecute'
    <2> SUFFICES ASSUME OneExecute,
                        NEW i \in 1 .. Len(Tail(q)), NEW j \in 1 .. Len(Tail(q)),
                        Tail(q)[i] = Tail(q)[j], Tail(q)[i].type = "Execute"
                 PROVE  i = j
      BY DEF OneExecute
    <2>1. i + 1 \in 1 .. Len(q) /\ j + 1 \in 1 .. Len(q)
      BY <1>1, <1>2
    <2>2. i + 1 = j + 1
      BY <1>1, <2>1 DEF OneExecute
    <2> QED
      BY <2>2
  <1>7. ASSUME OneExecute, m.type = "Execute", Queued("Execute", m.id)'
        PROVE  FALSE
    <2>1. PICK i \in 1 .. Len(Tail(q)) : Tail(q)[i] = [type |-> "Execute", id |-> m.id]
      BY <1>7 DEF Queued
    <2>2. i + 1 \in 1 .. Len(q) /\ 1 \in 1 .. Len(q) /\ q[i + 1] = q[1] /\ q[1].type = "Execute"
      BY <1>1, <1>2, <1>3, <1>7, <2>1
    <2>3. i + 1 = 1
      BY <2>2, <1>7 DEF OneExecute
    <2> QED
      BY <2>3
  <1> QED
    BY <1>1, <1>4, <1>5, <1>6, <1>7

-----------------------------------------------------------------------------
(* What steps have in common.                                              *)

\* Whoever waited still does, for the same transaction, and nobody else.
SameWaits ==
    \A u \in Threads, t \in Transactions :
        /\ Waiting(u, t)' <=> Waiting(u, t)
        /\ Closing(u, t)' <=> Closing(u, t)

\* Who waits does not change with the rest of the state.
LEMMA SamePc == pc' = pc => SameWaits
  BY DEF SameWaits, Waiting, Closing

\* Every part of the invariant stays with the variables it speaks of.
LEMMA Frames ==
    /\ ScopesInv /\ UNCHANGED <<scopes, current_transaction>> => ScopesInv'
    /\ OwnerInv /\ SameWaits
         /\ UNCHANGED <<current_transaction, opener, inner, handler, message>> => OwnerInv'
    /\ WaitInv /\ SameWaits /\ UNCHANGED <<message, scopes, handler>> => WaitInv'
    /\ LifeInv /\ SameWaits
         /\ UNCHANGED <<next_transaction_id, opener, inner, message, handler, already_done,
                        transactions, executor_messages, current_transaction>> => LifeInv'
    /\ ExecutorInv
         /\ UNCHANGED <<executor_messages, transactions, already_done, executor, message,
                        inner>> => ExecutorInv'
    /\ NewestInv /\ UNCHANGED <<inner, message, opener>> => NewestInv'
    /\ HandedInv /\ UNCHANGED <<handed, handler, inner, message>> => HandedInv'
  <1>1. ScopesInv /\ UNCHANGED <<scopes, current_transaction>> => ScopesInv'
    BY DEF ScopesInv
  <1>2. OwnerInv /\ SameWaits
          /\ UNCHANGED <<current_transaction, opener, inner, handler, message>> => OwnerInv'
    BY DEF OwnerInv, SameWaits
  <1>3. WaitInv /\ SameWaits /\ UNCHANGED <<message, scopes, handler>> => WaitInv'
    BY DEF WaitInv, SameWaits, Innermost
  <1>4. LifeInv /\ SameWaits
          /\ UNCHANGED <<next_transaction_id, opener, inner, message, handler, already_done,
                         transactions, executor_messages, current_transaction>> => LifeInv'
    BY DEF LifeInv, SameWaits, Queued, IsOpen
  <1>5. ExecutorInv
          /\ UNCHANGED <<executor_messages, transactions, already_done, executor, message,
                         inner>> => ExecutorInv'
    BY DEF ExecutorInv, Queued, OneExecute
  <1>6. NewestInv /\ UNCHANGED <<inner, message, opener>> => NewestInv'
    BY DEF NewestInv, IsOpen
  <1>7. HandedInv /\ UNCHANGED <<handed, handler, inner, message>> => HandedInv'
    BY DEF HandedInv
  <1> QED
    BY <1>1, <1>2, <1>3, <1>4, <1>5, <1>6, <1>7

\* Two threads have no transaction in common, neither as the current one nor to
\* wait for; who closes one has it as its current one.
LEMMA Owners ==
    ASSUME Inv, NEW u \in Threads, NEW t \in Transactions
    PROVE  /\ Closing(u, t) => current_transaction[u] = t
           /\ \A v \in Threads :
                current_transaction[u] = t /\ current_transaction[v] = t => u = v
           /\ \A v \in Threads : Waiting(u, t) /\ Waiting(v, t) => u = v
           /\ \A s \in Transactions : Waiting(u, t) /\ Waiting(u, s) => s = t
           /\ pc[u] = Running => ~Waiting(u, t)
           /\ pc[u] # Running => pc[u] \in Waits /\ Waiting(u, pc[u].id)
  <1>1. \A v \in Threads : Closing(v, t) => current_transaction[v] = t
    <2> SUFFICES ASSUME NEW v \in Threads, Closing(v, t) PROVE current_transaction[v] = t
      OBVIOUS
    <2>1. scopes[v] \in Seq(Transactions \cup {nullptr}) /\ scopes[v] # <<>>
            /\ scopes[v][Len(scopes[v])] = t
      BY DEF Inv, TypeOK, WaitInv, Closing, Innermost
    <2>2. Len(scopes[v]) \in 1 .. Len(scopes[v])
      BY <2>1, EmptySeq
    <2> QED
      BY <2>1, <2>2, Constants DEF Inv, ScopesInv
  <1>2. \A v \in Threads : current_transaction[v] = t => opener[t] = v /\ handler[t] = Nobody
    BY DEF Inv, OwnerInv
  <1>3. \A v \in Threads : Waiting(v, t) /\ ~Closing(v, t) => handler[t] = v /\ v # Nobody
    BY Constants DEF Inv, WaitInv
  <1>4. \A v \in Threads : Waiting(u, t) /\ Waiting(v, t) => u = v
    BY <1>1, <1>2, <1>3
  <1>5. pc[u] # Running => pc[u] \in Waits /\ Waiting(u, pc[u].id)
    BY DEF Inv, TypeOK, Waiting
  <1> QED
    BY <1>1, <1>2, <1>4, <1>5 DEF Waiting

-----------------------------------------------------------------------------
(* The program's steps.                                                    *)

\* An object without a transaction on top of a stack changes nobody's transaction.
LEMMA OpenNestedKeeps ==
    ASSUME Inv, NEW u \in Threads, OpenNested(u)
    PROVE  Inv'
  <1> USE DEF OpenNested, userVars, heapVars
  <1>1. /\ scopes[u] \in Seq(Transactions \cup {nullptr})
        /\ nullptr \in Transactions \cup {nullptr}
        /\ scopes \in [Threads -> Seq(Transactions \cup {nullptr})]
    BY DEF Inv, TypeOK
  <1>2. /\ scopes'[u] \in Seq(Transactions \cup {nullptr})
        /\ Len(scopes'[u]) = Len(scopes[u]) + 1
        /\ \A i \in 1 .. Len(scopes[u]) : scopes'[u][i] = scopes[u][i]
        /\ scopes'[u][Len(scopes[u]) + 1] = nullptr
        /\ Len(scopes[u]) \in Nat
    BY <1>1, AppendProperties, LenProperties
  <1>3. TypeOK'
    BY <1>1, <1>2 DEF Inv, TypeOK
  <1>4. ScopesInv'
    <2> SUFFICES ASSUME NEW v \in Threads
                 PROVE  /\ \A i \in 1 .. Len(scopes'[v]) :
                              scopes'[v][i] \in {nullptr, current_transaction[v]}
                        /\ \A i, j \in 1 .. Len(scopes'[v]) :
                              scopes'[v][i] # nullptr /\ scopes'[v][j] # nullptr => i = j
                        /\ current_transaction[v] # nullptr =>
                              \E i \in 1 .. Len(scopes'[v]) :
                                 scopes'[v][i] = current_transaction[v]
      BY DEF ScopesInv
    <2>1. CASE v # u
      BY <2>1, <1>1 DEF Inv, ScopesInv
    <2>2. CASE v = u
      BY <2>2, <1>2 DEF Inv, ScopesInv
    <2> QED
      BY <2>1, <2>2
  <1>5. WaitInv'
    <2>1. \A t \in Transactions : ~Waiting(u, t)
      BY Owners DEF Runs
    <2>2. \A v \in Threads : v # u => scopes'[v] = scopes[v]
      BY <1>1
    <2> QED
      BY <2>1, <2>2 DEF Inv, WaitInv, Waiting, Closing, Innermost
  <1> QED
    BY <1>3, <1>4, <1>5, Frames, SamePc DEF Inv

\* What is announced is no Execute message.
LEMMA AnnouncedOnly ==
    ASSUME executor_messages \in Seq(MessageType), NEW m \in MessageType, m.type # "Execute",
           executor_messages' = Append(executor_messages, m)
    PROVE  /\ executor_messages' \in Seq(MessageType)
           /\ \A t : Queued("Execute", t)' <=> Queued("Execute", t)
           /\ OneExecute => OneExecute'
  <1>1. \A t : m # [type |-> "Execute", id |-> t]
    OBVIOUS
  <1> QED
    BY <1>1, Pushed

\* The new transaction is newer than all others and its thread had none open.
LEMMA OpenKeeps ==
    ASSUME Inv, NEW u \in Threads, Open(u)
    PROVE  Inv'
  <1> DEFINE t == next_transaction_id
             m == [type |-> "Register", id |-> t]
  <1> USE DEF Open, userVars, heapVars
  <1>1. /\ t \in Transactions
        /\ t + 1 \in 0 .. MaxTransactions
        /\ current_transaction[u] = nullptr
        /\ \A v \in Transactions : ~Waiting(u, v)
        /\ u # Nobody
    <2>1. t \in Transactions /\ t + 1 \in 0 .. MaxTransactions
      BY UsersAssumption DEF Inv, TypeOK, Transactions
    <2>2. pc[u] = Running /\ current_transaction[u] = nullptr
      BY DEF Runs, Nests
    <2> QED
      BY <2>1, <2>2, Constants, Owners
  <1>2. /\ opener[t] = Nobody /\ inner[t] = "none" /\ message[t] = "none"
        /\ handler[t] = Nobody
        /\ ~already_done[t] /\ t \notin transactions /\ ~Queued("Execute", t)
    BY <1>1, Constants DEF Inv, LifeInv
  <1>3. /\ scopes[u] \in Seq(Transactions \cup {nullptr})
        /\ scopes \in [Threads -> Seq(Transactions \cup {nullptr})]
        /\ opener \in [Transactions -> Threads \cup {Nobody}]
        /\ current_transaction \in [Threads -> Transactions \cup {nullptr}]
        /\ inner \in [Transactions -> Memory]
        /\ message \in [Transactions -> Memory]
        /\ executor_messages \in Seq(MessageType)
    BY DEF Inv, TypeOK
  <1>4. /\ scopes'[u] \in Seq(Transactions \cup {nullptr})
        /\ Len(scopes'[u]) = Len(scopes[u]) + 1
        /\ \A i \in 1 .. Len(scopes[u]) : scopes'[u][i] = scopes[u][i]
        /\ scopes'[u][Len(scopes[u]) + 1] = t
        /\ Len(scopes[u]) \in Nat
    BY <1>1, <1>3, AppendProperties, LenProperties
  <1>5. /\ executor_messages' \in Seq(MessageType)
        /\ \A s : Queued("Execute", s)' <=> Queued("Execute", s)
        /\ OneExecute => OneExecute'
    <2>1. m \in MessageType /\ m.type # "Execute"
      BY <1>1 DEF MessageType
    <2> QED
      BY <2>1, <1>3, AnnouncedOnly
  <1>6. TypeOK'
    BY <1>1, <1>3, <1>4, <1>5 DEF Inv, TypeOK, Memory
  <1>7. ScopesInv'
    <2> SUFFICES ASSUME NEW v \in Threads
                 PROVE  /\ \A i \in 1 .. Len(scopes'[v]) :
                              scopes'[v][i] \in {nullptr, current_transaction'[v]}
                        /\ \A i, j \in 1 .. Len(scopes'[v]) :
                              scopes'[v][i] # nullptr /\ scopes'[v][j] # nullptr => i = j
                        /\ current_transaction'[v] # nullptr =>
                              \E i \in 1 .. Len(scopes'[v]) :
                                 scopes'[v][i] = current_transaction'[v]
      BY DEF ScopesInv
    <2>1. CASE v # u
      BY <2>1, <1>3 DEF Inv, ScopesInv
    <2>2. CASE v = u
      <3>1. \A i \in 1 .. Len(scopes[u]) : scopes[u][i] = nullptr
        BY <1>1 DEF Inv, ScopesInv
      <3>2. current_transaction'[u] = t
        BY <1>3
      <3>3. \A i \in 1 .. Len(scopes'[u]) :
               scopes'[u][i] = IF i = Len(scopes[u]) + 1 THEN t ELSE nullptr
        BY <3>1, <1>4
      <3>4. Len(scopes[u]) + 1 \in 1 .. Len(scopes'[u])
        BY <1>4
      <3> QED
        BY <2>2, <3>2, <3>3, <3>4
    <2> QED
      BY <2>1, <2>2
  <1>8. SameWaits
    BY SamePc
  <1>9. OwnerInv'
    BY <1>1, <1>2, <1>3, <1>8, Constants DEF Inv, OwnerInv, SameWaits
  <1>10. WaitInv'
    <2>1. \A v \in Threads : v # u => scopes'[v] = scopes[v]
      BY <1>3
    <2> QED
      BY <2>1, <1>1, <1>8 DEF Inv, WaitInv, SameWaits, Innermost
  <1>11. LifeInv'
    <2> SUFFICES ASSUME NEW s \in Transactions
                 PROVE  /\ s >= t + 1 =>
                              opener'[s] = Nobody /\ inner'[s] = "none" /\ message[s] = "none"
                        /\ handler[s] # Nobody => message[s] = "alive" /\ inner'[s] = "alive"
                        /\ message[s] = "none" =>
                              ~already_done[s] /\ s \notin transactions /\ ~Queued("Execute", s)
                        /\ message[s] # "none" /\ ~already_done[s] =>
                              message[s] = "alive" /\ inner'[s] = "alive"
                        /\ inner'[s] = "alive" /\ message[s] = "none" =>
                              /\ opener'[s] \in Threads
                              /\ current_transaction'[opener'[s]] = s
                        /\ message[s] = "alive" =>
                              handler[s] # Nobody \/ \E v \in Threads : Closing(v, s)
      BY <1>5, <1>8 DEF LifeInv, IsOpen, SameWaits
    <2>1. CASE s = t
      <3>1. inner'[t] = "alive" /\ opener'[t] = u /\ current_transaction'[u] = t
        BY <1>1, <1>3
      <3>2. ~(t >= t + 1)
        BY <1>1, Constants
      <3> QED
        BY <2>1, <3>1, <3>2, <1>2
    <2>2. CASE s # t
      <3>1. opener'[s] = opener[s] /\ inner'[s] = inner[s]
        BY <2>2, <1>3
      <3>2. s >= t + 1 => s >= t
        BY <1>1, Constants
      <3>3. inner[s] = "alive" /\ message[s] = "none" => opener[s] # u
        BY <1>1, Constants DEF Inv, LifeInv, IsOpen
      <3>4. \A v \in Threads : v # u => current_transaction'[v] = current_transaction[v]
        BY <1>3
      <3> QED
        BY <3>1, <3>2, <3>3, <3>4 DEF Inv, LifeInv, IsOpen
    <2> QED
      BY <2>1, <2>2
  <1>12. ExecutorInv'
    BY <1>2, <1>3, <1>5 DEF Inv, ExecutorInv
  <1>13. NewestInv'
    <2> SUFFICES ASSUME NEW s \in Transactions, NEW r \in Transactions,
                        inner'[s] = "alive", message[s] = "none", opener'[r] = opener'[s]
                 PROVE  r <= s
      BY DEF NewestInv, IsOpen
    <2>1. CASE s = t
      <3>1. r # t => opener[r] = u
        BY <2>1, <1>1, <1>3
      <3>2. opener[r] = u => ~(r >= t)
        BY <1>1 DEF Inv, LifeInv
      <3> QED
        BY <2>1, <3>1, <3>2, <1>1, Constants
    <2>2. CASE s # t
      <3>1. inner[s] = "alive" /\ opener'[s] = opener[s]
        BY <2>2, <1>3
      <3>2. opener[s] # u
        BY <3>1, <1>1, Constants DEF Inv, LifeInv, IsOpen
      <3>3. r # t /\ opener'[r] = opener[r]
        BY <3>1, <3>2, <1>1, <1>3
      <3> QED
        BY <3>1, <3>3 DEF Inv, NewestInv, IsOpen
    <2> QED
      BY <2>1, <2>2
  <1>14. HandedInv'
    BY <1>2, <1>3 DEF Inv, HandedInv
  <1> QED
    BY <1>6, <1>7, <1>9, <1>10, <1>11, <1>12, <1>13, <1>14 DEF Inv

\* A stack without its last element, which is what a thread closes.
LEMMA Shorter ==
    ASSUME Inv, NEW u \in Threads, scopes[u] # <<>>,
           scopes' = [scopes EXCEPT ![u] = SubSeq(@, 1, Len(@) - 1)]
    PROVE  /\ scopes' \in [Threads -> Seq(Transactions \cup {nullptr})]
           /\ Len(scopes[u]) \in Nat \ {0}
           /\ Len(scopes'[u]) = Len(scopes[u]) - 1
           /\ \A i \in 1 .. Len(scopes'[u]) : scopes'[u][i] = scopes[u][i]
           /\ \A v \in Threads : v # u => scopes'[v] = scopes[v]
  <1>1. /\ scopes[u] \in Seq(Transactions \cup {nullptr})
        /\ scopes \in [Threads -> Seq(Transactions \cup {nullptr})]
    BY DEF Inv, TypeOK
  <1>2. Len(scopes[u]) \in Nat \ {0}
    BY <1>1, EmptySeq
  <1>3. \A i \in 1 .. (Len(scopes[u]) - 1) : scopes[u][i] \in Transactions \cup {nullptr}
    BY <1>1, <1>2, ElementOfSeq
  <1> DEFINE n == Len(scopes[u]) - 1
  <1>4. 1 \in Int /\ n \in Int
    BY <1>2
  <1>5. /\ SubSeq(scopes[u], 1, n) \in Seq(Transactions \cup {nullptr})
        /\ Len(SubSeq(scopes[u], 1, n)) = IF 1 <= n THEN n - 1 + 1 ELSE 0
        /\ \A i \in 1 .. n - 1 + 1 : SubSeq(scopes[u], 1, n)[i] = scopes[u][1 + i - 1]
    BY <1>3, <1>4, SubSeqProperties
  <1>6. scopes'[u] = SubSeq(scopes[u], 1, n) /\ (\A v \in Threads : v # u => scopes'[v] = scopes[v])
    BY <1>1
  <1>7. scopes' \in [Threads -> Seq(Transactions \cup {nullptr})]
    BY <1>1, <1>5
  <1>8. Len(SubSeq(scopes[u], 1, n)) = n /\ n - 1 + 1 = n
    BY <1>2, <1>5
  <1>9. \A i \in 1 .. n : SubSeq(scopes[u], 1, n)[i] = scopes[u][i]
    BY <1>2, <1>5
  <1> QED
    BY <1>2, <1>6, <1>7, <1>8, <1>9

\* The object that goes stands for no transaction.
LEMMA CloseNestedKeeps ==
    ASSUME Inv, NEW u \in Threads, CloseNested(u)
    PROVE  Inv'
  <1> USE DEF CloseNested, userVars, heapVars
  <1>1. /\ scopes' \in [Threads -> Seq(Transactions \cup {nullptr})]
        /\ Len(scopes[u]) \in Nat \ {0}
        /\ Len(scopes'[u]) = Len(scopes[u]) - 1
        /\ \A i \in 1 .. Len(scopes'[u]) : scopes'[u][i] = scopes[u][i]
        /\ \A v \in Threads : v # u => scopes'[v] = scopes[v]
    BY Shorter
  <1>2. TypeOK'
    BY <1>1 DEF Inv, TypeOK
  <1>3. ScopesInv'
    <2> SUFFICES ASSUME NEW v \in Threads
                 PROVE  /\ \A i \in 1 .. Len(scopes'[v]) :
                              scopes'[v][i] \in {nullptr, current_transaction[v]}
                        /\ \A i, j \in 1 .. Len(scopes'[v]) :
                              scopes'[v][i] # nullptr /\ scopes'[v][j] # nullptr => i = j
                        /\ current_transaction[v] # nullptr =>
                              \E i \in 1 .. Len(scopes'[v]) :
                                 scopes'[v][i] = current_transaction[v]
      BY DEF ScopesInv
    <2>1. CASE v # u
      BY <2>1, <1>1 DEF Inv, ScopesInv
    <2>2. CASE v = u
      <3>1. ASSUME current_transaction[u] # nullptr
            PROVE  \E i \in 1 .. Len(scopes'[u]) : scopes'[u][i] = current_transaction[u]
        <4>1. PICK i \in 1 .. Len(scopes[u]) : scopes[u][i] = current_transaction[u]
          BY <3>1 DEF Inv, ScopesInv
        <4>2. i # Len(scopes[u])
          BY <4>1, <3>1 DEF Innermost
        <4> QED
          BY <4>1, <4>2, <1>1
      <3> QED
        BY <2>2, <3>1, <1>1 DEF Inv, ScopesInv
    <2> QED
      BY <2>1, <2>2
  <1>4. WaitInv'
    <2>1. \A t \in Transactions : ~Waiting(u, t)
      BY Owners DEF Runs
    <2> QED
      BY <2>1, <1>1 DEF Inv, WaitInv, Waiting, Closing, Innermost
  <1> QED
    BY <1>2, <1>3, <1>4, Frames, SamePc DEF Inv

\* An open transaction is sent.
LEMMA Submitted ==
    ASSUME Inv, NEW t \in Transactions, IsOpen(t), Submit(t),
           UNCHANGED <<inner, already_done, transactions, executor>>
    PROVE  /\ message' \in [Transactions -> Memory]
           /\ message'[t] = "alive"
           /\ \A s \in Transactions : s # t => message'[s] = message[s]
           /\ executor_messages' \in Seq(MessageType)
           /\ \A s : Queued("Execute", s)' <=> Queued("Execute", s) \/ s = t
           /\ ExecutorInv'
           /\ opener' = opener => NewestInv'
  <1> DEFINE m == [type |-> "Execute", id |-> t]
  <1>1. /\ message \in [Transactions -> Memory]
        /\ executor_messages \in Seq(MessageType)
    BY DEF Inv, TypeOK
  <1>2. /\ message' \in [Transactions -> Memory]
        /\ message'[t] = "alive"
        /\ \A s \in Transactions : s # t => message'[s] = message[s]
    BY <1>1 DEF Submit, Memory
  <1>3. /\ ~already_done[t] /\ t \notin transactions /\ ~Queued("Execute", t)
        /\ message[t] = "none" /\ inner[t] = "alive"
    BY DEF IsOpen, Inv, LifeInv
  <1>4. m \in MessageType /\ m.type = "Execute" /\ m.id = t
    BY DEF MessageType
  <1>5. /\ executor_messages' \in Seq(MessageType)
        /\ \A type, s : Queued(type, s)' <=> (Queued(type, s) \/ m = [type |-> type, id |-> s])
        /\ OneExecute'
    BY <1>1, <1>3, <1>4, Pushed DEF Submit, Inv, ExecutorInv
  <1>6. \A s : Queued("Execute", s)' <=> Queued("Execute", s) \/ s = t
    BY <1>5
  <1>7. ExecutorInv'
    BY <1>2, <1>3, <1>5, <1>6 DEF Inv, ExecutorInv
  <1>8. opener' = opener => NewestInv'
    BY <1>2 DEF Inv, NewestInv, IsOpen
  <1> QED
    BY <1>2, <1>5, <1>6, <1>7, <1>8

\* A thread that runs has not sent its current transaction.
LEMMA CurrentOpen ==
    ASSUME Inv, NEW u \in Threads, Runs(u), NEW i \in 1 .. Len(scopes[u]),
           scopes[u][i] # nullptr
    PROVE  /\ scopes[u][i] = current_transaction[u]
           /\ scopes[u][i] \in Transactions
           /\ IsOpen(scopes[u][i])
           /\ handler[scopes[u][i]] = Nobody
  <1>1. scopes[u] \in Seq(Transactions \cup {nullptr})
    BY DEF Inv, TypeOK
  <1>2. scopes[u][i] = current_transaction[u] /\ scopes[u][i] \in Transactions
    BY <1>1, ElementOfSeq DEF Inv, ScopesInv
  <1>3. ~Closing(u, scopes[u][i])
    BY <1>2, Owners DEF Runs, Closing
  <1> QED
    BY <1>2, <1>3 DEF Inv, OwnerInv, IsOpen

\* The thread waits for its current transaction, which it sent for the first time.
LEMMA CloseKeeps ==
    ASSUME Inv, NEW u \in Threads, Close(u)
    PROVE  Inv'
  <1> DEFINE t == Innermost(u)
  <1> USE DEF userVars
  <1>1. Len(scopes[u]) \in 1 .. Len(scopes[u])
    BY EmptySeq DEF Inv, TypeOK, Close
  <1>2. /\ t = current_transaction[u] /\ t \in Transactions /\ IsOpen(t)
        /\ handler[t] = Nobody /\ inner[t] = "alive" /\ message[t] = "none"
    BY <1>1, CurrentOpen DEF Close, Innermost, IsOpen
  <1>3. Submit(t) /\ UNCHANGED <<inner, already_done, transactions, executor>>
    BY DEF Close
  <1>4. /\ message' \in [Transactions -> Memory]
        /\ message'[t] = "alive"
        /\ \A s \in Transactions : s # t => message'[s] = message[s]
        /\ executor_messages' \in Seq(MessageType)
        /\ \A s : Queued("Execute", s)' <=> Queued("Execute", s) \/ s = t
        /\ ExecutorInv'
        /\ NewestInv'
    BY <1>2, <1>3, Submitted DEF Close
  <1>5. /\ pc' \in [Threads -> {Running} \cup Waits]
        /\ pc'[u] = [at |-> "locking", id |-> t, call |-> "close"]
        /\ pc'[u] # Running /\ pc'[u].id = t /\ pc'[u].call = "close"
        /\ \A v \in Threads : v # u => pc'[v] = pc[v]
    BY <1>2, PcTypes DEF Inv, TypeOK, Close
  <1>6. /\ \A s \in Transactions : Waiting(u, s)' <=> s = t
        /\ \A s \in Transactions : Closing(u, s)' <=> s = t
        /\ \A v \in Threads, s \in Transactions :
             v # u => (Waiting(v, s)' <=> Waiting(v, s)) /\ (Closing(v, s)' <=> Closing(v, s))
        /\ \A s \in Transactions : ~Waiting(u, s) /\ ~Closing(u, s)
    BY <1>5, Owners DEF Waiting, Closing, Close, Runs
  <1>7. \A v \in Threads : Waiting(v, t) => FALSE
    BY <1>2 DEF Inv, WaitInv
  <1>8. TypeOK'
    BY <1>4, <1>5 DEF Inv, TypeOK, Close
  <1>9. ScopesInv'
    BY Frames DEF Inv, Close
  <1>10. OwnerInv'
    BY <1>2, <1>4, <1>6 DEF Inv, OwnerInv, Close
  <1>11. WaitInv'
    <2>1. scopes' = scopes /\ handler' = handler /\ scopes[u] # <<>>
      BY DEF Close
    <2>2. \A v \in Threads : Innermost(v)' = Innermost(v)
      BY <2>1 DEF Innermost
    <2> QED
      BY <1>2, <1>4, <1>6, <1>7, <2>1, <2>2 DEF Inv, WaitInv
  <1>12. LifeInv'
    BY <1>2, <1>4, <1>6 DEF Inv, LifeInv, IsOpen, Close
  <1>13. HandedInv'
    BY <1>4 DEF Inv, HandedInv, Close
  <1> QED
    BY <1>4, <1>8, <1>9, <1>10, <1>11, <1>12, <1>13 DEF Inv

\* The transaction leaves the stack for a JoinHandler, sent for the first time.
LEMMA get_join_handlerKeeps ==
    ASSUME Inv, NEW u \in Threads, NEW i \in 1 .. Len(scopes[u]), get_join_handler(u, i)
    PROVE  Inv'
  <1> DEFINE t == scopes[u][i]
  <1> USE DEF get_join_handler
  <1>1. /\ t = current_transaction[u] /\ t \in Transactions /\ IsOpen(t)
        /\ handler[t] = Nobody /\ inner[t] = "alive" /\ message[t] = "none"
    BY CurrentOpen DEF IsOpen
  <1>2. /\ message' \in [Transactions -> Memory]
        /\ message'[t] = "alive"
        /\ \A s \in Transactions : s # t => message'[s] = message[s]
        /\ executor_messages' \in Seq(MessageType)
        /\ \A s : Queued("Execute", s)' <=> Queued("Execute", s) \/ s = t
        /\ ExecutorInv'
        /\ NewestInv'
    BY <1>1, Submitted
  <1>3. /\ scopes[u] \in Seq(Transactions \cup {nullptr})
        /\ scopes \in [Threads -> Seq(Transactions \cup {nullptr})]
        /\ nullptr \in Transactions \cup {nullptr}
    BY DEF Inv, TypeOK
  <1>4. /\ scopes'[u] \in Seq(Transactions \cup {nullptr})
        /\ Len(scopes'[u]) = Len(scopes[u])
        /\ \A j \in 1 .. Len(scopes[u]) :
             scopes'[u][j] = IF j = i THEN nullptr ELSE scopes[u][j]
    <2>1. scopes'[u] = [scopes[u] EXCEPT ![i] = nullptr]
      BY <1>3
    <2> QED
      BY <2>1, <1>3, ExceptSeq
  <1>5. /\ scopes' \in [Threads -> Seq(Transactions \cup {nullptr})]
        /\ \A v \in Threads : v # u => scopes'[v] = scopes[v]
    BY <1>3, <1>4
  <1>6. /\ current_transaction' \in [Threads -> Transactions \cup {nullptr}]
        /\ current_transaction'[u] = nullptr
        /\ \A v \in Threads : v # u => current_transaction'[v] = current_transaction[v]
        /\ handler' \in [Transactions -> Threads \cup {Nobody}]
        /\ handler'[t] = u
        /\ \A s \in Transactions : s # t => handler'[s] = handler[s]
    BY <1>1 DEF Inv, TypeOK
  <1>7. TypeOK'
    BY <1>1, <1>2, <1>5, <1>6 DEF Inv, TypeOK
  <1>8. ScopesInv'
    <2> SUFFICES ASSUME NEW v \in Threads
                 PROVE  /\ \A k \in 1 .. Len(scopes'[v]) :
                              scopes'[v][k] \in {nullptr, current_transaction'[v]}
                        /\ \A k, j \in 1 .. Len(scopes'[v]) :
                              scopes'[v][k] # nullptr /\ scopes'[v][j] # nullptr => k = j
                        /\ current_transaction'[v] # nullptr =>
                              \E k \in 1 .. Len(scopes'[v]) :
                                 scopes'[v][k] = current_transaction'[v]
      BY DEF ScopesInv
    <2>1. CASE v # u
      <3>1. scopes'[v] = scopes[v] /\ current_transaction'[v] = current_transaction[v]
        BY <2>1, <1>5, <1>6
      <3> QED
        BY <3>1 DEF Inv, ScopesInv
    <2>2. CASE v = u
      <3>1. \A j \in 1 .. Len(scopes[u]) : scopes[u][j] # nullptr => j = i
        BY DEF Inv, ScopesInv
      <3> QED
        BY <2>2, <3>1, <1>4, <1>6
    <2> QED
      BY <2>1, <2>2
  <1>9. SameWaits
    BY SamePc
  <1>10. /\ \A v \in Threads : ~Waiting(v, t)
         /\ \A s \in Transactions : ~Waiting(u, s)
         /\ \A v \in Threads : v # u => current_transaction[v] # t
    BY <1>1, Owners DEF Inv, WaitInv, Runs
  <1>11. OwnerInv'
    BY <1>2, <1>6, <1>9, <1>10, Constants DEF Inv, OwnerInv, SameWaits
  <1>12. WaitInv'
    <2>1. \A v \in Threads, s \in Transactions :
             Waiting(v, s) => v # u /\ s # t /\ scopes'[v] = scopes[v]
      BY <1>5, <1>10
    <2> QED
      BY <1>2, <1>6, <1>9, <2>1 DEF Inv, WaitInv, SameWaits, Innermost
  <1>13. LifeInv'
    <2> SUFFICES ASSUME NEW s \in Transactions
                 PROVE  /\ s >= next_transaction_id =>
                              opener[s] = Nobody /\ inner[s] = "none" /\ message'[s] = "none"
                        /\ handler'[s] # Nobody => message'[s] = "alive" /\ inner[s] = "alive"
                        /\ message'[s] = "none" =>
                              ~already_done[s] /\ s \notin transactions /\ ~Queued("Execute", s)'
                        /\ message'[s] # "none" /\ ~already_done[s] =>
                              message'[s] = "alive" /\ inner[s] = "alive"
                        /\ inner[s] = "alive" /\ message'[s] = "none" =>
                              /\ opener[s] \in Threads
                              /\ current_transaction'[opener[s]] = s
                        /\ message'[s] = "alive" =>
                              handler'[s] # Nobody \/ \E v \in Threads : Closing(v, s)
      BY <1>9 DEF LifeInv, IsOpen, SameWaits
    <2>1. CASE s = t
      BY <2>1, <1>1, <1>2, <1>6, Constants DEF Inv, LifeInv
    <2>2. CASE s # t
      <3>1. message'[s] = message[s] /\ handler'[s] = handler[s]
              /\ (Queued("Execute", s)' <=> Queued("Execute", s))
        BY <2>2, <1>2, <1>6
      <3>2. inner[s] = "alive" /\ message[s] = "none" =>
              opener[s] # u /\ opener[s] \in Threads /\ current_transaction[opener[s]] = s
        BY <2>2, <1>1 DEF Inv, LifeInv, IsOpen
      <3> QED
        BY <3>1, <3>2, <1>6 DEF Inv, LifeInv
    <2> QED
      BY <2>1, <2>2
  <1>14. HandedInv'
    BY <1>2, <1>6 DEF Inv, HandedInv
  <1> QED
    BY <1>2, <1>7, <1>8, <1>11, <1>12, <1>13, <1>14 DEF Inv

\* The JoinHandler of a running thread is waited on by nobody.
LEMMA MoveKeeps ==
    ASSUME Inv, NEW u \in Threads, NEW v \in Users, NEW t \in Transactions, Move(u, v, t)
    PROVE  Inv'
  <1> USE DEF Move, heapVars
  <1>1. /\ handler' \in [Transactions -> Threads \cup {Nobody}]
        /\ handler'[t] = v
        /\ \A s \in Transactions : s # t => handler'[s] = handler[s]
        /\ v # Nobody /\ v \in Threads /\ handler[t] # Nobody
    BY Constants DEF Inv, TypeOK
  <1>2. TypeOK'
    BY <1>1 DEF Inv, TypeOK
  <1>3. SameWaits
    BY SamePc
  <1>4. OwnerInv'
    BY <1>1, <1>3 DEF Inv, OwnerInv, SameWaits
  <1>5. WaitInv'
    <2>1. \A w \in Threads : ~Waiting(w, t)
      <3> SUFFICES ASSUME NEW w \in Threads, Waiting(w, t) PROVE FALSE
        OBVIOUS
      <3>1. ~Closing(w, t)
        BY <1>1, Owners DEF Inv, OwnerInv
      <3>2. w = u
        BY <3>1 DEF Inv, WaitInv
      <3> QED
        BY <3>2, Owners DEF Runs
    <2> QED
      BY <1>1, <1>3, <2>1 DEF Inv, WaitInv, SameWaits, Innermost
  <1>6. LifeInv'
    BY <1>1, <1>3 DEF Inv, LifeInv, SameWaits, IsOpen, Queued
  <1>7. HandedInv'
    BY <1>1 DEF Inv, HandedInv
  <1> QED
    BY <1>2, <1>4, <1>5, <1>6, <1>7, <1>3, Frames DEF Inv

\* The thread that waits holds the JoinHandler.
LEMMA JoinKeeps ==
    ASSUME Inv, NEW u \in Threads, NEW t \in Transactions, Join(u, t)
    PROVE  Inv'
  <1> USE DEF userVars, heapVars
  <1>1. PICK call \in {"join", "drop"} :
           pc' = [pc EXCEPT ![u] = [at |-> "locking", id |-> t, call |-> call]]
    BY DEF Join
  <1>2. handler[t] = u /\ pc[u] = Running /\ u # Nobody
    BY Constants DEF Join, Runs
  <1>3. UNCHANGED <<userVars, heapVars, executor_messages, transactions, executor>>
    BY DEF Join
  <1>4. /\ pc' \in [Threads -> {Running} \cup Waits]
        /\ pc'[u] # Running /\ pc'[u].id = t /\ pc'[u].call # "close"
        /\ \A v \in Threads : v # u => pc'[v] = pc[v]
    BY <1>1, PcTypes DEF Inv, TypeOK
  <1>5. /\ \A s \in Transactions : Waiting(u, s)' <=> s = t
        /\ \A s \in Transactions : ~Closing(u, s)' /\ ~Closing(u, s)
        /\ \A v \in Threads, s \in Transactions :
             v # u => (Waiting(v, s)' <=> Waiting(v, s)) /\ (Closing(v, s)' <=> Closing(v, s))
    BY <1>2, <1>4 DEF Waiting, Closing
  <1>6. TypeOK'
    BY <1>3, <1>4 DEF Inv, TypeOK
  <1>7. OwnerInv'
    BY <1>3, <1>5 DEF Inv, OwnerInv
  <1>8. WaitInv'
    <2>1. message[t] = "alive"
      BY <1>2 DEF Inv, LifeInv
    <2>2. \A v \in Threads : Innermost(v)' = Innermost(v)
      BY <1>3 DEF Innermost
    <2> QED
      BY <1>2, <1>3, <1>5, <2>1, <2>2 DEF Inv, WaitInv
  <1>9. LifeInv'
    BY <1>3, <1>5 DEF Inv, LifeInv, IsOpen, Queued
  <1> QED
    BY <1>3, <1>6, <1>7, <1>8, <1>9, Frames DEF Inv

-----------------------------------------------------------------------------
(* The steps of wait.                                                      *)

\* Going to sleep and waking up end no wait.
LEMMA AtKeeps ==
    ASSUME Inv, NEW u \in Threads, pc[u] # Running, NEW at \in {"locking", "asleep"},
           pc' = [pc EXCEPT ![u].at = at],
           UNCHANGED <<userVars, heapVars, executor_messages, transactions, executor>>
    PROVE  Inv'
  <1> USE DEF userVars, heapVars
  <1>1. /\ pc \in [Threads -> {Running} \cup Waits] /\ pc[u] \in Waits
        /\ pc' = [pc EXCEPT ![u] = [pc[u] EXCEPT !.at = at]]
    BY DEF Inv, TypeOK
  <1>2. /\ pc' \in [Threads -> {Running} \cup Waits]
        /\ pc'[u] # Running /\ pc'[u].id = pc[u].id /\ pc'[u].call = pc[u].call
        /\ \A v \in Threads : v # u => pc'[v] = pc[v]
    <2> DEFINE w == pc[u]
    <2>1. /\ [w EXCEPT !.at = at] \in Waits
          /\ [w EXCEPT !.at = at] # Running
          /\ [w EXCEPT !.at = at].id = w.id
          /\ [w EXCEPT !.at = at].call = w.call
      BY <1>1, PcTypes
    <2> DEFINE w2 == [w EXCEPT !.at = at]
    <2>2. pc' = [pc EXCEPT ![u] = w2]
      BY <1>1
    <2>3. w2 \in Waits /\ w2 # Running /\ w2.id = w.id /\ w2.call = w.call
      BY <2>1
    <2> HIDE DEF w2
    <2> QED
      BY <2>2, <2>3, <1>1
  <1>3. SameWaits
    BY <1>2 DEF SameWaits, Waiting, Closing
  <1>4. TypeOK'
    BY <1>2 DEF Inv, TypeOK
  <1> QED
    BY <1>3, <1>4, Frames DEF Inv

\* Sleeping and waking up are such steps.
LEMMA SleepKeeps ==
    ASSUME Inv, NEW u \in Threads, Sleep(u) \/ SpuriousWakeUp(u)
    PROVE  Inv'
  BY AtKeeps DEF Sleep, SpuriousWakeUp

\* wait returns for a transaction the Executor is done with.
LEMMA Returning ==
    ASSUME Inv, NEW u \in Threads, NEW call, MayReturn(u, call)
    PROVE  /\ pc[u].id \in Transactions
           /\ Waiting(u, pc[u].id)
           /\ pc[u].call = call
           /\ already_done[pc[u].id]
           /\ message[pc[u].id] = "alive"
           /\ ~Queued("Execute", pc[u].id)
           /\ executor \notin {In("listeners", pc[u].id), In("done", pc[u].id),
                               In("unlocking", pc[u].id)}
           /\ pc' \in [Threads -> {Running} \cup Waits]
           /\ \A s \in Transactions : ~Waiting(u, s)' /\ ~Closing(u, s)'
           /\ \A v \in Threads, s \in Transactions :
                v # u => (Waiting(v, s)' <=> Waiting(v, s)) /\ (Closing(v, s)' <=> Closing(v, s))
           /\ \A v \in Threads : v # u => ~Waiting(v, pc[u].id)
  <1> DEFINE t == pc[u].id
  <1>1. /\ pc[u] \in Waits /\ Waiting(u, t) /\ t \in Transactions
        /\ pc[u].call = call /\ already_done[t]
    <2>1. pc[u] # Running /\ pc[u].call = call /\ already_done[t]
      BY DEF MayReturn
    <2>2. pc[u] \in Waits
      BY <2>1 DEF Inv, TypeOK
    <2>3. t \in Transactions
      BY <2>2, PcTypes
    <2> QED
      BY <2>1, <2>2, <2>3 DEF Waiting
  <1>2. message[t] = "alive" /\ ~Queued("Execute", t)
    BY <1>1 DEF Inv, WaitInv, ExecutorInv
  <1>3. executor # In("listeners", t) /\ executor # In("done", t) /\ executor # In("unlocking", t)
    <2>1. executor # In("unlocking", t)
      BY DEF MayReturn, MutexFree
    <2>2. In("listeners", t) # In("erasing", t) /\ In("done", t) # In("erasing", t)
      BY ExecutorTypes
    <2> QED
      BY <1>1, <2>1, <2>2 DEF Inv, ExecutorInv
  <1>4. /\ pc' \in [Threads -> {Running} \cup Waits]
        /\ pc'[u] = Running
        /\ \A v \in Threads : v # u => pc'[v] = pc[v]
    BY DEF MayReturn, Inv, TypeOK
  <1>5. \A v \in Threads : v # u => ~Waiting(v, t)
    BY <1>1, Owners
  <1>6. /\ \A s \in Transactions : ~Waiting(u, s)' /\ ~Closing(u, s)'
        /\ \A v \in Threads, s \in Transactions :
             v # u => (Waiting(v, s)' <=> Waiting(v, s)) /\ (Closing(v, s)' <=> Closing(v, s))
    BY <1>4 DEF Waiting, Closing
  <1> QED
    BY <1>1, <1>2, <1>3, <1>4, <1>5, <1>6

\* The JoinHandler stays, and so does its message.
LEMMA ReturnFromJoinKeeps ==
    ASSUME Inv, NEW u \in Threads, ReturnFromJoin(u)
    PROVE  Inv'
  <1> DEFINE t == pc[u].id
  <1> USE DEF userVars, heapVars
  <1>1. /\ MayReturn(u, "join")
        /\ UNCHANGED <<userVars, heapVars, executor_messages, transactions, executor>>
    BY DEF ReturnFromJoin
  <1>2. /\ pc' \in [Threads -> {Running} \cup Waits]
        /\ \A s \in Transactions : ~Waiting(u, s)' /\ ~Closing(u, s)'
        /\ \A v \in Threads, s \in Transactions :
             v # u => (Waiting(v, s)' <=> Waiting(v, s)) /\ (Closing(v, s)' <=> Closing(v, s))
    BY <1>1, Returning
  <1>3. \A s \in Transactions : ~Closing(u, s)
    BY <1>1, Returning DEF Closing
  <1>4. TypeOK'
    BY <1>1, <1>2 DEF Inv, TypeOK
  <1>5. OwnerInv'
    BY <1>1, <1>2, <1>3 DEF Inv, OwnerInv
  <1>6. WaitInv'
    <2>1. \A v \in Threads : Innermost(v)' = Innermost(v)
      BY <1>1 DEF Innermost
    <2> QED
      BY <1>1, <1>2, <2>1 DEF Inv, WaitInv
  <1>7. LifeInv'
    BY <1>1, <1>2, <1>3 DEF Inv, LifeInv, IsOpen, Queued
  <1> QED
    BY <1>1, <1>4, <1>5, <1>6, <1>7, Frames DEF Inv

\* The message goes with its JoinHandler, behind the Executor's last use of it.
LEMMA ReturnFromDropKeeps ==
    ASSUME Inv, NEW u \in Threads, ReturnFromDrop(u)
    PROVE  Inv'
  <1> DEFINE t == pc[u].id
  <1>1. /\ MayReturn(u, "drop")
        /\ message' = [message EXCEPT ![t] = Delete(@)]
        /\ handler' = [handler EXCEPT ![t] = Nobody]
        /\ UNCHANGED <<next_transaction_id, opener, current_transaction, scopes, handed, inner,
                       already_done, executor_messages, transactions, executor>>
    BY DEF ReturnFromDrop
  <1>2. /\ t \in Transactions /\ Waiting(u, t) /\ pc[u].call = "drop"
        /\ already_done[t] /\ message[t] = "alive" /\ ~Queued("Execute", t)
        /\ executor \notin {In("listeners", t), In("done", t), In("unlocking", t)}
        /\ pc' \in [Threads -> {Running} \cup Waits]
        /\ \A s \in Transactions : ~Waiting(u, s)' /\ ~Closing(u, s)'
        /\ \A v \in Threads, s \in Transactions :
             v # u => (Waiting(v, s)' <=> Waiting(v, s)) /\ (Closing(v, s)' <=> Closing(v, s))
        /\ \A v \in Threads : v # u => ~Waiting(v, t)
    BY <1>1, Returning
  <1>3. handler[t] = u /\ u # Nobody /\ (\A s \in Transactions : ~Closing(u, s))
    BY <1>2, Constants DEF Inv, WaitInv, Closing
  <1>4. /\ message' \in [Transactions -> Memory]
        /\ message'[t] = "deleted"
        /\ \A s \in Transactions : s # t => message'[s] = message[s]
    BY <1>1, <1>2 DEF Inv, TypeOK, Memory, Delete
  <1>5. /\ handler' \in [Transactions -> Threads \cup {Nobody}]
        /\ handler'[t] = Nobody
        /\ \A s \in Transactions : s # t => handler'[s] = handler[s]
    BY <1>1, <1>2 DEF Inv, TypeOK
  <1>6. TypeOK'
    BY <1>1, <1>2, <1>4, <1>5 DEF Inv, TypeOK
  <1>7. OwnerInv'
    BY <1>1, <1>2, <1>3, <1>4, <1>5 DEF Inv, OwnerInv
  <1>8. WaitInv'
    <2>1. \A v \in Threads : Innermost(v)' = Innermost(v)
      BY <1>1 DEF Innermost
    <2> QED
      BY <1>1, <1>2, <1>4, <1>5, <2>1 DEF Inv, WaitInv
  <1>9. \A s : Queued("Execute", s)' <=> Queued("Execute", s)
    BY <1>1 DEF Queued
  <1>10. LifeInv'
    <2> SUFFICES ASSUME NEW s \in Transactions
                 PROVE  /\ s >= next_transaction_id =>
                              opener[s] = Nobody /\ inner[s] = "none" /\ message'[s] = "none"
                        /\ handler'[s] # Nobody => message'[s] = "alive" /\ inner[s] = "alive"
                        /\ message'[s] = "none" =>
                              ~already_done[s] /\ s \notin transactions /\ ~Queued("Execute", s)
                        /\ message'[s] # "none" /\ ~already_done[s] =>
                              message'[s] = "alive" /\ inner[s] = "alive"
                        /\ inner[s] = "alive" /\ message'[s] = "none" =>
                              /\ opener[s] \in Threads
                              /\ current_transaction[opener[s]] = s
                        /\ message'[s] = "alive" =>
                              handler'[s] # Nobody \/ \E v \in Threads : Closing(v, s)'
      BY <1>1, <1>9 DEF LifeInv, IsOpen
    <2>1. CASE s = t
      BY <2>1, <1>2, <1>4, <1>5 DEF Inv, LifeInv
    <2>2. CASE s # t
      <3>1. \A v \in Threads : Closing(v, s)' <=> Closing(v, s)
        BY <1>2, <1>3
      <3> QED
        BY <2>2, <3>1, <1>4, <1>5 DEF Inv, LifeInv, IsOpen
    <2> QED
      BY <2>1, <2>2
  <1>11. ExecutorInv'
    <2>1. OneExecute'
      BY <1>1 DEF Inv, ExecutorInv, OneExecute
    <2> QED
      BY <2>1, <1>1, <1>2, <1>4, <1>9 DEF Inv, ExecutorInv
  <1>12. NewestInv'
    BY <1>1, <1>4 DEF Inv, NewestInv, IsOpen
  <1>13. HandedInv'
    BY <1>1, <1>3, <1>4, <1>5 DEF Inv, HandedInv
  <1> QED
    BY <1>1, <1>6, <1>7, <1>8, <1>10, <1>11, <1>12, <1>13, Frames DEF Inv

\* Message and InnerTransaction go with the innermost object of the stack.
LEMMA ReturnFromCloseKeeps ==
    ASSUME Inv, NEW u \in Threads, ReturnFromClose(u)
    PROVE  Inv'
  <1> DEFINE t == pc[u].id
  <1>1. /\ MayReturn(u, "close")
        /\ message' = [message EXCEPT ![t] = Delete(@)]
        /\ inner' = [inner EXCEPT ![t] = Delete(@)]
        /\ current_transaction' = [current_transaction EXCEPT ![u] = nullptr]
        /\ scopes' = [scopes EXCEPT ![u] = SubSeq(@, 1, Len(@) - 1)]
        /\ UNCHANGED <<next_transaction_id, opener, handler, handed, already_done,
                       executor_messages, transactions, executor>>
    BY DEF ReturnFromClose
  <1>2. /\ t \in Transactions /\ Waiting(u, t) /\ pc[u].call = "close"
        /\ already_done[t] /\ message[t] = "alive" /\ ~Queued("Execute", t)
        /\ executor \notin {In("listeners", t), In("done", t), In("unlocking", t)}
        /\ pc' \in [Threads -> {Running} \cup Waits]
        /\ \A s \in Transactions : ~Waiting(u, s)' /\ ~Closing(u, s)'
        /\ \A v \in Threads, s \in Transactions :
             v # u => (Waiting(v, s)' <=> Waiting(v, s)) /\ (Closing(v, s)' <=> Closing(v, s))
        /\ \A v \in Threads : v # u => ~Waiting(v, t)
    BY <1>1, Returning
  <1>3. /\ Closing(u, t) /\ current_transaction[u] = t
        /\ scopes[u] # <<>> /\ scopes[u][Len(scopes[u])] = t
        /\ inner[t] = "alive" /\ handler[t] = Nobody /\ opener[t] = u
        /\ \A v \in Threads : v # u => current_transaction[v] # t
        /\ \A s \in Transactions : s # t => ~Closing(u, s)
    <2>1. Closing(u, t) /\ current_transaction[u] = t
      BY <1>2, Owners DEF Closing
    <2> QED
      BY <2>1, <1>2, Owners DEF Inv, WaitInv, OwnerInv, Innermost, Closing
  <1>4. /\ message' \in [Transactions -> Memory] /\ inner' \in [Transactions -> Memory]
        /\ message'[t] = "deleted" /\ inner'[t] = "deleted"
        /\ \A s \in Transactions : s # t => message'[s] = message[s] /\ inner'[s] = inner[s]
    BY <1>1, <1>2, <1>3 DEF Inv, TypeOK, Memory, Delete
  <1>5. /\ current_transaction' \in [Threads -> Transactions \cup {nullptr}]
        /\ current_transaction'[u] = nullptr
        /\ \A v \in Threads : v # u => current_transaction'[v] = current_transaction[v]
    BY <1>1 DEF Inv, TypeOK
  <1>6. /\ scopes' \in [Threads -> Seq(Transactions \cup {nullptr})]
        /\ Len(scopes[u]) \in Nat \ {0}
        /\ Len(scopes'[u]) = Len(scopes[u]) - 1
        /\ \A i \in 1 .. Len(scopes'[u]) : scopes'[u][i] = scopes[u][i]
        /\ \A v \in Threads : v # u => scopes'[v] = scopes[v]
    BY <1>1, <1>3, Shorter
  <1>7. TypeOK'
    BY <1>1, <1>2, <1>4, <1>5, <1>6 DEF Inv, TypeOK
  <1>8. ScopesInv'
    <2> SUFFICES ASSUME NEW v \in Threads
                 PROVE  /\ \A i \in 1 .. Len(scopes'[v]) :
                              scopes'[v][i] \in {nullptr, current_transaction'[v]}
                        /\ \A i, j \in 1 .. Len(scopes'[v]) :
                              scopes'[v][i] # nullptr /\ scopes'[v][j] # nullptr => i = j
                        /\ current_transaction'[v] # nullptr =>
                              \E i \in 1 .. Len(scopes'[v]) :
                                 scopes'[v][i] = current_transaction'[v]
      BY DEF ScopesInv
    <2>1. CASE v # u
      <3>1. scopes'[v] = scopes[v] /\ current_transaction'[v] = current_transaction[v]
        BY <2>1, <1>5, <1>6
      <3> QED
        BY <3>1 DEF Inv, ScopesInv
    <2>2. CASE v = u
      <3>1. \A i \in 1 .. Len(scopes[u]) : scopes[u][i] # nullptr => i = Len(scopes[u])
        <4>1. Len(scopes[u]) \in 1 .. Len(scopes[u]) /\ scopes[u][Len(scopes[u])] # nullptr
          BY <1>2, <1>3, <1>6, Constants
        <4> QED
          BY <4>1 DEF Inv, ScopesInv
      <3>2. \A i \in 1 .. Len(scopes'[u]) : scopes'[u][i] = nullptr
        BY <3>1, <1>6
      <3> QED
        BY <2>2, <3>2, <1>5
    <2> QED
      BY <2>1, <2>2
  <1>9. OwnerInv'
    BY <1>1, <1>2, <1>3, <1>4, <1>5, Constants DEF Inv, OwnerInv
  <1>10. WaitInv'
    BY <1>1, <1>2, <1>4, <1>6 DEF Inv, WaitInv, Innermost
  <1>11. \A s : Queued("Execute", s)' <=> Queued("Execute", s)
    BY <1>1 DEF Queued
  <1>12. LifeInv'
    <2> SUFFICES ASSUME NEW s \in Transactions
                 PROVE  /\ s >= next_transaction_id =>
                              opener[s] = Nobody /\ inner'[s] = "none" /\ message'[s] = "none"
                        /\ handler[s] # Nobody => message'[s] = "alive" /\ inner'[s] = "alive"
                        /\ message'[s] = "none" =>
                              ~already_done[s] /\ s \notin transactions /\ ~Queued("Execute", s)
                        /\ message'[s] # "none" /\ ~already_done[s] =>
                              message'[s] = "alive" /\ inner'[s] = "alive"
                        /\ inner'[s] = "alive" /\ message'[s] = "none" =>
                              /\ opener[s] \in Threads
                              /\ current_transaction'[opener[s]] = s
                        /\ message'[s] = "alive" =>
                              handler[s] # Nobody \/ \E v \in Threads : Closing(v, s)'
      BY <1>1, <1>11 DEF LifeInv, IsOpen
    <2>1. CASE s = t
      BY <2>1, <1>2, <1>3, <1>4 DEF Inv, LifeInv
    <2>2. CASE s # t
      <3>1. message'[s] = message[s] /\ inner'[s] = inner[s]
        BY <2>2, <1>4
      <3>2. \A v \in Threads : Closing(v, s)' <=> Closing(v, s)
        BY <2>2, <1>2, <1>3
      <3>3. IsOpen(s) => opener[s] # u
        BY <2>2, <1>3 DEF Inv, LifeInv
      <3> QED
        BY <3>1, <3>2, <3>3, <1>5 DEF Inv, LifeInv, IsOpen
    <2> QED
      BY <2>1, <2>2
  <1>13. ExecutorInv'
    <2>1. OneExecute'
      BY <1>1 DEF Inv, ExecutorInv, OneExecute
    <2> QED
      BY <2>1, <1>1, <1>2, <1>4, <1>11 DEF Inv, ExecutorInv
  <1>14. NewestInv'
    BY <1>1, <1>4 DEF Inv, NewestInv, IsOpen
  <1>15. HandedInv'
    BY <1>1, <1>4 DEF Inv, HandedInv
  <1> QED
    BY <1>7, <1>8, <1>9, <1>10, <1>12, <1>13, <1>14, <1>15 DEF Inv

-----------------------------------------------------------------------------
(* The steps of the planner and the Executor.                              *)

\* A proposal is no Execute message.
LEMMA ProposeKeeps ==
    ASSUME Inv, NEW t \in Transactions, Propose(t)
    PROVE  Inv'
  <1> DEFINE m == [type |-> "Finalize", id |-> t]
  <1> USE DEF userVars, heapVars
  <1>1. /\ executor_messages' = Append(executor_messages, m)
        /\ UNCHANGED <<userVars, pc, heapVars, transactions, executor>>
    BY DEF Propose
  <1>2. /\ executor_messages' \in Seq(MessageType)
        /\ \A s : Queued("Execute", s)' <=> Queued("Execute", s)
        /\ OneExecute => OneExecute'
    <2>1. m \in MessageType /\ m.type # "Execute" /\ executor_messages \in Seq(MessageType)
      BY DEF MessageType, Inv, TypeOK
    <2> QED
      BY <1>1, <2>1, AnnouncedOnly
  <1>3. TypeOK'
    BY <1>1, <1>2 DEF Inv, TypeOK
  <1>4. LifeInv'
    BY <1>1, <1>2 DEF Inv, LifeInv, IsOpen, Closing, Waiting
  <1>5. ExecutorInv'
    BY <1>1, <1>2 DEF Inv, ExecutorInv
  <1> QED
    BY <1>1, <1>3, <1>4, <1>5, Frames, SamePc DEF Inv

\* The planner alone cares about Register.
LEMMA HandleRegisterKeeps ==
    ASSUME Inv, HandleRegister
    PROVE  Inv'
  <1> DEFINE m == Head(executor_messages)
  <1> USE DEF userVars, heapVars
  <1>1. /\ executor_messages # <<>>
        /\ executor_messages' = Tail(executor_messages)
        /\ UNCHANGED <<userVars, pc, heapVars, transactions, executor>>
        /\ executor_messages \in Seq(MessageType)
    BY DEF HandleRegister, Receive, Inv, TypeOK
  <1>2. /\ executor_messages' \in Seq(MessageType)
        /\ \A type, s : Queued(type, s)' => Queued(type, s)
        /\ OneExecute => OneExecute'
    BY <1>1, Popped
  <1>3. TypeOK'
    BY <1>1, <1>2 DEF Inv, TypeOK
  <1>4. LifeInv'
    BY <1>1, <1>2 DEF Inv, LifeInv, IsOpen, Closing, Waiting
  <1>5. ExecutorInv'
    BY <1>1, <1>2 DEF Inv, ExecutorInv
  <1> QED
    BY <1>1, <1>3, <1>4, <1>5, Frames, SamePc DEF Inv

\* The Executor meets the transaction for the first time.
LEMMA HandleExecuteKeeps ==
    ASSUME Inv, HandleExecute
    PROVE  Inv'
  <1>0. PICK m : m = Head(executor_messages)
    OBVIOUS
  <1> USE DEF userVars, heapVars
  <1>1. /\ executor_messages # <<>> /\ m.type = "Execute"
        /\ executor_messages' = Tail(executor_messages)
        /\ transactions' = transactions \cup {m.id}
        /\ executor = Popping
        /\ UNCHANGED <<userVars, pc, heapVars, executor>>
        /\ executor_messages \in Seq(MessageType)
    BY <1>0 DEF HandleExecute, Receive, Inv, TypeOK
  <1>2. /\ executor_messages' \in Seq(MessageType)
        /\ m \in MessageType
        /\ Queued("Execute", m.id)
        /\ \A type, s : Queued(type, s)' => Queued(type, s)
        /\ OneExecute'
        /\ ~Queued("Execute", m.id)'
    <2>1. OneExecute
      BY DEF Inv, ExecutorInv
    <2>2. /\ executor_messages' \in Seq(MessageType)
          /\ m \in MessageType
          /\ Queued(m.type, m.id)
          /\ \A type, s : Queued(type, s)' => Queued(type, s)
          /\ OneExecute => OneExecute'
          /\ OneExecute /\ m.type = "Execute" => ~Queued("Execute", m.id)'
      BY <1>0, <1>1, Popped
    <2> QED
      BY <1>1, <2>1, <2>2
  <1>3. m.id \in Transactions
    BY <1>2 DEF MessageType
  <1>4. ~already_done[m.id] /\ message[m.id] # "none"
    BY <1>2, <1>3 DEF Inv, ExecutorInv, LifeInv
  <1>5. TypeOK'
    BY <1>1, <1>2, <1>3 DEF Inv, TypeOK
  <1>6. LifeInv'
    BY <1>1, <1>2, <1>3, <1>4 DEF Inv, LifeInv, IsOpen, Closing, Waiting
  <1>7. \A t \in Transactions :
           /\ executor' = Popping
           /\ Popping \notin {In("listeners", t), In("done", t), In("unlocking", t)}
    BY <1>1, ExecutorTypes
  <1>8. ExecutorInv'
    <2> SUFFICES ASSUME NEW t \in Transactions
                 PROVE  /\ Queued("Execute", t)' => t \notin transactions' /\ ~already_done[t]
                        /\ t \in transactions' => ~already_done[t]
      BY <1>1, <1>2, <1>7 DEF ExecutorInv
    <2>1. t \in transactions => ~already_done[t]
      BY <1>1, ExecutorTypes DEF Inv, ExecutorInv
    <2>2. Queued("Execute", t) => t \notin transactions /\ ~already_done[t]
      BY DEF Inv, ExecutorInv
    <2> QED
      BY <1>1, <1>2, <1>4, <2>1, <2>2
  <1> QED
    BY <1>1, <1>5, <1>6, <1>8, Frames, SamePc DEF Inv

\* The Executor ends what it has, and has not ended before.
LEMMA HandleFinalizeKeeps ==
    ASSUME Inv, HandleFinalize
    PROVE  Inv'
  <1> DEFINE m == Head(executor_messages)
  <1> USE DEF userVars, heapVars
  <1>1. /\ executor_messages # <<>>
        /\ executor_messages' = Tail(executor_messages)
        /\ executor = Popping
        /\ executor' = IF m.id \in transactions THEN In("listeners", m.id) ELSE executor
        /\ UNCHANGED <<userVars, pc, heapVars, transactions>>
        /\ executor_messages \in Seq(MessageType)
    BY DEF HandleFinalize, Receive, Inv, TypeOK
  <1>2. /\ executor_messages' \in Seq(MessageType)
        /\ m \in MessageType
        /\ \A type, s : Queued(type, s)' => Queued(type, s)
        /\ OneExecute => OneExecute'
    BY <1>1, Popped
  <1>3. m.id \in Transactions
    BY <1>2 DEF MessageType
  <1>4. executor' \in ExecutorPcs
    BY <1>1, <1>3, ExecutorTypes
  <1>5. TypeOK'
    BY <1>1, <1>2, <1>4 DEF Inv, TypeOK
  <1>6. LifeInv'
    BY <1>1, <1>2 DEF Inv, LifeInv, IsOpen, Closing, Waiting
  <1>7. \A t \in Transactions : ~(t \in transactions /\ already_done[t])
    BY <1>1, ExecutorTypes DEF Inv, ExecutorInv
  <1>8. \A t \in Transactions :
           /\ executor' # In("unlocking", t)
           /\ executor' \in {In("listeners", t), In("done", t)} => t \in transactions
    BY <1>1, <1>3, ExecutorTypes
  <1>9. ExecutorInv'
    BY <1>1, <1>2, <1>7, <1>8 DEF Inv, ExecutorInv
  <1> QED
    BY <1>1, <1>5, <1>6, <1>9, Frames, SamePc DEF Inv

\* Listeners leave the transaction to the Executor.
LEMMA ListenersReturnKeeps ==
    ASSUME Inv, ListenersReturn
    PROVE  Inv'
  <1> DEFINE t == executor.id
  <1> USE DEF userVars, heapVars
  <1>1. /\ executor.at = "listeners"
        /\ executor' = In("done", t)
        /\ UNCHANGED <<userVars, pc, heapVars, executor_messages, transactions>>
        /\ executor \in ExecutorPcs
    BY DEF ListenersReturn, Inv, TypeOK
  <1>2. t \in Transactions /\ executor = In("listeners", t)
    BY <1>1, ExecutorTypes
  <1>3. t \in transactions
    BY <1>2 DEF Inv, ExecutorInv
  <1>4. executor' \in ExecutorPcs
    BY <1>1, <1>2, ExecutorTypes
  <1>5. TypeOK'
    BY <1>1, <1>4 DEF Inv, TypeOK
  <1>6. \A s \in Transactions : ~(s \in transactions /\ already_done[s])
    BY <1>1, ExecutorTypes DEF Inv, ExecutorInv
  <1>7. \A s \in Transactions :
           /\ executor' # In("unlocking", s)
           /\ executor' \in {In("listeners", s), In("done", s)} => s = t
    BY <1>1, ExecutorTypes
  <1>8. ExecutorInv'
    <2>1. OneExecute' /\ \A s : Queued("Execute", s)' <=> Queued("Execute", s)
      BY <1>1 DEF Inv, ExecutorInv, OneExecute, Queued
    <2> QED
      BY <1>1, <1>3, <1>6, <1>7, <2>1 DEF Inv, ExecutorInv
  <1> QED
    BY <1>1, <1>5, <1>8, Frames, SamePc DEF Inv

\* Who is woken still waits; the message is there until the mutex is free.
LEMMA doneKeeps ==
    ASSUME Inv, done
    PROVE  Inv'
  <1> DEFINE t == executor.id
             awake(w) == [w EXCEPT !.at = "locking"]
  <1> USE DEF userVars, heapVars
  <1>1. /\ executor.at = "done"
        /\ already_done' = [already_done EXCEPT ![t] = TRUE]
        /\ pc' = [u \in Threads |-> IF Waiting(u, t) THEN awake(pc[u]) ELSE pc[u]]
        /\ executor' = In("unlocking", t)
        /\ UNCHANGED <<userVars, inner, message, executor_messages, transactions>>
        /\ executor \in ExecutorPcs
        /\ pc \in [Threads -> {Running} \cup Waits]
    BY DEF done, Inv, TypeOK
  <1>2. t \in Transactions /\ executor = In("done", t)
    BY <1>1, ExecutorTypes
  <1>3. t \in transactions /\ ~already_done[t]
    <2>1. In("done", t) # In("unlocking", t) /\ In("done", t) # In("erasing", t)
      BY ExecutorTypes
    <2> QED
      BY <1>2, <2>1 DEF Inv, ExecutorInv
  <1>4. message[t] = "alive" /\ inner[t] = "alive" /\ ~Queued("Execute", t)
    BY <1>2, <1>3 DEF Inv, LifeInv, ExecutorInv
  <1>5. \A w \in Waits :
           awake(w) \in Waits /\ awake(w) # Running /\ awake(w).id = w.id
             /\ awake(w).call = w.call
    BY PcTypes
  <1>6. \A u \in Threads :
           /\ pc'[u] \in {Running} \cup Waits
           /\ pc'[u] = Running <=> pc[u] = Running
           /\ pc[u] # Running => pc'[u].id = pc[u].id /\ pc'[u].call = pc[u].call
    <2> SUFFICES ASSUME NEW u \in Threads
                 PROVE  /\ pc'[u] \in {Running} \cup Waits
                        /\ pc'[u] = Running <=> pc[u] = Running
                        /\ pc[u] # Running => pc'[u].id = pc[u].id /\ pc'[u].call = pc[u].call
      OBVIOUS
    <2>1. CASE Waiting(u, t)
      <3>1. pc[u] # Running /\ pc[u] \in Waits
        BY <2>1, <1>1 DEF Waiting
      <3>2. pc'[u] = awake(pc[u])
        BY <2>1, <1>1
      <3> HIDE DEF awake
      <3> QED
        BY <3>1, <3>2, <1>5
    <2>2. CASE ~Waiting(u, t)
      <3>1. pc'[u] = pc[u]
        BY <2>2, <1>1
      <3> QED
        BY <3>1, <1>1
    <2> QED
      BY <2>1, <2>2
  <1>7. SameWaits
    BY <1>6 DEF SameWaits, Waiting, Closing
  <1>8. executor' \in ExecutorPcs /\ pc' \in [Threads -> {Running} \cup Waits]
    <2>1. executor' \in ExecutorPcs
      BY <1>1, <1>2, ExecutorTypes
    <2>2. pc' = [u \in Threads |-> pc'[u]]
      BY <1>1
    <2> QED
      BY <2>1, <2>2, <1>6
  <1>9. /\ already_done' \in [Transactions -> BOOLEAN]
        /\ already_done'[t]
        /\ \A s \in Transactions : s # t => already_done'[s] = already_done[s]
    BY <1>1, <1>2 DEF Inv, TypeOK
  <1>10. TypeOK'
    BY <1>1, <1>8, <1>9 DEF Inv, TypeOK
  <1>11. \A s : Queued("Execute", s)' <=> Queued("Execute", s)
    BY <1>1 DEF Queued
  <1>12. LifeInv'
    <2> SUFFICES ASSUME NEW s \in Transactions
                 PROVE  /\ s >= next_transaction_id =>
                              opener[s] = Nobody /\ inner[s] = "none" /\ message[s] = "none"
                        /\ handler[s] # Nobody => message[s] = "alive" /\ inner[s] = "alive"
                        /\ message[s] = "none" =>
                             ~already_done'[s] /\ s \notin transactions /\ ~Queued("Execute", s)
                        /\ message[s] # "none" /\ ~already_done'[s] =>
                             message[s] = "alive" /\ inner[s] = "alive"
                        /\ IsOpen(s) =>
                             opener[s] \in Threads /\ current_transaction[opener[s]] = s
                        /\ message[s] = "alive" =>
                             handler[s] # Nobody \/ \E u \in Threads : Closing(u, s)'
      BY <1>1, <1>11 DEF LifeInv, IsOpen
    <2>1. \A u \in Threads : Closing(u, s)' <=> Closing(u, s)
      BY <1>7 DEF SameWaits
    <2>2. CASE s = t
      BY <2>1, <2>2, <1>4, <1>9 DEF Inv, LifeInv
    <2>3. CASE s # t
      BY <2>1, <2>3, <1>9 DEF Inv, LifeInv
    <2> QED
      BY <2>2, <2>3
  <1>13. \A s \in Transactions :
            /\ executor' = In("unlocking", s) => s = t
            /\ executor' # In("listeners", s) /\ executor' # In("done", s)
    BY <1>1, ExecutorTypes
  <1>14. \A s \in Transactions : s # t => ~(s \in transactions /\ already_done[s])
    BY <1>2, ExecutorTypes DEF Inv, ExecutorInv
  <1>15. ExecutorInv'
    <2>1. OneExecute'
      BY <1>1 DEF Inv, ExecutorInv, OneExecute
    <2> QED
      BY <1>1, <1>3, <1>4, <1>9, <1>11, <1>13, <1>14, <2>1 DEF Inv, ExecutorInv
  <1> QED
    BY <1>1, <1>7, <1>10, <1>12, <1>15, Frames DEF Inv

\* From here on the Executor uses the ID only.
LEMMA UnlockKeeps ==
    ASSUME Inv, Unlock
    PROVE  Inv'
  <1> DEFINE t == executor.id
  <1> USE DEF userVars, heapVars
  <1>1. /\ executor.at = "unlocking"
        /\ executor' = In("erasing", t)
        /\ UNCHANGED <<userVars, pc, heapVars, executor_messages, transactions>>
        /\ executor \in ExecutorPcs
    BY DEF Unlock, Inv, TypeOK
  <1>2. t \in Transactions /\ executor = In("unlocking", t)
    BY <1>1, ExecutorTypes
  <1>3. executor' \in ExecutorPcs
    BY <1>1, <1>2, ExecutorTypes
  <1>4. TypeOK'
    BY <1>1, <1>3 DEF Inv, TypeOK
  <1>5. \A s \in Transactions : s \in transactions /\ already_done[s] => s = t
    BY <1>2, ExecutorTypes DEF Inv, ExecutorInv
  <1>6. \A s \in Transactions :
           executor' \notin {In("listeners", s), In("done", s), In("unlocking", s)}
    BY <1>1, ExecutorTypes
  <1>7. ExecutorInv'
    <2>1. OneExecute' /\ \A s : Queued("Execute", s)' <=> Queued("Execute", s)
      BY <1>1 DEF Inv, ExecutorInv, OneExecute, Queued
    <2> QED
      BY <1>1, <1>5, <1>6, <2>1 DEF Inv, ExecutorInv
  <1> QED
    BY <1>1, <1>4, <1>7, Frames, SamePc DEF Inv

\* The Executor has forgotten the transaction.
LEMMA EraseKeeps ==
    ASSUME Inv, Erase
    PROVE  Inv'
  <1> DEFINE t == executor.id
  <1> USE DEF userVars, heapVars
  <1>1. /\ executor.at = "erasing"
        /\ transactions' = transactions \ {t}
        /\ executor' = Popping
        /\ UNCHANGED <<userVars, pc, heapVars, executor_messages>>
        /\ executor \in ExecutorPcs
    BY DEF Erase, Inv, TypeOK
  <1>2. t \in Transactions /\ executor = In("erasing", t)
    BY <1>1, ExecutorTypes
  <1>3. TypeOK'
    BY <1>1, ExecutorTypes DEF Inv, TypeOK
  <1>4. LifeInv'
    BY <1>1 DEF Inv, LifeInv, IsOpen, Closing, Waiting, Queued
  <1>5. \A s \in Transactions : s \in transactions /\ already_done[s] => s = t
    BY <1>2, ExecutorTypes DEF Inv, ExecutorInv
  <1>6. \A s \in Transactions :
           executor' \notin {In("listeners", s), In("done", s), In("unlocking", s)}
    BY <1>1, ExecutorTypes
  <1>7. ExecutorInv'
    <2>1. OneExecute' /\ \A s : Queued("Execute", s)' <=> Queued("Execute", s)
      BY <1>1 DEF Inv, ExecutorInv, OneExecute, Queued
    <2> QED
      BY <1>1, <1>5, <1>6, <2>1 DEF Inv, ExecutorInv
  <1> QED
    BY <1>1, <1>3, <1>4, <1>7, Frames, SamePc DEF Inv

\* An Executor that stopped uses nothing.
LEMMA StopKeeps ==
    ASSUME Inv, Stop
    PROVE  Inv'
  <1> USE DEF userVars, heapVars
  <1>1. /\ executor = Popping
        /\ executor' = [at |-> "stopped"]
        /\ UNCHANGED <<userVars, pc, heapVars, executor_messages, transactions>>
    BY DEF Stop
  <1>2. TypeOK'
    BY <1>1, ExecutorTypes DEF Inv, TypeOK
  <1>3. ExecutorInv'
    <2>1. OneExecute' /\ \A s : Queued("Execute", s)' <=> Queued("Execute", s)
      BY <1>1 DEF Inv, ExecutorInv, OneExecute, Queued
    <2> QED
      BY <1>1, <2>1, ExecutorTypes DEF Inv, ExecutorInv
  <1> QED
    BY <1>1, <1>2, <1>3, Frames, SamePc DEF Inv

-----------------------------------------------------------------------------
(* The theorems.                                                           *)

\* Nothing is there yet.
LEMMA InitInv == Init => Inv
  <1> SUFFICES ASSUME Init PROVE Inv
    OBVIOUS
  <1> USE DEF Init
  <1>1. TypeOK
    <2>1. next_transaction_id \in 0 .. MaxTransactions
      BY UsersAssumption
    <2> QED
      BY <2>1, ExecutorTypes DEF TypeOK, Memory
  <1>2. \A u \in Threads, t \in Transactions : ~Waiting(u, t) /\ current_transaction[u] # t
    BY Constants DEF Waiting
  <1>3. ScopesInv
    BY DEF ScopesInv
  <1>4. OwnerInv /\ WaitInv
    BY <1>2 DEF OwnerInv, WaitInv
  <1>5. \A t : ~Queued("Execute", t)
    BY DEF Queued
  <1>6. \A t \in Transactions : ~IsOpen(t)
    BY DEF IsOpen
  <1>7. LifeInv
    BY <1>5, <1>6 DEF LifeInv
  <1>8. ExecutorInv
    BY <1>5, ExecutorTypes DEF ExecutorInv, OneExecute
  <1>9. NewestInv
    BY <1>6 DEF NewestInv
  <1>10. HandedInv
    BY DEF HandedInv
  <1> QED
    BY <1>1, <1>3, <1>4, <1>7, <1>8, <1>9, <1>10 DEF Inv

\* Every step keeps the invariant.
LEMMA NextInv ==
    ASSUME Inv, [Next]_vars
    PROVE  Inv'
  <1>1. ASSUME NEW u \in Threads, ProgramStep(u) PROVE Inv'
    <2>1. ASSUME NEW i \in 1 .. Len(scopes[u]), get_join_handler(u, i) PROVE Inv'
      BY <2>1, get_join_handlerKeeps
    <2>2. ASSUME NEW v \in Users, NEW t \in Transactions, Move(u, v, t) PROVE Inv'
      BY <2>2, MoveKeeps
    <2>3. ASSUME NEW t \in Transactions, Join(u, t) PROVE Inv'
      BY <2>3, JoinKeeps
    <2> QED
      BY <1>1, <2>1, <2>2, <2>3, OpenNestedKeeps, OpenKeeps, CloseNestedKeeps, CloseKeeps
         DEF ProgramStep
  <1>2. ASSUME NEW u \in Threads, WaitStep(u) \/ SpuriousWakeUp(u) PROVE Inv'
    BY <1>2, SleepKeeps, ReturnFromJoinKeeps, ReturnFromDropKeeps, ReturnFromCloseKeeps
       DEF WaitStep
  <1>3. ASSUME NEW t \in Transactions, Propose(t) PROVE Inv'
    BY <1>3, ProposeKeeps
  <1>4. CASE ExecutorStep \/ ListenersReturn \/ Stop
    BY <1>4, HandleRegisterKeeps, HandleExecuteKeeps, HandleFinalizeKeeps,
       ListenersReturnKeeps, doneKeeps, UnlockKeeps, EraseKeeps, StopKeeps DEF ExecutorStep
  <1>5. CASE UNCHANGED vars
    BY <1>5, Frames, SamePc DEF vars, userVars, heapVars, Inv, TypeOK
  <1> QED
    BY <1>1, <1>2, <1>3, <1>4, <1>5 DEF Next

\* The invariant: the objects on the stacks, the JoinHandlers and the queue of the
\* Executor each stand for a transaction at one stage of its life
\* (transaction.cpp:75-113 and 147-217, executor.cpp:127-175).
THEOREM UsersCorrect == Spec => []Inv
  <1>1. Init => Inv
    BY InitInv
  <1>2. Inv /\ [Next]_vars => Inv'
    BY NextInv
  <1> QED
    BY <1>1, <1>2, PTL DEF Spec

\* Types, and with them no double free, for any number of threads and
\* transactions (utils.cpp:11-22, transaction.cpp:107-113 and 169-172).
THEOREM UserTypes == Spec => []TypeOK
  <1>1. Inv => TypeOK
    BY DEF Inv
  <1> QED
    BY <1>1, UsersCorrect, PTL

\* No message, Waiter or InnerTransaction is used after it was freed
\* (utils.cpp:11-15, transaction.cpp:107-113 and 169-172, executor.cpp:158-161).
THEOREM MemorySafe == Spec => []NoUseAfterFree
  <1>1. ASSUME Inv PROVE NoUseAfterFree
    <2>1. ASSUME NEW t \in Transactions, ExecutorNeeds(t)
          PROVE  message[t] = "alive" /\ inner[t] = "alive"
      <3>1. CASE Queued("Execute", t)
        BY <1>1, <3>1 DEF Inv, LifeInv, ExecutorInv
      <3>2. CASE t \in transactions /\ executor # In("erasing", t)
        <4>1. CASE already_done[t]
          BY <1>1, <3>2, <4>1 DEF Inv, ExecutorInv
        <4>2. CASE ~already_done[t]
          BY <1>1, <3>2, <4>2 DEF Inv, LifeInv
        <4> QED
          BY <4>1, <4>2
      <3>3. CASE executor \in {In("listeners", t), In("done", t), In("unlocking", t)}
        <4>1. t \in transactions
          BY <1>1, <3>3 DEF Inv, ExecutorInv
        <4>2. executor # In("erasing", t)
          BY <3>3, ExecutorTypes
        <4> QED
          BY <4>1, <4>2, <3>2
      <3> QED
        BY <2>1, <3>1, <3>2, <3>3 DEF ExecutorNeeds, Queued
    <2>2. ASSUME NEW t \in Transactions
          PROVE  /\ handler[t] # Nobody => message[t] = "alive"
                 /\ \A u \in Threads : Waiting(u, t) => message[t] = "alive"
      BY <1>1 DEF Inv, LifeInv, WaitInv
    <2>3. ASSUME NEW u \in Threads, NEW i \in 1 .. Len(scopes[u]), scopes[u][i] # nullptr
          PROVE  inner[scopes[u][i]] = "alive"
      <3>1. scopes[u][i] = current_transaction[u]
        BY <1>1, <2>3 DEF Inv, ScopesInv
      <3>2. current_transaction[u] \in Transactions
        BY <1>1, <2>3, <3>1 DEF Inv, TypeOK
      <3> QED
        BY <1>1, <3>1, <3>2 DEF Inv, OwnerInv
    <2> QED
      BY <2>1, <2>2, <2>3 DEF NoUseAfterFree
  <1> QED
    BY <1>1, UsersCorrect, PTL

\* A running thread sends into a transaction of its own that is not submitted
\* (transaction.cpp:136-145 and 208-211).
THEOREM OwnTransaction == Spec => []CurrentIsOwn
  <1>1. ASSUME Inv PROVE CurrentIsOwn
    <2> SUFFICES ASSUME NEW u \in Threads, pc[u] = Running, current_transaction[u] # nullptr
                 PROVE  /\ IsOpen(current_transaction[u])
                        /\ opener[current_transaction[u]] = u
                        /\ Cardinality({i \in 1 .. Len(scopes[u]) :
                                          scopes[u][i] = current_transaction[u]}) = 1
      BY DEF CurrentIsOwn
    <2> DEFINE t == current_transaction[u]
    <2>1. t \in Transactions
      BY <1>1 DEF Inv, TypeOK
    <2>2. ~Closing(u, t)
      BY DEF Closing, Waiting
    <2>3. IsOpen(t) /\ opener[t] = u
      BY <1>1, <2>1, <2>2 DEF Inv, OwnerInv, IsOpen
    <2>4. PICK i \in 1 .. Len(scopes[u]) : scopes[u][i] = t
      BY <1>1 DEF Inv, ScopesInv
    <2>5. {j \in 1 .. Len(scopes[u]) : scopes[u][j] = t} = {i}
      BY <1>1, <2>4 DEF Inv, ScopesInv
    <2>6. Cardinality({i}) = 1
      BY FS_Singleton
    <2> QED
      BY <2>3, <2>5, <2>6
  <1> QED
    BY <1>1, UsersCorrect, PTL

\* No thread waits for a transaction of its own behind an older one it has open
\* (document.md:137, transaction.cpp:75-84).
THEOREM NoSelfWaiting == Spec => []NoSelfWait
  <1>1. ASSUME Inv PROVE NoSelfWait
    <2> SUFFICES ASSUME NEW u \in Threads, NEW s \in Transactions, NEW t \in Transactions,
                        Waiting(u, t), opener[t] = u, opener[s] = u, s < t, IsOpen(s)
                 PROVE  FALSE
      BY DEF NoSelfWait
    <2>1. t <= s
      BY <1>1 DEF Inv, NewestInv
    <2> QED
      BY <2>1, Constants
  <1> QED
    BY <1>1, UsersCorrect, PTL

\* What nothing stands for any more is freed: the message in any case, and the
\* InnerTransaction of what no JoinHandler ever held (transaction.cpp:107-113, 169-172
\* and 190-195).
THEOREM AllFreed == Spec => []Freed
  <1>1. ASSUME Inv PROVE Freed
    <2> SUFFICES ASSUME NEW t \in Transactions, already_done[t], handler[t] = Nobody,
                        \A u \in Threads : ~Waiting(u, t)
                 PROVE  /\ message[t] = "deleted"
                        /\ t \notin handed => inner[t] = "deleted"
      BY DEF Freed
    <2>1. message[t] \in {"none", "alive", "deleted"}
      BY <1>1 DEF Inv, TypeOK, Memory
    <2>2. message[t] = "deleted"
      BY <1>1, <2>1 DEF Inv, LifeInv, Closing
    <2> QED
      BY <1>1, <2>2 DEF Inv, HandedInv
  <1> QED
    BY <1>1, UsersCorrect, PTL

=============================================================================
