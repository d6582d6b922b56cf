--------------------------- MODULE UserTransactions ---------------------------
(***************************************************************************)
(* Transactions as a program uses them: Transaction objects and            *)
(* JoinHandlers on the stacks of threads, the thread-local                 *)
(* current_transaction, the Waiter on which a thread sleeps until the      *)
(* Executor ends its transaction, and who frees what.  Listeners are part  *)
(* of the program too, and run on the Executor's thread.                   *)
(*                                                                         *)
(* The planner is left with what TransactionOrder promises of it: it may   *)
(* propose the end of the oldest transaction, more than once.              *)
(***************************************************************************)
EXTENDS Integers, Sequences, FiniteSets

CONSTANTS
    Users,           \* the threads of the program
    ExecutorThread,  \* the Executor's thread
    Nobody,          \* no thread
    MaxTransactions, \* bound on the number of transactions
    MaxDepth,        \* bound on the Transaction objects alive on a thread
    MaxProposals     \* bound on the waiting proposals to end a transaction

ASSUME UsersAssumption ==
    /\ ExecutorThread \notin Users
    /\ Nobody \notin Users \cup {ExecutorThread}
    /\ MaxTransactions \in Nat
    /\ MaxDepth \in Nat
    /\ MaxProposals \in Nat

Transactions == 0 .. (MaxTransactions - 1)
Threads == Users \cup {ExecutorThread}

\* The null pointer, to a transaction or to a message.
nullptr == -1

VARIABLES
    next_transaction_id,  \* the IDs below it are taken
    opener,               \* the thread that created each transaction
    current_transaction,  \* of each thread
    scopes,               \* the inner pointers of the Transaction objects on each stack
    handler,              \* the thread that holds the JoinHandler of a transaction
    handed,               \* history: the transactions that went through a JoinHandler
    pc,                   \* what each thread is doing
    inner,                \* the InnerTransaction of each transaction
    message,              \* its TransactionExecuteMessage
    already_done,         \* the flag of the Waiter in it
    executor_messages,    \* Executor::messages
    transactions,         \* keys of Executor::transactions
    executor              \* where the Executor is in its loop

heapVars == <<inner, message, already_done>>
userVars == <<next_transaction_id, opener, current_transaction, scopes, handler,
              handed>>
vars == <<userVars, pc, heapVars, executor_messages, transactions, executor>>

Memory == {"none", "alive", "deleted"}

\* Freeing twice, or what was never allocated, corrupts the heap.
Delete(m) == IF m = "alive" THEN "deleted" ELSE "corrupt"

\* A thread that does not run waits for the end of a transaction: in join, in the
\* destructor of a JoinHandler, or in that of a Transaction.
Running == [at |-> "running"]
Waits == [at : {"locking", "asleep"}, id : Transactions, call : {"join", "drop", "close"}]

Waiting(u, t) == pc[u] # Running /\ pc[u].id = t

MessageType == [type : {"Register", "Execute", "Finalize"}, id : Transactions]

\* Where the Executor is: at pop, in the listeners of a transaction, before and in
\* the critical section of done, behind it; or its loop has ended.
ExecutorPcs == [at : {"popping", "stopped"}]
               \cup [at : {"listeners", "done", "unlocking", "erasing"}, id : Transactions]

Popping == [at |-> "popping"]
In(at, t) == [at |-> at, id |-> t]

-----------------------------------------------------------------------------
(* The program.                                                            *)

\* Thread u executes the program's own code; the Executor's does in listeners.
Runs(u) ==
    /\ pc[u] = Running
    /\ u = ExecutorThread => executor.at = "listeners"

\* Mutant of Nests: every Transaction is one of its own.
NestsNever(u) == FALSE

\* A Transaction inside another one of the same thread is that one.
Nests(u) == current_transaction[u] # nullptr

OpenNested(u) ==
    /\ Runs(u)
    /\ Nests(u)
    /\ Len(scopes[u]) < MaxDepth
    /\ scopes' = [scopes EXCEPT ![u] = Append(@, nullptr)]
    /\ UNCHANGED <<next_transaction_id, opener, current_transaction, handler, handed, pc,
                   heapVars, executor_messages, transactions, executor>>

\* Otherwise it creates a transaction, and announces it in the order of the IDs.
Open(u) ==
    LET t == next_transaction_id
    IN  /\ Runs(u)
        /\ ~Nests(u)
        /\ Len(scopes[u]) < MaxDepth
        /\ t < MaxTransactions
        /\ next_transaction_id' = t + 1
        /\ opener' = [opener EXCEPT ![t] = u]
        /\ current_transaction' = [current_transaction EXCEPT ![u] = t]
        /\ scopes' = [scopes EXCEPT ![u] = Append(@, t)]
        /\ inner' = [inner EXCEPT ![t] = "alive"]
        /\ executor_messages' = Append(executor_messages, [type |-> "Register", id |-> t])
        /\ UNCHANGED <<handler, handed, pc, message, already_done, transactions, executor>>

\* A new TransactionExecuteMessage for t is sent.
Submit(t) ==
    /\ message' = [message EXCEPT ![t] = "alive"]
    /\ executor_messages' = Append(executor_messages, [type |-> "Execute", id |-> t])

Innermost(u) == scopes[u][Len(scopes[u])]

CloseNested(u) ==
    /\ Runs(u)
    /\ scopes[u] # <<>>
    /\ Innermost(u) = nullptr
    /\ scopes' = [scopes EXCEPT ![u] = SubSeq(@, 1, Len(@) - 1)]
    /\ UNCHANGED <<next_transaction_id, opener, current_transaction, handler, handed, pc,
                   heapVars, executor_messages, transactions, executor>>

\* The destructor of a Transaction that has a transaction starts its updates and
\* waits for its end; the object is there until then.
Close(u) ==
    /\ Runs(u)
    /\ scopes[u] # <<>>
    /\ Innermost(u) # nullptr
    /\ Submit(Innermost(u))
    /\ pc' = [pc EXCEPT ![u] = [at |-> "locking", id |-> Innermost(u), call |-> "close"]]
    /\ UNCHANGED <<userVars, inner, already_done, transactions, executor>>

\* Mutant of get_join_handler: the Transaction keeps its pointer.
get_join_handlerKeeping(u, i) ==
    LET t == scopes[u][i]
    IN  /\ Runs(u)
        /\ t # nullptr
        /\ Submit(t)
        /\ current_transaction' = [current_transaction EXCEPT ![u] = nullptr]
        /\ handler' = [handler EXCEPT ![t] = u]
        /\ handed' = handed \cup {t}
        /\ UNCHANGED <<next_transaction_id, opener, scopes, pc, inner, already_done,
                       transactions, executor>>

\* Mutant of get_join_handler: the thread goes on in the transaction it submitted.
get_join_handlerGoingOn(u, i) ==
    LET t == scopes[u][i]
    IN  /\ Runs(u)
        /\ t # nullptr
        /\ Submit(t)
        /\ scopes' = [scopes EXCEPT ![u][i] = nullptr]
        /\ handler' = [handler EXCEPT ![t] = u]
        /\ handed' = handed \cup {t}
        /\ UNCHANGED <<next_transaction_id, opener, current_transaction, pc, inner,
                       already_done, transactions, executor>>

\* The i-th Transaction object of u hands its transaction to a JoinHandler; one
\* that has none would end the process.
get_join_handler(u, i) ==
    LET t == scopes[u][i]
    IN  /\ Runs(u)
        /\ t # nullptr
        /\ Submit(t)
        /\ current_transaction' = [current_transaction EXCEPT ![u] = nullptr]
        /\ scopes' = [scopes EXCEPT ![u][i] = nullptr]
        /\ handler' = [handler EXCEPT ![t] = u]
        /\ handed' = handed \cup {t}
        /\ UNCHANGED <<next_transaction_id, opener, pc, inner, already_done,
                       transactions, executor>>

\* A JoinHandler is moved to a thread of the program; what is left has no message.
Move(u, v, t) ==
    /\ Runs(u)
    /\ handler[t] = u
    /\ v # u
    /\ handler' = [handler EXCEPT ![t] = v]
    /\ UNCHANGED <<next_transaction_id, opener, current_transaction, scopes, handed, pc,
                   heapVars, executor_messages, transactions, executor>>

\* join and the destructor of a JoinHandler.
Join(u, t) ==
    /\ Runs(u)
    /\ handler[t] = u
    /\ \E call \in {"join", "drop"} :
         pc' = [pc EXCEPT ![u] = [at |-> "locking", id |-> t, call |-> call]]
    /\ UNCHANGED <<userVars, heapVars, executor_messages, transactions, executor>>

-----------------------------------------------------------------------------
(* Waiter::wait.                                                           *)

\* Mutant of MutexFree: done notifies after its critical section.
MutexFreeEarly(t) == TRUE

\* The mutex of the Waiter of t is only held over a step in done.
MutexFree(t) == executor # In("unlocking", t)

\* The predicate is false: sleep, and release the mutex with it.
Sleep(u) ==
    /\ pc[u] # Running
    /\ pc[u].at = "locking"
    /\ MutexFree(pc[u].id)
    /\ ~already_done[pc[u].id]
    /\ pc' = [pc EXCEPT ![u].at = "asleep"]
    /\ UNCHANGED <<userVars, heapVars, executor_messages, transactions, executor>>

SpuriousWakeUp(u) ==
    /\ pc[u] # Running
    /\ pc[u].at = "asleep"
    /\ pc' = [pc EXCEPT ![u].at = "locking"]
    /\ UNCHANGED <<userVars, heapVars, executor_messages, transactions, executor>>

\* wait may return.
MayReturn(u, call) ==
    /\ pc[u] # Running
    /\ pc[u].at = "locking"
    /\ pc[u].call = call
    /\ MutexFree(pc[u].id)
    /\ already_done[pc[u].id]
    /\ pc' = [pc EXCEPT ![u] = Running]

ReturnFromJoin(u) ==
    /\ MayReturn(u, "join")
    /\ UNCHANGED <<userVars, heapVars, executor_messages, transactions, executor>>

\* Mutant of ReturnFromDrop: the message is left behind.
ReturnFromDropLeaking(u) ==
    /\ MayReturn(u, "drop")
    /\ handler' = [handler EXCEPT ![pc[u].id] = Nobody]
    /\ UNCHANGED <<next_transaction_id, opener, current_transaction, scopes, handed, inner,
                   message, already_done, executor_messages, transactions, executor>>

\* The JoinHandler deletes the message.
ReturnFromDrop(u) ==
    /\ MayReturn(u, "drop")
    /\ message' = [message EXCEPT ![pc[u].id] = Delete(@)]
    /\ handler' = [handler EXCEPT ![pc[u].id] = Nobody]
    /\ UNCHANGED <<next_transaction_id, opener, current_transaction, scopes, handed, inner,
                   already_done, executor_messages, transactions, executor>>

\* Mutant of ReturnFromClose: the InnerTransaction is left behind.
ReturnFromCloseLeaking(u) ==
    /\ MayReturn(u, "close")
    /\ message' = [message EXCEPT ![pc[u].id] = Delete(@)]
    /\ current_transaction' = [current_transaction EXCEPT ![u] = nullptr]
    /\ scopes' = [scopes EXCEPT ![u] = SubSeq(@, 1, Len(@) - 1)]
    /\ UNCHANGED <<next_transaction_id, opener, handler, handed, inner, already_done,
                   executor_messages, transactions, executor>>

\* start_updating deletes the message, the Transaction its InnerTransaction.
ReturnFromClose(u) ==
    /\ MayReturn(u, "close")
    /\ message' = [message EXCEPT ![pc[u].id] = Delete(@)]
    /\ inner' = [inner EXCEPT ![pc[u].id] = Delete(@)]
    /\ current_transaction' = [current_transaction EXCEPT ![u] = nullptr]
    /\ scopes' = [scopes EXCEPT ![u] = SubSeq(@, 1, Len(@) - 1)]
    /\ UNCHANGED <<next_transaction_id, opener, handler, handed, already_done,
                   executor_messages, transactions, executor>>

-----------------------------------------------------------------------------
(* The planner and the Executor.                                           *)

Proposals(t) ==
    {i \in 1 .. Len(executor_messages) : executor_messages[i] = [type |-> "Finalize", id |-> t]}

\* The planner knows t, and nothing older.
Propose(t) ==
    /\ t \in transactions
    /\ \A s \in 0 .. (t - 1) : already_done[s] /\ s \notin transactions
    /\ Cardinality(Proposals(t)) < MaxProposals
    /\ executor_messages' = Append(executor_messages, [type |-> "Finalize", id |-> t])
    /\ UNCHANGED <<userVars, pc, heapVars, transactions, executor>>

Receive(type) ==
    /\ executor = Popping
    /\ executor_messages # <<>>
    /\ Head(executor_messages).type = type
    /\ executor_messages' = Tail(executor_messages)

HandleRegister ==
    /\ Receive("Register")
    /\ UNCHANGED <<userVars, pc, heapVars, transactions, executor>>

HandleExecute ==
    /\ Receive("Execute")
    /\ transactions' = transactions \cup {Head(executor_messages).id}
    /\ UNCHANGED <<userVars, pc, heapVars, executor>>

\* The listeners are called, unless the transaction ended before.
HandleFinalize ==
    /\ Receive("Finalize")
    /\ executor' = LET t == Head(executor_messages).id
                   IN  IF t \in transactions THEN In("listeners", t) ELSE executor
    /\ UNCHANGED <<userVars, pc, heapVars, transactions>>

ListenersReturn ==
    /\ executor.at = "listeners"
    /\ pc[ExecutorThread] = Running
    /\ scopes[ExecutorThread] = <<>>
    /\ \A t \in Transactions : handler[t] # ExecutorThread
    /\ executor' = In("done", executor.id)
    /\ UNCHANGED <<userVars, pc, heapVars, executor_messages, transactions>>

\* Mutant of done: nobody is woken.
doneSilently ==
    /\ executor.at = "done"
    /\ already_done' = [already_done EXCEPT ![executor.id] = TRUE]
    /\ executor' = In("unlocking", executor.id)
    /\ UNCHANGED <<userVars, pc, inner, message, executor_messages, transactions>>

\* Waiter::done: under its mutex the flag is set and the sleepers are notified.
done ==
    /\ executor.at = "done"
    /\ already_done' = [already_done EXCEPT ![executor.id] = TRUE]
    /\ pc' = [u \in Threads |-> IF Waiting(u, executor.id)
                                THEN [pc[u] EXCEPT !.at = "locking"] ELSE pc[u]]
    /\ executor' = In("unlocking", executor.id)
    /\ UNCHANGED <<userVars, inner, message, executor_messages, transactions>>

Unlock ==
    /\ executor.at = "unlocking"
    /\ executor' = In("erasing", executor.id)
    /\ UNCHANGED <<userVars, pc, heapVars, executor_messages, transactions>>

\* The Executor forgets the transaction, and the planner is told.
Erase ==
    /\ executor.at = "erasing"
    /\ transactions' = transactions \ {executor.id}
    /\ executor' = Popping
    /\ UNCHANGED <<userVars, pc, heapVars, executor_messages>>

\* stop_execution ends the loop, whatever waits in the queue.
Stop ==
    /\ executor = Popping
    /\ executor' = [at |-> "stopped"]
    /\ UNCHANGED <<userVars, pc, heapVars, executor_messages, transactions>>

-----------------------------------------------------------------------------
Init ==
    /\ next_transaction_id = 0
    /\ opener = [t \in Transactions |-> Nobody]
    /\ current_transaction = [u \in Threads |-> nullptr]
    /\ scopes = [u \in Threads |-> <<>>]
    /\ handler = [t \in Transactions |-> Nobody]
    /\ handed = {}
    /\ pc = [u \in Threads |-> Running]
    /\ inner = [t \in Transactions |-> "none"]
    /\ message = [t \in Transactions |-> "none"]
    /\ already_done = [t \in Transactions |-> FALSE]
    /\ executor_messages = <<>>
    /\ transactions = {}
    /\ executor = Popping

ProgramStep(u) ==
    \/ OpenNested(u)
    \/ Open(u)
    \/ CloseNested(u)
    \/ Close(u)
    \/ \E i \in 1 .. Len(scopes[u]) : get_join_handler(u, i)
    \/ \E v \in Users, t \in Transactions : Move(u, v, t)
    \/ \E t \in Transactions : Join(u, t)

WaitStep(u) ==
    \/ Sleep(u)
    \/ ReturnFromJoin(u)
    \/ ReturnFromDrop(u)
    \/ ReturnFromClose(u)

ExecutorStep ==
    \/ HandleRegister
    \/ HandleExecute
    \/ HandleFinalize
    \/ done
    \/ Unlock
    \/ Erase

Next ==
    \/ \E u \in Threads : ProgramStep(u) \/ WaitStep(u) \/ SpuriousWakeUp(u)
    \/ \E t \in Transactions : Propose(t)
    \/ ExecutorStep
    \/ ListenersReturn
    \/ Stop

Spec == Init /\ [][Next]_vars

\* The library's threads run, and wait goes on when it can.  Nothing is assumed
\* of the program, its listeners included, of spurious wake-ups, or of a stop.
Fairness ==
    /\ \A u \in Threads : WF_vars(WaitStep(u))
    /\ WF_vars(\E t \in Transactions : Propose(t))
    /\ WF_vars(ExecutorStep)

FairSpec == Spec /\ Fairness

-----------------------------------------------------------------------------
\* The type of every variable (transaction.hpp:39-64 and 192-204,
\* executor.hpp:19-43, utils.hpp:72-76): what is freed was allocated, and is
\* freed once.
TypeOK ==
    /\ next_transaction_id \in 0 .. MaxTransactions
    /\ opener \in [Transactions -> Threads \cup {Nobody}]
    /\ current_transaction \in [Threads -> Transactions \cup {nullptr}]
    /\ scopes \in [Threads -> Seq(Transactions \cup {nullptr})]
    /\ handler \in [Transactions -> Threads \cup {Nobody}]
    /\ handed \subseteq Transactions
    /\ pc \in [Threads -> {Running} \cup Waits]
    /\ inner \in [Transactions -> Memory]
    /\ message \in [Transactions -> Memory]
    /\ already_done \in [Transactions -> BOOLEAN]
    /\ executor_messages \in Seq(MessageType)
    /\ transactions \subseteq Transactions
    /\ executor \in ExecutorPcs

\* Transaction t was created and its message is not sent yet.
IsOpen(t) == inner[t] = "alive" /\ message[t] = "none"

\* The Executor is going to use the message and the InnerTransaction of t.
ExecutorNeeds(t) ==
    \/ \E i \in 1 .. Len(executor_messages) :
         executor_messages[i] = [type |-> "Execute", id |-> t]
    \/ t \in transactions /\ executor # In("erasing", t)
    \/ executor \in {In("listeners", t), In("done", t), In("unlocking", t)}

\* Nothing is used after it is freed: a message lives as long as a thread waits
\* on it or a JoinHandler holds it, and like its InnerTransaction as long as the
\* Executor is going to use it, to the unlock of the Waiter that lets its owner
\* delete it (utils.cpp:11-15, transaction.cpp:107-113 and 169-172,
\* executor.cpp:158-161).
NoUseAfterFree ==
    /\ \A t \in Transactions :
         /\ ExecutorNeeds(t) => message[t] = "alive" /\ inner[t] = "alive"
         /\ handler[t] # Nobody => message[t] = "alive"
         /\ \A u \in Threads : Waiting(u, t) => message[t] = "alive"
    /\ \A u \in Threads : \A i \in 1 .. Len(scopes[u]) :
         scopes[u][i] # nullptr => inner[scopes[u][i]] = "alive"

\* What a running thread sends goes into a transaction it created itself, that
\* is not submitted, and that one Transaction object of its own will submit
\* (document.md:129-130, transaction.cpp:208-211): the Executor reads what is
\* registered there without a lock (transaction.cpp:136-145).
CurrentIsOwn ==
    \A u \in Threads : LET t == current_transaction[u]
                       IN  pc[u] = Running /\ t # nullptr =>
                             /\ IsOpen(t)
                             /\ opener[t] = u
                             /\ Cardinality({i \in 1 .. Len(scopes[u]) : scopes[u][i] = t}) = 1

\* A thread that waits for a transaction of its own has no older one open: the
\* wait would keep that one open, which would keep the other from ending.  Nested
\* Transaction objects and any order of joins are therefore harmless within a
\* thread (document.md:137).
NoSelfWait ==
    \A u \in Threads, s, t \in Transactions :
        Waiting(u, t) /\ opener[t] = u /\ opener[s] = u /\ s < t => ~IsOpen(s)

\* When a transaction is over and no object of the program stands for it, its
\* message is freed, by whichever of the two owners it had.  So is its
\* InnerTransaction, unless it went through a JoinHandler, which has no pointer to
\* it and leaves it behind (transaction.cpp:107-113, 169-172, 190-195 and 197-214).
Freed ==
    \A t \in Transactions :
        /\ already_done[t]
        /\ handler[t] = Nobody
        /\ \A u \in Threads : ~Waiting(u, t)
        => /\ message[t] = "deleted"
           /\ t \notin handed => inner[t] = "deleted"

\* A thread waits for ever only if an older transaction stays open for ever, if a
\* listener of one that is not younger never returns - as when it waits itself, on
\* the thread that would have to wake it -, or if the Executor was stopped
\* (transaction.cpp:107-113, utils.cpp:11-22, executor.cpp:158, thread.cpp:12-22).
WaitEnds ==
    \A u \in Threads, t \in Transactions :
        <>[]Waiting(u, t) =>
            \/ \E s \in 0 .. (t - 1) : <>[]IsOpen(s)
            \/ \E s \in 0 .. t : <>[](executor = In("listeners", s))
            \/ <>[](executor.at = "stopped")

=============================================================================
