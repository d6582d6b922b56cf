------------------------------- MODULE Planner -------------------------------
(***************************************************************************)
(* The PlannerManager and its planner thread (planner.cpp).                *)
(*                                                                         *)
(* The manager keeps, oldest first, the state of every live transaction as *)
(* the Executor and the workers reported it.  It never touches a           *)
(* transaction: a planner thread reads those states and proposes work to   *)
(* the Executor.  Before it handles a message that changes a state the     *)
(* manager stops and joins the planner thread, and starts a new one after; *)
(* a Start message is handled while the planner thread may be running.     *)
(***************************************************************************)
EXTENDS Messages

CONSTANTS
    UseParallelExecution,  \* use_parallel_execution: which planner runs
    NoRank                 \* numeric_limits<ID>::max(): above every rank

ASSUME PlannerAssumption ==
    /\ UseParallelExecution \in BOOLEAN
    /\ NoRank \in Nat
    /\ \A r \in Ranks : r < NoRank

VARIABLES
    transaction_states,   \* the deque of TransactionState, front first
    manager,              \* the message the manager's thread holds while it joins
    stop_planning_needed, \* the flag the planner thread polls
    planner               \* the planner thread: program point and local variables

plannerVars == <<transaction_states, manager, stop_planning_needed, planner>>

TransactionState ==
    [transaction_id : Transactions, initialized : BOOLEAN,
     future : SUBSET Clusters, now : SUBSET Clusters, target_ranks : [Ranks -> Int]]

NewTransactionState(t) ==
    [transaction_id |-> t, initialized |-> FALSE,
     future |-> {}, now |-> {}, target_ranks |-> [r \in Ranks |-> 0]]

FrontId == transaction_states[1].transaction_id

\* The clusters of S that have rank r.
OfRank(S, r) == {c \in S : Rank[c] = r}

-----------------------------------------------------------------------------
(* The message handlers: the deque each one leaves.                        *)

\* handleStartMessage.  The deque holds consecutive IDs, so one state is added
\* for every ID after the last one, up to the ID of the message.
HandleStart(states, t) ==
    IF states = <<>>
      THEN <<NewTransactionState(t)>>
      ELSE LET last == states[Len(states)].transaction_id
           IN  states \o [k \in 1 .. (t - last) |-> NewTransactionState(last + k)]

\* Mutants of ApplyUpdate: a cluster leaves target_ranks when it starts, and a
\* cluster that starts is not entered in now.
ApplyUpdateCountsStarts(s, m) ==
    [s EXCEPT
       !.initialized = TRUE,
       !.future = (s.future \cup m.future) \ m.now,
       !.now = (s.now \cup m.now) \ m.finish,
       !.target_ranks =
          [r \in Ranks |-> s.target_ranks[r] + Cardinality(OfRank(m.future \ s.future, r))
                                             - Cardinality(OfRank(m.now, r))]]

ApplyUpdateForgetsNow(s, m) ==
    [s EXCEPT !.initialized = TRUE,
              !.future = (s.future \cup m.future) \ m.now,
              !.now = s.now \ m.finish]

\* The state of a transaction after the three loops of handleUpdateMessage:
\* additions to future, clusters that started, clusters that finished.
ApplyUpdate(s, m) ==
    LET added == m.future \ s.future
        started == (s.now \cup m.now)
        finished == m.finish \cap started
    IN  [s EXCEPT
           !.initialized = TRUE,
           !.future = (s.future \cup m.future) \ m.now,
           !.now = started \ m.finish,
           !.target_ranks =
              [r \in Ranks |-> s.target_ranks[r] + Cardinality(OfRank(added, r))
                                                 - Cardinality(OfRank(finished, r))]]

\* Whether the deque holds the transaction a message is about.
Holds(states, t) ==
    /\ states # <<>>
    /\ states[1].transaction_id <= t
    /\ t <= states[Len(states)].transaction_id

\* handleUpdateMessage: random access by ID, an unknown transaction is ignored.
HandleUpdate(states, m) ==
    IF Holds(states, m.id)
      THEN LET idx == m.id - states[1].transaction_id + 1
           IN  [states EXCEPT ![idx] = ApplyUpdate(states[idx], m)]
      ELSE states

\* Mutant of HandleFinish: the state is never removed.
HandleFinishKeeps(states, t) == states

\* handleFinishMessage: only the oldest transaction can be removed.
HandleFinish(states, t) ==
    IF states # <<>> /\ states[1].transaction_id = t THEN Tail(states) ELSE states

HandleMessage(states, m) ==
    CASE m.type = "Start" -> HandleStart(states, m.id)
      [] m.type = "Update" -> HandleUpdate(states, m)
      [] m.type = "Finish" -> HandleFinish(states, m.id)

\* Mutant of NeedRefresh: every message restarts the planner.
NeedRefreshAlways(m) == TRUE

\* The messages after which the planner must be restarted.
NeedRefresh(m) == m.type \in {"Update", "Finish"}

-----------------------------------------------------------------------------
(* The manager's thread.                                                   *)

Idle == [pc |-> "idle"]
Joining(m) == [pc |-> "joining", message |-> m]

\* A planner thread about to read its i-th transaction state, and one that has
\* the clusters todo of that state's future still to consider.
Stopped == [pc |-> "stopped"]
Visiting(i, target, used) ==
    [pc |-> "visiting", i |-> i, target |-> target, used |-> used]
Assigning(i, target, used, todo) ==
    [pc |-> "assigning", i |-> i, target |-> target, used |-> used, todo |-> todo]

StartPlanning == planner' = Visiting(1, NoRank, {})

\* start_loop, a message that needs no refresh: the planner keeps running.
ManagerStart ==
    /\ manager = Idle
    /\ planner_messages # <<>>
    /\ ~NeedRefresh(Head(planner_messages))
    /\ transaction_states' = HandleMessage(transaction_states, Head(planner_messages))
    /\ planner_messages' = Tail(planner_messages)
    /\ UNCHANGED <<executor_messages, manager, stop_planning_needed, planner>>

\* start_loop, any other message: stop_planning raises the flag, then joins.
ManagerStop ==
    /\ manager = Idle
    /\ planner_messages # <<>>
    /\ NeedRefresh(Head(planner_messages))
    /\ manager' = Joining(Head(planner_messages))
    /\ planner_messages' = Tail(planner_messages)
    /\ stop_planning_needed' = TRUE
    /\ UNCHANGED <<executor_messages, transaction_states, planner>>

\* The join returned: handle the message and start a new planner thread.
ManagerRefresh ==
    /\ manager.pc = "joining"
    /\ planner = Stopped
    /\ transaction_states' = HandleMessage(transaction_states, manager.message)
    /\ stop_planning_needed' = FALSE
    /\ manager' = Idle
    /\ StartPlanning
    /\ UNCHANGED <<executor_messages, planner_messages>>

-----------------------------------------------------------------------------
(* simple_planner: one cluster at a time, of the oldest transaction.       *)

\* Mutant of Least: the largest rank first.
LeastFromAbove(s, c) ==
    /\ c \in s.future
    /\ \A d \in s.future : Rank[d] <= Rank[c]

\* The cluster of smallest rank, and among those of smallest ID.
Least(s, c) ==
    /\ c \in s.future
    /\ s.target_ranks[Rank[c]] > 0
    /\ \A r \in Ranks : r < Rank[c] => s.target_ranks[r] = 0
    /\ \A d \in OfRank(s.future, Rank[c]) : c <= d

\* Mutant of SimpleMayPlan: whatever the transaction is updating already.
SimpleMayPlanWhileBusy ==
    /\ ~UseParallelExecution
    /\ planner.pc = "visiting"
    /\ transaction_states # <<>>
    /\ transaction_states[1].initialized

\* The oldest transaction, once the planner may assign clusters to it.
SimpleMayPlan ==
    /\ ~UseParallelExecution
    /\ planner.pc = "visiting"
    /\ transaction_states # <<>>
    /\ transaction_states[1].initialized
    /\ transaction_states[1].now = {}

SimpleFinalize ==
    /\ SimpleMayPlan
    /\ transaction_states[1].future = {}
    /\ PushExecutor(Finalize(FrontId))
    /\ planner' = Stopped
    /\ UNCHANGED <<planner_messages, transaction_states, manager, stop_planning_needed>>

SimpleAssign ==
    /\ SimpleMayPlan
    /\ \E c \in Clusters :
         /\ Least(transaction_states[1], c)
         /\ PushExecutor(StartUpdate(FrontId, c))
    /\ planner' = Stopped
    /\ UNCHANGED <<planner_messages, transaction_states, manager, stop_planning_needed>>

\* No transaction, one that is not initialized, or one that is updating a
\* cluster already: nothing to propose.
SimpleReturn ==
    /\ ~UseParallelExecution
    /\ planner.pc = "visiting"
    /\ ~SimpleMayPlan
    /\ planner' = Stopped
    /\ UNCHANGED <<executor_messages, planner_messages,
                   transaction_states, manager, stop_planning_needed>>

-----------------------------------------------------------------------------
(* rank_based_planner: one pass over the transactions, oldest first.       *)

\* The pass goes on only while it is not told to stop, there is a next
\* transaction, and that one is initialized.
CanVisit ==
    /\ ~stop_planning_needed
    /\ planner.i <= Len(transaction_states)
    /\ transaction_states[planner.i].initialized

RankReturn ==
    /\ UseParallelExecution
    /\ planner.pc = "visiting"
    /\ ~CanVisit
    /\ planner' = Stopped
    /\ UNCHANGED <<executor_messages, planner_messages,
                   transaction_states, manager, stop_planning_needed>>

\* Mutant of RankVisit: the clusters being updated bar none of the younger.
RankVisitIgnoringNow ==
    /\ UseParallelExecution
    /\ planner.pc = "visiting"
    /\ CanVisit
    /\ planner' = Assigning(planner.i, planner.target, planner.used,
                            transaction_states[planner.i].future)
    /\ UNCHANGED <<executor_messages, planner_messages,
                   transaction_states, manager, stop_planning_needed>>

\* The loop over now.  used keeps only the clusters of rank target: the others
\* are never consulted, because target only decreases.
RankVisit ==
    /\ UseParallelExecution
    /\ planner.pc = "visiting"
    /\ CanVisit
    /\ LET s == transaction_states[planner.i]
           lower == {r \in Ranks : r < planner.target /\ OfRank(s.now, r) # {}}
       IN  \E target \in lower \cup {planner.target} :
             /\ \A r \in lower : target <= r
             /\ planner' = Assigning(planner.i, target,
                                     (IF target = planner.target THEN planner.used ELSE {})
                                       \cup OfRank(s.now, target),
                                     s.future)
    /\ UNCHANGED <<executor_messages, planner_messages,
                   transaction_states, manager, stop_planning_needed>>

\* The next cluster of future, in the order of the IDs.
IsNext(c) == c \in planner.todo /\ \A d \in planner.todo : c <= d

\* Mutant of RankAssign: a rank above the target is no reason to wait.
RankAssignAboveTarget ==
    /\ planner.pc = "assigning"
    /\ \E c \in Clusters :
         /\ IsNext(c)
         /\ c \notin planner.used
         /\ PushExecutor(StartUpdate(transaction_states[planner.i].transaction_id, c))
         /\ planner' = Assigning(planner.i, planner.target, planner.used \cup {c},
                                 planner.todo \ {c})
    /\ UNCHANGED <<planner_messages, transaction_states, manager, stop_planning_needed>>

\* One turn of the loop over future that proposes cluster c ...
RankAssign ==
    /\ planner.pc = "assigning"
    /\ \E c \in Clusters :
         /\ IsNext(c)
         /\ Rank[c] <= planner.target
         /\ Rank[c] < planner.target \/ c \notin planner.used
         /\ PushExecutor(StartUpdate(transaction_states[planner.i].transaction_id, c))
         /\ planner' = Assigning(planner.i, Rank[c],
                                 (IF Rank[c] < planner.target THEN {} ELSE planner.used)
                                   \cup {c},
                                 planner.todo \ {c})
    /\ UNCHANGED <<planner_messages, transaction_states, manager, stop_planning_needed>>

\* ... and one that passes it over: its rank is above the target, or an older
\* transaction may still use it.
RankSkip ==
    /\ planner.pc = "assigning"
    /\ \E c \in Clusters :
         /\ IsNext(c)
         /\ \/ planner.target < Rank[c]
            \/ planner.target = Rank[c] /\ c \in planner.used
         /\ planner' = [planner EXCEPT !.todo = planner.todo \ {c}]
    /\ UNCHANGED <<executor_messages, planner_messages,
                   transaction_states, manager, stop_planning_needed>>

\* Mutant of RankNext: any transaction may be finalized.
RankNextFinalizesAny ==
    /\ planner.pc = "assigning"
    /\ planner.todo = {}
    /\ LET s == transaction_states[planner.i]
       IN  IF s.future = {} /\ s.now = {}
             THEN PushExecutor(Finalize(s.transaction_id))
             ELSE UNCHANGED executor_messages
    /\ planner' = Visiting(planner.i + 1, planner.target, planner.used)
    /\ UNCHANGED <<planner_messages, transaction_states, manager, stop_planning_needed>>

\* The end of a turn of the outer loop: the oldest transaction is proposed for
\* finalization when nothing of it is left.
RankNext ==
    /\ planner.pc = "assigning"
    /\ planner.todo = {}
    /\ LET s == transaction_states[planner.i]
       IN  IF planner.i = 1 /\ s.future = {} /\ s.now = {}
             THEN PushExecutor(Finalize(s.transaction_id))
             ELSE UNCHANGED executor_messages
    /\ planner' = Visiting(planner.i + 1, planner.target, planner.used)
    /\ UNCHANGED <<planner_messages, transaction_states, manager, stop_planning_needed>>

-----------------------------------------------------------------------------
PlannerInit ==
    /\ transaction_states = <<>>
    /\ manager = Idle
    /\ stop_planning_needed = FALSE
    /\ planner = Stopped

ManagerStep == ManagerStart \/ ManagerStop \/ ManagerRefresh

PlannerStep ==
    \/ SimpleFinalize \/ SimpleAssign \/ SimpleReturn
    \/ RankReturn \/ RankVisit \/ RankAssign \/ RankSkip \/ RankNext

=============================================================================
