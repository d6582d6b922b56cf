------------------------------ MODULE Sequential ------------------------------
(***************************************************************************)
(* What cells, streams and transactions mean to a user: one transaction    *)
(* after the other, and in each of them the whole graph at once.  Only the *)
(* loopers of GlobalCellLoops are older: a transaction sees in them what   *)
(* their sources were when it was opened.                                  *)
(***************************************************************************)
EXTENDS ValueGraph

VARIABLES
    count,    \* number of transactions so far
    current,  \* the value of each cell, Absent for streams
    heard,    \* per node, what its listeners were told: transaction and value
    views     \* what each transaction that is opened and not yet over sees in the loopers

\* The value of a cell, of those that nodes take now and that they had.
Latest(c, new, old) == IF new[c] # Absent THEN new[c] ELSE old[c]

\* What node n sees of a cell it does not listen to: GlobalCellLoops and the loops
\* that n closes are as they were before.
Seen(n, c, new, old, view) ==
    IF c \in GlobalLoopers THEN view[c]
    ELSE IF <<n, c>> \in Closes THEN old[c] ELSE Latest(c, new, old)

Apply(n, args) == IF Absent \in Range(args) THEN Absent ELSE UserFunction(n, args)

\* The value node n takes when the others take new and users send inputs, or Absent.
Taken(n, new, old, inputs, view) ==
    LET args == Args[n]
        see(i) == Seen(n, args[i], new, old, view)
    IN  IF n \in DOMAIN inputs THEN inputs[n]
        ELSE CASE n \in Sinks \cup GlobalLoopers -> Absent
               [] Operation[n] \in {"cell_map", "stream_map"} -> Apply(n, <<new[args[1]]>>)
               [] Operation[n] = "lift" ->
                    IF \A m \in Range(args) : new[m] = Absent THEN Absent
                    ELSE Apply(n, [i \in DOMAIN args |-> Latest(args[i], new, old)])
               [] Operation[n] \in {"hold", "cell_loop", "stream_loop"} -> new[args[1]]
               [] Operation[n] = "snapshot" ->
                    IF new[args[1]] = Absent THEN Absent
                    ELSE Apply(n, [i \in DOMAIN args |-> IF i = 1 THEN new[args[1]] ELSE see(i)])
               [] Operation[n] = "merge" ->
                    IF new[args[1]] = Absent THEN new[args[2]]
                    ELSE IF new[args[2]] = Absent THEN new[args[1]]
                    ELSE Apply(n, <<new[args[1]], new[args[2]]>>)
               [] Operation[n] = "filter" ->
                    IF Apply(n, <<new[args[1]]>>) \in TrueValues THEN new[args[1]] ELSE Absent
               [] Operation[n] = "gate" -> IF see(2) \in TrueValues THEN new[args[1]] ELSE Absent

\* What all nodes take, each from those it reads.
Outcome(inputs, view) ==
    LET new[n \in Nodes] == Taken(n, new, current, inputs, view) IN new

\* A transaction is opened.
Open ==
    /\ count > 0
    /\ views' = Append(views, [g \in GlobalLoopers |-> current[Args[g][1]]])
    /\ UNCHANGED <<count, current, heard>>

Transact(inputs) ==
    LET new == Outcome(inputs, Head(views))
    IN  /\ count' = count + 1
        /\ current' = [n \in Nodes |-> IF n \in Cells /\ new[n] # Absent
                                       THEN new[n] ELSE current[n]]
        /\ heard' = [n \in Nodes |-> IF new[n] # Absent
                                     THEN Append(heard[n], <<count, new[n]>>) ELSE heard[n]]
        /\ views' = Tail(views)

Init ==
    /\ count = 0
    /\ current = [n \in Nodes |-> Absent]
    /\ heard = [n \in Nodes |-> <<>>]
    /\ views = <<[g \in GlobalLoopers |-> Absent]>>

\* The build gives cells their initial values, then users send to sinks.
Next ==
    \/ count = 0 /\ Transact(Initial)
    \/ Open
    \/ /\ count > 0
       /\ views # <<>>
       /\ \E sent \in SUBSET Sinks : \E inputs \in [sent -> Sent] : Transact(inputs)

Spec == Init /\ [][Next]_<<count, current, heard, views>>

=============================================================================
