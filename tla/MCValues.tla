------------------------------- MODULE MCValues -------------------------------
(* Small graphs of cells and streams for TLC. *)
EXTENDS Values, TLC

Size == 8
Small == 0 .. (Size - 1)
Odd == {v \in Small : v % 2 = 1}

\* Tells the order and the values of its arguments apart.
Mix(n, args) == FoldFunction(LAMBDA x, y : (x + 3 * y + 1) % Size, 0, args)

\* A stream sink a and a cell sink x; an accumulator over a cell loop in
\* cluster 1; a gate and a filter of one stream merged in cluster 2; a lift of
\* both sides, and a snapshot of it accumulated over a stream loop, in cluster 3;
\* a GlobalCellLoop from there, in cluster 4, back to a snapshot in cluster 2.
MainOperation ==
    [a |-> "stream_sink", x |-> "cell_sink",
     acc |-> "cell_loop", sum |-> "snapshot", total |-> "hold", next |-> "cell_map",
     gated |-> "gate", odd |-> "filter", old |-> "snapshot", both |-> "merge",
     global |-> "global_cell_loop",
     pair |-> "lift", shown |-> "snapshot", fed |-> "stream_loop", kept |-> "hold"]
MainArgs ==
    [a |-> <<>>, x |-> <<>>,
     acc |-> <<"total">>, sum |-> <<"a", "acc">>, total |-> <<"sum">>, next |-> <<"acc">>,
     gated |-> <<"a", "x">>, odd |-> <<"a">>, old |-> <<"odd", "global">>,
     both |-> <<"gated", "old">>, global |-> <<"kept">>,
     pair |-> <<"total", "x">>, shown |-> <<"both", "pair", "kept">>,
     fed |-> <<"shown">>, kept |-> <<"fed">>]
MainCluster ==
    [a |-> 0, x |-> 0, acc |-> 1, sum |-> 1, total |-> 1, next |-> 1,
     gated |-> 2, odd |-> 2, old |-> 2, both |-> 2, global |-> 4, pair |-> 3, shown |-> 3, fed |-> 3, kept |-> 3]
MainClusterFeeds == {<<0, 1>>, <<0, 2>>, <<0, 3>>, <<1, 3>>, <<2, 3>>, <<4, 2>>, <<4, 3>>}
MainCloses ==
    ({"a", "acc", "sum", "total"} \X {"acc", "next"})
      \cup ((DOMAIN MainOperation \ {"next"}) \X {"fed", "kept"})
MainInitial == [x |-> 1, total |-> 0, kept |-> 2]
MainNodes == DOMAIN MainOperation

\* What is behind which looper in it: what the theorems on updates suppose of a graph,
\* and what the graphs below fail.
MainBehind ==
    [n \in MainNodes |-> CASE n \in {"acc", "next"} -> {"acc"}
                           [] n \in {"fed", "kept"} -> {"fed"}
                           [] OTHER -> {}]

ASSUME MainApart ==
    Operation = MainOperation =>
        LoopsApart(MainBehind) /\ LoopsClosed(MainBehind) /\ GlobalLoopsApart

\* The looper of an accumulator lifted with a cell.
LiftOperation ==
    [a |-> "stream_sink", x |-> "cell_sink", acc |-> "cell_loop", sum |-> "snapshot",
     total |-> "hold", pair |-> "lift"]
LiftArgs ==
    [a |-> <<>>, x |-> <<>>, acc |-> <<"total">>, sum |-> <<"a", "acc">>,
     total |-> <<"sum">>, pair |-> <<"acc", "x">>]
LiftCluster == [a |-> 0, x |-> 0, acc |-> 1, sum |-> 1, total |-> 1, pair |-> 1]
LiftClusterFeeds == {<<0, 1>>}
LiftCloses == {"a", "acc", "sum", "total"} \X {"acc", "pair"}
LiftInitial == [x |-> 1, total |-> 0]
LiftNodes == DOMAIN LiftOperation

\* The looper of a GlobalCellLoop in one cluster with its reader, its source in
\* the next.
AcrossOperation ==
    [a |-> "stream_sink", g |-> "global_cell_loop", sum |-> "snapshot", total |-> "hold"]
AcrossArgs == [a |-> <<>>, g |-> <<"total">>, sum |-> <<"a", "g">>, total |-> <<"sum">>]
AcrossCluster == [a |-> 0, g |-> 1, sum |-> 1, total |-> 2]
AcrossClusterFeeds == {<<0, 1>>, <<0, 2>>, <<1, 2>>}
AcrossCloses == {}
AcrossInitial == [total |-> 0]
AcrossNodes == DOMAIN AcrossOperation

=============================================================================
