------------------------------ MODULE MCEngine ------------------------------
(* Small dependency graphs for TLC. *)
EXTENDS Engine

\* 1 -> 2 -> 3 and 1 -> 3: the shape on which a glitch shows.
GlitchClusters == 1 .. 3
GlitchEdges == {<<1, 2>>, <<2, 3>>, <<1, 3>>}
GlitchRank == [c \in GlitchClusters |-> c]

\* The same, numbered the other way round.
ReversedEdges == {<<3, 2>>, <<2, 1>>, <<3, 1>>}
ReversedRank == [c \in GlitchClusters |-> 4 - c]

\* 1 -> 3 <- 2: two clusters of the same rank.
JoinEdges == {<<1, 3>>, <<2, 3>>}
JoinRank == <<1, 1, 2>>

\* The same, with a looper in 1 and clusters numbered the other way round.
LoopEdges == {<<3, 1>>, <<2, 1>>}
LoopRank == <<2, 1, 1>>

\* The hypotheses of the theorems on priorities hold of these graphs: ranks agree
\* with the edges of each, and IDs with those of the first.
ASSUME GlitchRankOrder == RankOrder
ASSUME GlitchIdOrder == Edges = GlitchEdges => IdOrder

=============================================================================
