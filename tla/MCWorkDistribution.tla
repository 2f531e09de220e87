------------------------- MODULE MCWorkDistribution -------------------------
(* Small instances of WorkDistribution for TLC.                            *)
EXTENDS WorkDistribution, TLC

\* Two levels: a root board with two continuations.
Tree2Poss == {"r", "a", "b"}
Tree2Leaves == [p \in Tree2Poss |->
    CASE p = "r" -> {1, 2} [] p = "a" -> {1} [] p = "b" -> {2}]
Tree2Kids == [p \in Tree2Poss |-> IF p = "r" THEN {"a", "b"} ELSE {}]
Tree2Origin == {<<"r", "a">>, <<"r", "b">>}

\* Workers are interchangeable, and so are slots.
Symmetry == Permutations(Worker) \cup Permutations(Slot)

\* Each worker a client of its own.
OwnClient == [w \in Worker |-> w]
=============================================================================
