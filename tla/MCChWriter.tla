----------------------------- MODULE MCChWriter -----------------------------
(* Instances of ChWriter for TLC. *)
EXTENDS ChWriterInv, TLC

\* The two processes of a rolling update are interchangeable.
ProcSymmetry == Permutations(Procs)

\* What this repository's producers write always parses.
NoneMalformed == [s \in 1 .. NumStreams |-> {}]

\* A foreign entry in the second stream.
SecondMalformed == [s \in 1 .. NumStreams |-> IF s = 2 THEN {1} ELSE {}]
=============================================================================
