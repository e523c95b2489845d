------------------------------- MODULE MCLog -------------------------------
(* An instance of Log for TLC with more blocks than the header has room for. *)
EXTENDS Log, TLC

CONSTANTS p1, p2, p3, b1, b2, b3

\* Two processes write the same two blocks; the third fills the header with
\* blocks of its own, whose contents do not matter.
MCWrites == [p \in Proc |-> IF p = p3 THEN {b3} \X {0} ELSE {b1, b2} \X {0, 1}]

MCInit == Init /\ disk[b3] = 0

MCSpec == MCInit /\ [][Next]_vars /\ Fairness
=============================================================================
