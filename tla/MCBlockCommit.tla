--------------------------- MODULE MCBlockCommit ---------------------------
(* Instances of BlockCommit for TLC.                                        *)
EXTENDS BlockCommit

CONSTANTS b1, b2, b3, m1, m2, t1, t2

MCNumberOf == [b \in Blocks |-> CASE b = b1 -> 1 [] b = b2 -> 2 [] b = b3 -> 3]

MCProducer == [b \in Blocks |-> IF b = b2 THEN m2 ELSE m1]

\* A block of two transactions, and blocks of none.
MCTxsOf == [b \in Blocks |-> IF b = b1 THEN <<t1, t2>> ELSE <<>>]
=============================================================================
