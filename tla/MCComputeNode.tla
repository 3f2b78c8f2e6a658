--------------------------- MODULE MCComputeNode ---------------------------
(* Instances of ComputeNode for TLC.                                        *)
EXTENDS ComputeNode

CONSTANTS r1, r2, r3, t1, t2

\* A node may be chosen twice for a transaction: by its origin, as Compute
\* Node, and by another master, as verifier.
MCTxOf == [r \in Requests |-> IF r = r3 THEN t2 ELSE t1]
=============================================================================
