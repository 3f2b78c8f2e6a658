-------------------------- MODULE MCTxVerification --------------------------
(* Instances of TxVerification for TLC.                                     *)
EXTENDS TxVerification, TLC

CONSTANTS m1, m2, m3, m4, t1, t2, sn

\* The client of t1 is connected to m1, that of t2 to m4, outside m21.
MCOrigin == [t \in Txs |-> IF t = t2 THEN m4 ELSE m1]

AllNodes == Verifiers \cup {sn}

\* The masters that are not an origin, and the verifiers, are interchangeable.
Symmetry == Permutations({m2, m3}) \cup Permutations(Verifiers)
=============================================================================
