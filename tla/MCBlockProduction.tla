------------------------- MODULE MCBlockProduction -------------------------
(* Instances of BlockProduction for TLC.                                    *)
EXTENDS BlockProduction

CONSTANTS m1, m2, t1, t2

TwoProducers == <<m1, m2>>

\* Both transactions are stamped in the same second, after the election.
MCTxTime == [t \in Txs |-> ElectionTime + 1]
=============================================================================
