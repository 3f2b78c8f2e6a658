---------------------------- MODULE MCOpenVoting ----------------------------
(* Instances of OpenVoting for TLC.                                         *)
EXTENDS OpenVoting

CONSTANTS n1, n2, n3

\* Distinct numbers.  n1 loses its seat in round 2; both votes of n2 are low.
Distinct ==
  [n \in Nodes |-> CASE n = n1 -> <<3, 6>> [] n = n2 -> <<1, 2>> [] n = n3 -> <<4, 5>>]

\* Two signatures of the first round sum to the same number.
WithTie ==
  [n \in Nodes |-> CASE n = n1 -> <<3, 6>> [] n = n2 -> <<3, 2>> [] n = n3 -> <<4, 5>>]
=============================================================================
