---------------------------- MODULE MCMessaging ----------------------------
(* An instance of Messaging for TLC.                                        *)
EXTENDS Messaging

CONSTANTS n1, n2, m1

\* A message on a channel that its sender listens to as well.
MCSender == [m \in Messages |-> n1]
MCListeners == [m \in Messages |-> Nodes]
=============================================================================
