----------------------------- MODULE CommandLog -----------------------------
(***************************************************************************)
(* What the Storage Node promises about state change commands: a command   *)
(* that was accepted is executed once, and commands on the same key are    *)
(* executed in the order of their timestamps among the ones accepted.      *)
(***************************************************************************)
EXTENDS Naturals, Sequences

CONSTANTS
  Commands,   \* state change commands
  KeyOf,      \* KeyOf[c]: what the command is queued under
  Timestamp   \* Timestamp[c]: when its sender sent it

VARIABLES
  accepted,   \* the commands received and not executed yet
  log         \* the commands executed, in order

Init == accepted = {} /\ log = <<>>

Done == {log[i] : i \in 1..Len(log)}

Accept(c) ==
  /\ c \notin accepted \cup Done
  /\ accepted' = accepted \cup {c}
  /\ UNCHANGED log

Execute(c) ==
  /\ c \in accepted
  /\ \A d \in accepted : KeyOf[d] = KeyOf[c] => Timestamp[c] <= Timestamp[d]
  /\ accepted' = accepted \ {c}
  /\ log' = Append(log, c)

Next == \E c \in Commands : Accept(c) \/ Execute(c)

Spec == Init /\ [][Next]_<<accepted, log>>
=============================================================================
