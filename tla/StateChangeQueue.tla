-------------------------- MODULE StateChangeQueue --------------------------
(***************************************************************************)
(* The Storage Node's state change queues.  onStateChange parses a message *)
(* and pushes each command on the priority queue of its key, creating the  *)
(* queue and its worker thread when there is none.  The worker copies the  *)
(* top under the lock, executes it without the lock, and pops under the    *)
(* lock again; a worker whose queue stays empty for two seconds removes    *)
(* the queue and ends.                                                     *)
(*                                                                         *)
(* Sources: StorageNode/StorageNode.cpp, StorageNode/Command.h.            *)
(***************************************************************************)
EXTENDS Naturals, Sequences, FiniteSets

CONSTANTS
  Commands,   \* state change commands
  KeyOf,      \* KeyOf[c]: tenant and entity, or tenant and command index
  Timestamp,  \* Timestamp[c]: the "tm" field of the message it came in
  NoCommand,  \* a worker that holds no command
  InOrder     \* TRUE: the commands on a key arrive in timestamp order

ASSUME CommandsAssumption ==
  /\ Timestamp \in [Commands -> Nat] /\ DOMAIN KeyOf = Commands
  /\ InOrder \in BOOLEAN /\ NoCommand \notin Commands

Keys == {KeyOf[c] : c \in Commands}

VARIABLES
  arrived,   \* the commands onStateChange has seen
  queueMap,  \* the keys of stateChangeQueueMap
  queue,     \* per key, the commands in its priority queue
  pc,        \* per key, where its worker is: "none", "poll", "execute", "pop"
  top,       \* per key, the worker's copy of the top command
  executed,  \* the commands executed, in order
  popped     \* the commands removed from a queue

vars == <<arrived, queueMap, queue, pc, top, executed, popped>>

\* Types of the queues' state.
TypeOK ==
  /\ arrived \subseteq Commands /\ popped \subseteq Commands
  /\ queueMap \subseteq Keys
  /\ queue \in [Keys -> SUBSET Commands]
  /\ pc \in [Keys -> {"none", "poll", "execute", "pop"}]
  /\ top \in [Keys -> Commands \cup {NoCommand}]
  /\ executed \in Seq(Commands)

Init ==
  /\ arrived = {} /\ queueMap = {} /\ popped = {} /\ executed = <<>>
  /\ queue = [k \in Keys |-> {}]
  /\ pc = [k \in Keys |-> "none"]
  /\ top = [k \in Keys |-> NoCommand]

-----------------------------------------------------------------------------
\* Mutant: std::less, the default comparator, puts the latest on top.
Tops_Latest(q) == {c \in q : \A d \in q : Timestamp[c] >= Timestamp[d]}

\* The commands a priority queue may have at its top (OrderByTimeStamp): the
\* order of equal timestamps is not defined.
Tops(q) == {c \in q : \A d \in q : Timestamp[c] <= Timestamp[d]}

ArrivesInOrder(c) ==
  \A d \in arrived : KeyOf[d] = KeyOf[c] => Timestamp[d] <= Timestamp[c]

\* One iteration of onStateChange's loop, under stateUpdateMutex.
onStateChange(c) ==
  LET k == KeyOf[c]
  IN /\ c \notin arrived
     /\ InOrder => ArrivesInOrder(c)
     /\ arrived' = arrived \cup {c}
     /\ IF k \in queueMap
        THEN /\ queue' = [queue EXCEPT ![k] = @ \cup {c}]
             /\ UNCHANGED <<queueMap, pc>>
        ELSE /\ queue' = [queue EXCEPT ![k] = {c}]
             /\ queueMap' = queueMap \cup {k}
             /\ pc' = [pc EXCEPT ![k] = "poll"]
     /\ UNCHANGED <<top, executed, popped>>

\* processStateUpdates, first critical section.
takeTop(k) ==
  /\ pc[k] = "poll" /\ queue[k] # {}
  /\ \E c \in Tops(queue[k]) : top' = [top EXCEPT ![k] = c]
  /\ pc' = [pc EXCEPT ![k] = "execute"]
  /\ UNCHANGED <<arrived, queueMap, queue, executed, popped>>

\* Mutant: the worker ends and leaves its queue in the map.
removeQueue_KeepsKey(k) ==
  /\ pc[k] = "poll" /\ queue[k] = {}
  /\ pc' = [pc EXCEPT ![k] = "none"]
  /\ UNCHANGED <<arrived, queueMap, queue, top, executed, popped>>

\* The queue was empty for two seconds: how long is up to the scheduler.
removeQueue(k) ==
  /\ pc[k] = "poll" /\ queue[k] = {}
  /\ queueMap' = queueMap \ {k}
  /\ pc' = [pc EXCEPT ![k] = "none"]
  /\ UNCHANGED <<arrived, queue, top, executed, popped>>

executeStateChangeCommand(k) ==
  /\ pc[k] = "execute"
  /\ executed' = Append(executed, top[k])
  /\ pc' = [pc EXCEPT ![k] = "pop"]
  /\ UNCHANGED <<arrived, queueMap, queue, top, popped>>

\* processStateUpdates, second critical section: whatever is on top by now
\* goes.  A command pushed meanwhile replaces the top only when its timestamp
\* is smaller.
popTop(k) ==
  /\ pc[k] = "pop"
  /\ \E c \in Tops(queue[k]) :
       /\ top[k] \in Tops(queue[k]) => c = top[k]
       /\ queue' = [queue EXCEPT ![k] = @ \ {c}]
       /\ popped' = popped \cup {c}
  /\ pc' = [pc EXCEPT ![k] = "poll"]
  /\ top' = [top EXCEPT ![k] = NoCommand]
  /\ UNCHANGED <<arrived, queueMap, executed>>

Worker(k) == takeTop(k) \/ executeStateChangeCommand(k) \/ popTop(k)

Next == \/ \E c \in Commands : onStateChange(c)
        \/ \E k \in Keys : Worker(k) \/ removeQueue(k)

Spec == Init /\ [][Next]_vars

\* A worker thread runs on as long as there is work for it.
FairSpec == Spec /\ \A k \in Keys : WF_vars(Worker(k))

-----------------------------------------------------------------------------
(* Properties.                                                              *)

Done == {executed[i] : i \in 1..Len(executed)}

\* With commands that arrive in timestamp order, the queues keep what
\* CommandLog promises: every command once, in timestamp order per key.  The
\* command a worker has executed but not popped is no longer accepted.
Promise == INSTANCE CommandLog WITH
  accepted <- UNION {queue[k] \ (IF pc[k] = "pop" THEN {top[k]} ELSE {}) : k \in Keys},
  log <- executed

KeepsPromise == Promise!Spec

\* With commands that arrive in timestamp order (InOrder), each one that was
\* received is executed at some time, also when it comes while the worker is about
\* to remove its queue.
CommandIsExecuted == \A c \in Commands : c \in arrived ~> c \in Done

\* A command leaves its queue only after it was executed, also when commands come
\* in another order than that of their timestamps ("Process all pending status
\* updates", StorageNode.cpp:1148).
PoppedIsExecuted == popped \subseteq Done
=============================================================================
