----------------------------- MODULE Messaging -----------------------------
(***************************************************************************)
(* How nodes exchange messages.  gossip puts the body in the DHT under a   *)
(* nonce and announces the nonce on a channel, trying up to three times.   *)
(* A node that listens to the channel fetches the body and handles it in a *)
(* thread of its own, which drops the node's own messages, those older     *)
(* than the node's start, and those it has seen before.  A node that       *)
(* starts is given the announcements the channel still holds.              *)
(*                                                                         *)
(* Source: BlockChainCommon/functions.cpp, StorageNode/StorageNode.cpp     *)
(* (the order in which a node boots).  OpenDHT is external.                *)
(***************************************************************************)
EXTENDS Naturals, FiniteSets

CONSTANTS
  Nodes,
  Messages,      \* by their msgid
  Sender,        \* Sender[m]: the node that gossips m
  Listeners,     \* Listeners[m]: the nodes subscribed to the channel of m
  RestartTime,   \* the seconds a node needs to come back, at least
  BodyLifetime,  \* the seconds a body is kept in the DHT, at least
  MaxTime,       \* bound on the clock
  MaxFailures,   \* bound on the announcements that fail
  MaxStops       \* bound on the times nodes stop

ASSUME MessagingAssumption ==
  /\ Sender \in [Messages -> Nodes] /\ Listeners \in [Messages -> SUBSET Nodes]
  /\ {RestartTime, BodyLifetime, MaxTime, MaxFailures, MaxStops} \subseteq Nat

VARIABLES
  now,        \* seconds; the clocks of the nodes agree
  sentAt,     \* per message, its "tm" field, or Unsent
  body,       \* per message, its body in the DHT: "none", "putting", "stored", "gone"
  try,        \* per message, the announcement under way: 1, 2, 3, or 0 for none
  channel,    \* announcements the DHT holds
  pending,    \* per node, announcements the DHT is about to deliver
  threads,    \* per node and message, the threads of processIncomingData
  state,      \* per node: "ready", "booting" (without data handlers), "down"
  startup,    \* per node, appStartupTime; while it is down, the time it stopped
  processed,  \* per node, processedMessages
  handled,    \* per node and message, how often a data handler was called
  passedBy,   \* pairs of a node and a message that the node was not there for,
              \* or whose body was not there when it was fetched
  failures,   \* announcements that failed so far
  stops       \* nodes that stopped so far

vars == <<now, sentAt, body, try, channel, pending, threads, state, startup,
          processed, handled, passedBy, failures, stops>>
sendVars == <<sentAt, body, try, channel>>
nodeVars == <<pending, threads, state, startup, processed, handled>>
boundVars == <<now, failures, stops>>

Unsent == MaxTime + 1
Sent == {m \in Messages : sentAt[m] # Unsent}
MaxTries == 3

\* Types of the messages' state.
TypeOK ==
  /\ now \in 0..MaxTime /\ failures \in 0..MaxFailures /\ stops \in 0..MaxStops
  /\ sentAt \in [Messages -> 0..Unsent]
  /\ body \in [Messages -> {"none", "putting", "stored", "gone"}]
  /\ try \in [Messages -> 0..MaxTries] /\ channel \subseteq Messages
  /\ pending \in [Nodes -> SUBSET Messages] /\ processed \in [Nodes -> SUBSET Messages]
  /\ threads \in [Nodes -> [Messages -> Nat]] /\ handled \in [Nodes -> [Messages -> Nat]]
  /\ state \in [Nodes -> {"ready", "booting", "down"}] /\ startup \in [Nodes -> 0..MaxTime]
  /\ passedBy \subseteq Nodes \X Messages

Init ==
  /\ now = 0 /\ failures = 0 /\ stops = 0
  /\ sentAt = [m \in Messages |-> Unsent] /\ body = [m \in Messages |-> "none"]
  /\ try = [m \in Messages |-> 0] /\ channel = {}
  /\ pending = [n \in Nodes |-> {}] /\ processed = [n \in Nodes |-> {}]
  /\ threads = [n \in Nodes |-> [m \in Messages |-> 0]]
  /\ handled = [n \in Nodes |-> [m \in Messages |-> 0]]
  /\ state = [n \in Nodes |-> "ready"] /\ startup = [n \in Nodes |-> 0]
  /\ passedBy = {}

-----------------------------------------------------------------------------
(* The sender.                                                              *)

\* The put of the body is under way, and so is the first announcement.
gossip(m) ==
  /\ sentAt[m] = Unsent /\ state[Sender[m]] = "ready"
  /\ sentAt' = [sentAt EXCEPT ![m] = now]
  /\ body' = [body EXCEPT ![m] = "putting"]
  /\ try' = [try EXCEPT ![m] = 1]
  /\ passedBy' = passedBy \cup ({n \in Nodes : state[n] # "ready"} \X {m})
  /\ UNCHANGED <<channel, nodeVars, boundVars>>

dhtPut(m) ==
  /\ body[m] = "putting"
  /\ body' = [body EXCEPT ![m] = "stored"]
  /\ UNCHANGED <<sentAt, try, channel, nodeVars, passedBy, boundVars>>

\* The announcement reaches the nodes that listen.
Announce(m) ==
  /\ channel' = channel \cup {m}
  /\ pending' = [n \in Nodes |-> IF n \in Listeners[m] /\ state[n] # "down"
                                 THEN pending[n] \cup {m} ELSE pending[n]]
  /\ UNCHANGED <<threads, state, startup, processed, handled>>

\* putSigned, done with ok.
announced(m) ==
  /\ try[m] # 0
  /\ Announce(m)
  /\ try' = [try EXCEPT ![m] = 0]
  /\ UNCHANGED <<sentAt, body, passedBy, boundVars>>

\* Mutant: one retry.
sendMessageWithRetry_Once(m) ==
  /\ try[m] # 0 /\ failures < MaxFailures
  /\ failures' = failures + 1
  /\ try' = [try EXCEPT ![m] = IF @ < 2 THEN @ + 1 ELSE 0]
  /\ UNCHANGED <<sentAt, body, channel, nodeVars, passedBy, now, stops>>

\* putSigned, done without ok: it is tried again, and given up the third time.
\* The announcement may have reached the channel all the same.
sendMessageWithRetry(m) ==
  /\ try[m] # 0 /\ failures < MaxFailures
  /\ failures' = failures + 1
  /\ try' = [try EXCEPT ![m] = IF @ < MaxTries THEN @ + 1 ELSE 0]
  /\ Announce(m) \/ UNCHANGED <<channel, nodeVars>>
  /\ UNCHANGED <<sentAt, body, passedBy, now, stops>>

expire(m) ==
  /\ body[m] = "stored" /\ now > sentAt[m] + BodyLifetime
  /\ body' = [body EXCEPT ![m] = "gone"]
  /\ UNCHANGED <<sentAt, try, channel, nodeVars, passedBy, boundVars>>

-----------------------------------------------------------------------------
(* The receivers.                                                           *)

\* dataHandler: the body is fetched; when it is not there, that is the end.
dataHandler(n, m) ==
  /\ m \in pending[n] /\ state[n] # "down"
  /\ pending' = [pending EXCEPT ![n] = @ \ {m}]
  /\ IF body[m] = "stored"
     THEN threads' = [threads EXCEPT ![n][m] = @ + 1] /\ UNCHANGED passedBy
     ELSE passedBy' = passedBy \cup {<<n, m>>} /\ UNCHANGED threads
  /\ UNCHANGED <<sendVars, state, startup, processed, handled, boundVars>>

\* Mutant: messages from before the node's start are taken.
dropped_NotOld(n, m) == Sender[m] = n \/ m \in processed[n]

\* The node's own message, one from before its start, or one it has seen.
dropped(n, m) == Sender[m] = n \/ startup[n] > sentAt[m] \/ m \in processed[n]

\* The thread: the message is marked as seen, then its handler is looked up.
\* A node that is booting finds none.
processIncomingData(n, m) ==
  /\ threads[n][m] > 0
  /\ threads' = [threads EXCEPT ![n][m] = @ - 1]
  /\ processed' = IF dropped(n, m) THEN processed
                  ELSE [processed EXCEPT ![n] = @ \cup {m}]
  /\ handled' = IF dropped(n, m) \/ state[n] = "booting" THEN handled
                ELSE [handled EXCEPT ![n][m] = @ + 1]
  /\ UNCHANGED <<sendVars, pending, state, startup, passedBy, boundVars>>

\* A node stops: its threads, its retries and what it has seen are gone.
stop(n) ==
  /\ state[n] # "down" /\ stops < MaxStops
  /\ stops' = stops + 1
  /\ state' = [state EXCEPT ![n] = "down"] /\ startup' = [startup EXCEPT ![n] = now]
  /\ pending' = [pending EXCEPT ![n] = {}] /\ processed' = [processed EXCEPT ![n] = {}]
  /\ threads' = [threads EXCEPT ![n] = [m \in Messages |-> 0]]
  /\ try' = [m \in Messages |-> IF Sender[m] = n THEN 0 ELSE try[m]]
  /\ body' = [m \in Messages |-> IF Sender[m] = n /\ body[m] = "putting"
                                 THEN "gone" ELSE body[m]]
  /\ passedBy' = passedBy \cup ({n} \X Sent) \cup (Nodes \X {m \in Sent : Sender[m] = n})
  /\ UNCHANGED <<sentAt, channel, handled, now, failures>>

\* The node listens again, and is given what the channel holds.
start(n) ==
  /\ state[n] = "down" /\ now >= startup[n] + RestartTime
  /\ state' = [state EXCEPT ![n] = "booting"] /\ startup' = [startup EXCEPT ![n] = now]
  /\ pending' = [pending EXCEPT ![n] = {m \in channel : n \in Listeners[m]}]
  /\ UNCHANGED <<sendVars, threads, processed, handled, passedBy, boundVars>>

registerDataHandlers(n) ==
  /\ state[n] = "booting"
  /\ state' = [state EXCEPT ![n] = "ready"]
  /\ UNCHANGED <<sendVars, pending, threads, startup, processed, handled, passedBy, boundVars>>

tick ==
  /\ now < MaxTime
  /\ now' = now + 1
  /\ UNCHANGED <<sendVars, nodeVars, passedBy, failures, stops>>

Send(m) == dhtPut(m) \/ announced(m) \/ sendMessageWithRetry(m)

Next ==
  \/ \E m \in Messages : gossip(m) \/ Send(m) \/ expire(m)
  \/ \E n \in Nodes, m \in Messages : dataHandler(n, m) \/ processIncomingData(n, m)
  \/ \E n \in Nodes : stop(n) \/ start(n) \/ registerDataHandlers(n)
  \/ tick

\* The DHT finishes what was put and delivers what was announced, and threads
\* run.  Nothing makes a node send, stop or start.
Spec ==
  /\ Init /\ [][Next]_vars
  /\ \A m \in Messages : WF_vars(dhtPut(m)) /\ WF_vars(announced(m) \/ sendMessageWithRetry(m))
  /\ \A n \in Nodes, m \in Messages :
       WF_vars(dataHandler(n, m)) /\ WF_vars(processIncomingData(n, m))

-----------------------------------------------------------------------------
(* Properties.                                                              *)

\* A node handles a message at most once, also when retries announce it
\* again, and when the node restarts, forgets what it has seen, and is given
\* the announcement another time.  The restart takes a second at least
\* (RestartTime >= 1).
HandledOnce == \A n \in Nodes, m \in Messages : handled[n][m] <= 1

\* As long as no message can have failed three times, no message is lost on its
\* way: a node that listens has handled it or has it still before it, in an
\* announcement to come or a thread, unless the node or the body was not there.
MessageIsOnItsWay ==
  failures < MaxTries =>
    \A m \in Sent : \A n \in Listeners[m] \ {Sender[m]} :
      \/ handled[n][m] > 0 \/ <<n, m>> \in passedBy
      \/ m \in pending[n] \/ threads[n][m] > 0 \/ try[m] # 0

\* A message is handled by every other node that listens, unless the node was
\* not there or the body was not: up to two failed announcements, repeated
\* ones and the messages of others do not keep it from being handled.
MessageIsHandled ==
  \A m \in Messages : \A n \in Listeners[m] \ {Sender[m]} :
    m \in Sent ~> handled[n][m] > 0 \/ <<n, m>> \in passedBy
=============================================================================
