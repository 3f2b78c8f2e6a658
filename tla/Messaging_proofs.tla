-------------------------- MODULE Messaging_proofs --------------------------
(***************************************************************************)
(* Proofs about the messages of the nodes, for any nodes, messages and     *)
(* channels, and any number of retries, failures and restarts.             *)
(***************************************************************************)
EXTENDS Messaging, TLAPS

-----------------------------------------------------------------------------
(* The inductive invariant.                                                 *)

\* What is in the DHT was sent, and not in the future.
SentOK ==
  /\ \A m \in Messages : body[m] # "none" => m \in Sent
  /\ \A m \in Sent : sentAt[m] <= now
  /\ \A n \in Nodes : startup[n] <= now

\* A node that is down has no threads, and the message of a thread was sent.
ThreadsOK ==
  \A n \in Nodes, m \in Messages :
    threads[n][m] > 0 => state[n] # "down" /\ m \in Sent

\* A message the node would not take again: it has seen it, or it started, or will
\* start, after the message was sent.
Over(n, m) ==
  \/ m \in processed[n] \/ startup[n] > sentAt[m]
  \/ state[n] = "down" /\ startup[n] >= sentAt[m]

OverOK ==
  \A n \in Nodes, m \in Messages :
    handled[n][m] # 0 => handled[n][m] = 1 /\ m \in Sent /\ Over(n, m)

MessagingInv == TypeOK /\ SentOK /\ ThreadsOK /\ OverOK

-----------------------------------------------------------------------------
(* Types.                                                                   *)

\* Announcing a message keeps the types.
LEMMA AnnounceType ==
  ASSUME TypeOK, NEW m \in Messages, Announce(m)
  PROVE  /\ channel' \subseteq Messages /\ pending' \in [Nodes -> SUBSET Messages]
         /\ UNCHANGED <<threads, state, startup, processed, handled>>
  BY DEF TypeOK, Announce

\* Every step keeps the types.
LEMMA TypeStep == TypeOK /\ [Next]_vars => TypeOK'
<1> SUFFICES ASSUME TypeOK, [Next]_vars PROVE TypeOK'
  OBVIOUS
<1> USE DEF TypeOK
<1>0. /\ MaxTime \in Nat /\ MaxFailures \in Nat /\ MaxStops \in Nat
      /\ now \in 0..Unsent
  BY MessagingAssumption DEF Unsent
<1>1. ASSUME NEW m \in Messages, gossip(m) PROVE TypeOK'
  <2>1. sentAt' \in [Messages -> 0..Unsent]
    BY <1>0, <1>1 DEF gossip
  <2>2. try' \in [Messages -> 0..MaxTries]
    BY <1>1 DEF gossip, MaxTries
  <2>3. body' \in [Messages -> {"none", "putting", "stored", "gone"}]
    BY <1>1 DEF gossip
  <2>4. passedBy' \subseteq Nodes \X Messages
    BY <1>1 DEF gossip
  <2>5. QED BY <1>1, <2>1, <2>2, <2>3, <2>4 DEF gossip, nodeVars, boundVars
<1>2. ASSUME NEW m \in Messages, dhtPut(m) PROVE TypeOK'
  BY <1>2 DEF dhtPut, nodeVars, boundVars
<1>3. ASSUME NEW m \in Messages, announced(m) PROVE TypeOK'
  <2>1. try' \in [Messages -> 0..MaxTries]
    BY <1>3 DEF announced, MaxTries
  <2>2. Announce(m)
    BY <1>3 DEF announced
  <2>3. QED BY <1>3, <2>1, <2>2, AnnounceType DEF announced, boundVars
<1>4. ASSUME NEW m \in Messages, sendMessageWithRetry(m) PROVE TypeOK'
  <2>1. try' \in [Messages -> 0..MaxTries]
    BY <1>4 DEF sendMessageWithRetry, MaxTries
  <2>2. failures' \in 0..MaxFailures
    BY <1>0, <1>4 DEF sendMessageWithRetry
  <2>3. /\ channel' \subseteq Messages /\ pending' \in [Nodes -> SUBSET Messages]
        /\ UNCHANGED <<threads, state, startup, processed, handled>>
    BY <1>4, AnnounceType DEF sendMessageWithRetry, nodeVars
  <2>4. QED BY <1>4, <2>1, <2>2, <2>3 DEF sendMessageWithRetry
<1>5. ASSUME NEW m \in Messages, expire(m) PROVE TypeOK'
  BY <1>5 DEF expire, nodeVars, boundVars
<1>6. ASSUME NEW n \in Nodes, NEW m \in Messages, dataHandler(n, m) PROVE TypeOK'
  <2>1. threads' \in [Nodes -> [Messages -> Nat]]
    <3>1. CASE body[m] = "stored"
      <4>1. threads[n] \in [Messages -> Nat] /\ threads[n][m] + 1 \in Nat
        OBVIOUS
      <4>2. threads' = [threads EXCEPT ![n] = [threads[n] EXCEPT ![m] = threads[n][m] + 1]]
        BY <1>6, <3>1 DEF dataHandler
      <4>3. QED BY <4>1, <4>2
    <3>2. CASE body[m] # "stored"
      BY <1>6, <3>2 DEF dataHandler
    <3>3. QED BY <3>1, <3>2
  <2>2. passedBy' \subseteq Nodes \X Messages
    BY <1>6 DEF dataHandler
  <2>3. pending' \in [Nodes -> SUBSET Messages]
    BY <1>6 DEF dataHandler
  <2>4. QED BY <1>6, <2>1, <2>2, <2>3 DEF dataHandler, sendVars, boundVars
<1>7. ASSUME NEW n \in Nodes, NEW m \in Messages, processIncomingData(n, m) PROVE TypeOK'
  <2>1. threads' \in [Nodes -> [Messages -> Nat]]
    BY <1>7 DEF processIncomingData
  <2>2. handled' \in [Nodes -> [Messages -> Nat]]
    BY <1>7 DEF processIncomingData
  <2>3. processed' \in [Nodes -> SUBSET Messages]
    BY <1>7 DEF processIncomingData
  <2>4. QED BY <1>7, <2>1, <2>2, <2>3 DEF processIncomingData, sendVars, boundVars
<1>8. ASSUME NEW n \in Nodes, stop(n) PROVE TypeOK'
  <2>1. stops' \in 0..MaxStops
    BY <1>0, <1>8 DEF stop
  <2>2. threads' \in [Nodes -> [Messages -> Nat]]
    BY <1>8 DEF stop
  <2>3. passedBy' \subseteq Nodes \X Messages
    BY <1>8 DEF stop, Sent
  <2>4. body' \in [Messages -> {"none", "putting", "stored", "gone"}]
    BY <1>8 DEF stop
  <2>5. try' \in [Messages -> 0..MaxTries]
    BY <1>8 DEF stop, MaxTries
  <2>6. /\ pending' \in [Nodes -> SUBSET Messages] /\ processed' \in [Nodes -> SUBSET Messages]
        /\ state' \in [Nodes -> {"ready", "booting", "down"}] /\ startup' \in [Nodes -> 0..MaxTime]
    BY <1>8 DEF stop
  <2>7. QED BY <1>8, <2>1, <2>2, <2>3, <2>4, <2>5, <2>6 DEF stop
<1>9. ASSUME NEW n \in Nodes, start(n) PROVE TypeOK'
  BY <1>9 DEF start, sendVars, boundVars
<1>10. ASSUME NEW n \in Nodes, registerDataHandlers(n) PROVE TypeOK'
  BY <1>10 DEF registerDataHandlers, sendVars, boundVars
<1>11. CASE tick
  BY <1>0, <1>11 DEF tick, sendVars, nodeVars
<1>12. CASE UNCHANGED vars
  BY <1>12 DEF vars
<1>13. QED
  BY <1>1, <1>2, <1>3, <1>4, <1>5, <1>6, <1>7, <1>8, <1>9, <1>10, <1>11, <1>12 DEF Next, Send

-----------------------------------------------------------------------------
(* The parts of the invariant, step by step.                                *)

\* A message is sent once, at the time that it is.
LEMMA SentGrows ==
  ASSUME TypeOK, [Next]_vars
  PROVE  /\ Sent \subseteq Sent' /\ \A m \in Sent : sentAt'[m] = sentAt[m]
         /\ \A m \in Sent' \ Sent : sentAt'[m] = now /\ now' = now
         /\ now \in Nat /\ now' \in Nat /\ now' >= now
<1>0. /\ now \in Nat /\ now' \in Nat /\ now # Unsent
      /\ \A m \in Messages : sentAt[m] \in Nat
  BY TypeStep, MessagingAssumption DEF TypeOK, Unsent
<1>1. CASE \E m \in Messages : gossip(m)
  <2>1. PICK m \in Messages : gossip(m)
    BY <1>1
  <2>2. /\ m \notin Sent /\ now' = now
        /\ \A k \in Messages : sentAt'[k] = IF k = m THEN now ELSE sentAt[k]
    BY <2>1 DEF gossip, Sent, boundVars, TypeOK
  <2>3. QED BY <1>0, <2>2 DEF Sent
<1>2. CASE ~\E m \in Messages : gossip(m)
  <2>1. sentAt' = sentAt
    BY <1>2 DEF Next, Send, dhtPut, announced, sendMessageWithRetry, expire, dataHandler,
       processIncomingData, stop, start, registerDataHandlers, tick, vars, sendVars
  <2>2. now' = now \/ now' = now + 1
    BY <1>2 DEF Next, Send, dhtPut, announced, sendMessageWithRetry, expire, dataHandler,
       processIncomingData, stop, start, registerDataHandlers, tick, vars, boundVars
  <2>3. QED BY <1>0, <2>1, <2>2 DEF Sent
<1>3. QED BY <1>1, <1>2

\* startup is now or what it was.
LEMMA StartupStep ==
  ASSUME TypeOK, [Next]_vars, NEW n \in Nodes
  PROVE  startup'[n] = startup[n] \/ (startup'[n] = now /\ now' = now)
<1>1. CASE \E k \in Nodes : stop(k) \/ start(k)
  BY <1>1 DEF stop, start, TypeOK, boundVars
<1>2. CASE ~\E k \in Nodes : stop(k) \/ start(k)
  BY <1>2 DEF Next, Send, gossip, dhtPut, announced, sendMessageWithRetry, Announce, expire,
     dataHandler, processIncomingData, registerDataHandlers, tick, vars, nodeVars
<1>3. QED BY <1>1, <1>2

\* A body is put for a message that is sent.
LEMMA BodyStep ==
  ASSUME TypeOK, SentOK, [Next]_vars, NEW m \in Messages, body'[m] # "none" PROVE m \in Sent'
<1>1. CASE gossip(m)
  <2>1. sentAt'[m] = now /\ now # Unsent
    BY <1>1, MessagingAssumption DEF gossip, TypeOK, Unsent
  <2>2. QED BY <2>1 DEF Sent
<1>2. CASE body[m] # "none"
  BY <1>2, SentGrows DEF SentOK
<1>3. CASE body[m] = "none" /\ ~gossip(m)
  <2>1. CASE \E k \in Messages : gossip(k) \/ dhtPut(k) \/ expire(k)
    BY <1>3, <2>1 DEF gossip, dhtPut, expire, TypeOK
  <2>2. CASE \E n \in Nodes : stop(n)
    BY <1>3, <2>2 DEF stop, TypeOK
  <2>3. CASE ~(\E k \in Messages : gossip(k) \/ dhtPut(k) \/ expire(k)) /\ ~\E n \in Nodes : stop(n)
    <3>1. body' = body
      BY <2>3 DEF Next, Send, announced, sendMessageWithRetry, dataHandler,
         processIncomingData, start, registerDataHandlers, tick, vars, sendVars
    <3>2. QED BY <1>3, <3>1
  <2>4. QED BY <2>1, <2>2, <2>3
<1>4. QED BY <1>1, <1>2, <1>3

\* No step puts a message into the DHT that was not sent, or from the future.
LEMMA SentStep == TypeOK /\ SentOK /\ [Next]_vars => SentOK'
<1> SUFFICES ASSUME TypeOK, SentOK, [Next]_vars PROVE SentOK'
  OBVIOUS
<1>1. \A m \in Messages : body'[m] # "none" => m \in Sent'
  BY BodyStep
<1>2. \A m \in Messages : sentAt[m] \in Nat
  BY MessagingAssumption DEF TypeOK, Unsent
<1>3. \A m \in Sent' : sentAt'[m] <= now'
  BY <1>2, SentGrows DEF SentOK, Sent
<1>4. \A n \in Nodes : startup[n] \in Nat
  BY MessagingAssumption DEF TypeOK
<1>5. \A n \in Nodes : startup'[n] <= now'
  BY <1>4, StartupStep, SentGrows DEF SentOK
<1>6. QED BY <1>1, <1>3, <1>5 DEF SentOK

\* Only dataHandler makes threads, and a node that stops has none.
LEMMA ThreadsStep == TypeOK /\ SentOK /\ ThreadsOK /\ [Next]_vars => ThreadsOK'
<1> SUFFICES ASSUME TypeOK, SentOK, ThreadsOK, [Next]_vars,
                    NEW n \in Nodes, NEW m \in Messages, threads'[n][m] > 0
             PROVE  state'[n] # "down" /\ m \in Sent'
  BY DEF ThreadsOK
<1>1. Sent \subseteq Sent'
  BY SentGrows
<1>2. CASE \E k \in Nodes, x \in Messages : dataHandler(k, x)
  <2>1. PICK k \in Nodes, x \in Messages : dataHandler(k, x)
    BY <1>2
  <2>2. state' = state
    BY <2>1 DEF dataHandler
  <2>3. CASE n = k /\ m = x /\ body[m] = "stored"
    BY <1>1, <2>1, <2>2, <2>3 DEF dataHandler, SentOK
  <2>4. CASE ~(n = k /\ m = x /\ body[m] = "stored")
    <3>1. threads'[n][m] = threads[n][m]
      BY <2>1, <2>4 DEF dataHandler, TypeOK
    <3>2. QED BY <1>1, <2>2, <3>1 DEF ThreadsOK
  <2>5. QED BY <2>3, <2>4
<1>3. CASE \E k \in Nodes, x \in Messages : processIncomingData(k, x)
  <2>1. PICK k \in Nodes, x \in Messages : processIncomingData(k, x)
    BY <1>3
  <2>2. state' = state /\ threads' = [threads EXCEPT ![k][x] = @ - 1] /\ threads[k][x] > 0
    BY <2>1 DEF processIncomingData
  <2>3. threads[n][m] > 0
    BY <2>2 DEF TypeOK
  <2>4. QED BY <1>1, <2>2, <2>3 DEF ThreadsOK
<1>4. CASE \E k \in Nodes : stop(k)
  <2>1. PICK k \in Nodes : stop(k)
    BY <1>4
  <2>2. n # k
    BY <2>1 DEF stop, TypeOK
  <2>3. threads'[n] = threads[n] /\ state'[n] = state[n]
    BY <2>1, <2>2 DEF stop, TypeOK
  <2>4. QED BY <1>1, <2>3 DEF ThreadsOK
<1>5. CASE \E k \in Nodes : start(k) \/ registerDataHandlers(k)
  <2>1. threads' = threads /\ (state'[n] = state[n] \/ state'[n] # "down")
    BY <1>5 DEF start, registerDataHandlers, TypeOK
  <2>2. QED BY <1>1, <2>1 DEF ThreadsOK
<1>6. CASE (\E x \in Messages : gossip(x) \/ Send(x) \/ expire(x)) \/ tick \/ UNCHANGED vars
  <2>1. threads' = threads /\ state' = state
    BY <1>6 DEF gossip, Send, dhtPut, announced, sendMessageWithRetry, Announce, expire, tick,
       vars, nodeVars
  <2>2. QED BY <1>1, <2>1 DEF ThreadsOK
<1>7. QED BY <1>2, <1>3, <1>4, <1>5, <1>6 DEF Next

\* A message the node would not take stays so: restarting takes a second.
LEMMA OverStays ==
  ASSUME RestartTime >= 1, TypeOK, SentOK, [Next]_vars, NEW n \in Nodes, NEW m \in Sent, Over(n, m)
  PROVE  Over(n, m)'
<1>0. /\ sentAt'[m] = sentAt[m] /\ sentAt[m] \in Nat /\ sentAt[m] <= now /\ now \in Nat
      /\ startup[n] \in Nat /\ startup[n] <= now /\ m \in Messages /\ RestartTime \in Nat
  BY SentGrows, MessagingAssumption DEF TypeOK, SentOK, Unsent, Sent
<1>1. CASE stop(n)
  <2>1. state'[n] = "down" /\ startup'[n] = now
    BY <1>1 DEF stop, TypeOK
  <2>2. QED BY <1>0, <2>1 DEF Over
<1>2. CASE start(n)
  <2>1. startup'[n] = now /\ now >= startup[n] + RestartTime /\ processed' = processed
    BY <1>2 DEF start, TypeOK
  <2>2. QED BY <1>0, <2>1 DEF Over
<1>3. CASE ~stop(n) /\ ~start(n)
  <2>1. startup'[n] = startup[n] /\ (state[n] = "down" => state'[n] = "down")
    <3>1. CASE \E k \in Nodes : stop(k) \/ start(k) \/ registerDataHandlers(k)
      BY <1>3, <3>1 DEF stop, start, registerDataHandlers, TypeOK
    <3>2. CASE ~\E k \in Nodes : stop(k) \/ start(k) \/ registerDataHandlers(k)
      BY <3>2 DEF Next, Send, gossip, dhtPut, announced, sendMessageWithRetry, Announce, expire,
         dataHandler, processIncomingData, tick, vars, nodeVars
    <3>3. QED BY <3>1, <3>2
  <2>2. processed[n] \subseteq processed'[n]
    <3>1. ASSUME NEW k \in Nodes, stop(k) PROVE processed'[n] = processed[n]
      BY <1>3, <3>1 DEF stop, TypeOK
    <3>2. CASE \E k \in Nodes, x \in Messages : processIncomingData(k, x)
      BY <3>2 DEF processIncomingData, TypeOK
    <3>3. CASE ~(\E k \in Nodes : stop(k)) /\ ~\E k \in Nodes, x \in Messages : processIncomingData(k, x)
      BY <3>3 DEF Next, Send, gossip, dhtPut, announced, sendMessageWithRetry, Announce, expire,
         dataHandler, start, registerDataHandlers, tick, vars, nodeVars
    <3>4. QED BY <3>1, <3>2, <3>3
  <2>3. QED BY <1>0, <2>1, <2>2 DEF Over
<1>4. QED BY <1>1, <1>2, <1>3

\* A handler is called for a message that the node has not seen and was there for,
\* and the message is seen by then.
LEMMA OverStep ==
  ASSUME RestartTime >= 1 PROVE MessagingInv /\ [Next]_vars => OverOK'
<1> SUFFICES ASSUME MessagingInv, [Next]_vars, NEW n \in Nodes, NEW m \in Messages,
                    handled'[n][m] # 0
             PROVE  handled'[n][m] = 1 /\ m \in Sent' /\ Over(n, m)'
  BY DEF OverOK
<1> USE DEF MessagingInv
<1>1. CASE handled'[n][m] = handled[n][m]
  BY <1>1, SentGrows, OverStays DEF OverOK
<1>2. CASE handled'[n][m] # handled[n][m]
  <2>1. handled' # handled
    BY <1>2
  <2>2. \E k \in Nodes, x \in Messages : processIncomingData(k, x)
    BY <2>1 DEF Next, Send, gossip, dhtPut, announced, sendMessageWithRetry, Announce, expire,
       dataHandler, stop, start, registerDataHandlers, tick, vars, nodeVars
  <2>3. PICK k \in Nodes, x \in Messages : processIncomingData(k, x)
    BY <2>2
  <2>4. k = n /\ x = m /\ ~dropped(n, m) /\ handled'[n][m] = handled[n][m] + 1
    BY <1>2, <2>3 DEF processIncomingData, TypeOK
  <2>5. m \in Sent /\ state[n] # "down" /\ m \in processed'[n]
    BY <2>3, <2>4 DEF processIncomingData, ThreadsOK, TypeOK
  <2>6. ~Over(n, m)
    BY <2>4, <2>5 DEF dropped, Over
  <2>7. handled[n][m] = 0
    BY <2>6 DEF OverOK
  <2>8. QED BY <2>4, <2>5, <2>7, SentGrows DEF Over
<1>3. QED BY <1>1, <1>2

-----------------------------------------------------------------------------
\* A node handles a message at most once, however often it is announced, in however
\* many threads it is taken up, and however often the node restarts: what the node
\* forgets when it stops is older than its next start, because "tm" and
\* appStartupTime are in seconds and a restart takes at least one.
THEOREM HandledOnceCorrect == RestartTime >= 1 => (Spec => []HandledOnce)
<1> SUFFICES ASSUME RestartTime >= 1 PROVE Spec => []HandledOnce
  OBVIOUS
<1>1. Init => MessagingInv
  <2> SUFFICES ASSUME Init PROVE MessagingInv
    OBVIOUS
  <2>1. TypeOK
    BY MessagingAssumption DEF Init, TypeOK, Unsent, MaxTries
  <2>2. Sent = {}
    BY DEF Init, Sent
  <2>3. SentOK /\ ThreadsOK /\ OverOK
    BY <2>2 DEF Init, SentOK, ThreadsOK, OverOK
  <2>4. QED BY <2>1, <2>3 DEF MessagingInv
<1>2. MessagingInv /\ [Next]_vars => MessagingInv'
  BY TypeStep, SentStep, ThreadsStep, OverStep DEF MessagingInv
<1>3. MessagingInv => HandledOnce
  BY SMTT(30) DEF MessagingInv, TypeOK, OverOK, HandledOnce
<1>4. QED BY <1>1, <1>2, <1>3, PTL DEF Spec

-----------------------------------------------------------------------------
(* No message is lost on its way.                                           *)

\* The announcement under way is of a message that was sent, and each one before it
\* failed.
RetriesOK ==
  \A m \in Messages : try[m] # 0 => m \in Sent /\ try[m] <= failures + 1

\* The node has been there since the message was sent, and handled it if it saw it.
WasThere(n, m) ==
  /\ state[n] = "ready" /\ startup[n] <= sentAt[m]
  /\ m \in processed[n] => handled[n][m] > 0

ThereOK ==
  \A n \in Nodes, m \in Messages :
    /\ m \in processed[n] => m \in Sent
    /\ m \in Sent => <<n, m>> \in passedBy \/ WasThere(n, m)

WayInv == TypeOK /\ SentOK /\ ThreadsOK /\ RetriesOK /\ ThereOK /\ MessageIsOnItsWay

\* What was missed, what was handled and what failed is never taken back.
LEMMA RecordsGrow ==
  ASSUME TypeOK, [Next]_vars
  PROVE  /\ passedBy \subseteq passedBy' /\ failures \in Nat /\ failures' \in Nat
         /\ failures' >= failures
         /\ \A n \in Nodes, m \in Messages : handled'[n][m] >= handled[n][m]
<1>1. passedBy \subseteq passedBy'
  BY DEF Next, Send, gossip, dhtPut, announced, sendMessageWithRetry, expire, dataHandler,
     processIncomingData, stop, start, registerDataHandlers, tick, vars
<1>2. failures \in Nat /\ failures' \in Nat
  BY TypeStep, MessagingAssumption DEF TypeOK
<1>3. failures' = failures \/ failures' = failures + 1
  BY DEF Next, Send, gossip, dhtPut, announced, sendMessageWithRetry, expire, dataHandler,
     processIncomingData, stop, start, registerDataHandlers, tick, vars, boundVars
<1>4. ASSUME NEW n \in Nodes, NEW m \in Messages PROVE handled'[n][m] >= handled[n][m]
  <2>0. handled[n][m] \in Nat
    BY DEF TypeOK
  <2>1. CASE \E k \in Nodes, x \in Messages : processIncomingData(k, x)
    <3>1. PICK k \in Nodes, x \in Messages : processIncomingData(k, x)
      BY <2>1
    <3>2. handled'[n][m] = handled[n][m] \/ handled'[n][m] = handled[n][m] + 1
      BY <3>1 DEF processIncomingData, TypeOK
    <3>3. QED BY <2>0, <3>2
  <2>2. CASE ~\E k \in Nodes, x \in Messages : processIncomingData(k, x)
    <3>1. handled' = handled
      BY <2>2 DEF Next, Send, gossip, dhtPut, announced, sendMessageWithRetry, Announce, expire,
         dataHandler, stop, start, registerDataHandlers, tick, vars, nodeVars
    <3>2. QED BY <2>0, <3>1
  <2>3. QED BY <2>1, <2>2
<1>5. QED BY <1>1, <1>2, <1>3, <1>4

\* A retry follows a failure.
LEMMA RetriesStep == TypeOK /\ RetriesOK /\ [Next]_vars => RetriesOK'
<1> SUFFICES ASSUME TypeOK, RetriesOK, [Next]_vars, NEW m \in Messages, try'[m] # 0
             PROVE  m \in Sent' /\ try'[m] <= failures' + 1
  BY DEF RetriesOK
<1>0. /\ try[m] \in Nat /\ Sent \subseteq Sent' /\ failures \in Nat /\ failures' \in Nat
      /\ failures' >= failures
  BY RecordsGrow, SentGrows DEF TypeOK, MaxTries
<1>1. CASE \E x \in Messages : gossip(x)
  <2>1. PICK x \in Messages : gossip(x)
    BY <1>1
  <2>2. CASE x = m
    <3>1. try'[m] = 1 /\ sentAt'[m] = now /\ now # Unsent
      BY <2>1, <2>2, MessagingAssumption DEF gossip, TypeOK, Unsent
    <3>2. m \in Sent'
      BY <3>1 DEF Sent
    <3>3. failures' \in Nat
      BY <1>0
    <3>4. \A k \in Nat : 1 <= k + 1
      OBVIOUS
    <3>5. QED BY <3>1, <3>2, <3>3, <3>4, Zenon
  <2>3. CASE x # m
    <3>1. try'[m] = try[m]
      BY <2>1, <2>3 DEF gossip, TypeOK
    <3>2. QED BY <1>0, <3>1 DEF RetriesOK
  <2>4. QED BY <2>2, <2>3
<1>2. CASE \E x \in Messages : sendMessageWithRetry(x)
  <2>1. PICK x \in Messages : sendMessageWithRetry(x)
    BY <1>2
  <2>2. failures' = failures + 1 /\ try[x] # 0
    BY <2>1 DEF sendMessageWithRetry
  <2>3. try'[m] = try[m] \/ (x = m /\ try'[m] = try[m] + 1)
    BY <2>1 DEF sendMessageWithRetry, TypeOK
  <2>4. QED BY <1>0, <2>2, <2>3 DEF RetriesOK
<1>3. CASE ~(\E x \in Messages : gossip(x)) /\ ~\E x \in Messages : sendMessageWithRetry(x)
  <2>1. try'[m] = try[m]
    <3>1. CASE \E x \in Messages : announced(x)
      BY <3>1 DEF announced, TypeOK
    <3>2. CASE \E n \in Nodes : stop(n)
      BY <3>2 DEF stop
    <3>3. CASE ~(\E x \in Messages : announced(x)) /\ ~\E n \in Nodes : stop(n)
      BY <1>3, <3>3 DEF Next, Send, dhtPut, expire, dataHandler, processIncomingData, start,
         registerDataHandlers, tick, vars, sendVars
    <3>4. QED BY <3>1, <3>2, <3>3
  <2>2. QED BY <1>0, <2>1 DEF RetriesOK
<1>4. QED BY <1>1, <1>2, <1>3

\* A node that stops or starts has missed what was sent before, one that is not
\* ready what is sent now, and one that is ready handles what it sees for the first
\* time.
LEMMA ThereStep ==
  TypeOK /\ SentOK /\ ThreadsOK /\ ThereOK /\ [Next]_vars => ThereOK'
<1> SUFFICES ASSUME TypeOK, SentOK, ThreadsOK, ThereOK, [Next]_vars,
                    NEW n \in Nodes, NEW m \in Messages
             PROVE  /\ m \in processed'[n] => m \in Sent'
                    /\ m \in Sent' => <<n, m>> \in passedBy' \/ WasThere(n, m)'
  BY DEF ThereOK
<1>0. /\ Sent \subseteq Sent' /\ passedBy \subseteq passedBy' /\ handled[n][m] \in Nat
      /\ (m \in Sent => sentAt'[m] = sentAt[m]) /\ handled'[n][m] >= handled[n][m]
      /\ startup[n] \in Nat /\ startup[n] <= now /\ handled'[n][m] \in Nat
  <2>1. handled'[n][m] \in Nat
    BY TypeStep DEF TypeOK
  <2>2. QED BY <2>1, SentGrows, RecordsGrow DEF TypeOK, SentOK
<1>1. CASE \E x \in Messages : gossip(x)
  <2>1. PICK x \in Messages : gossip(x)
    BY <1>1
  <2>2. startup' = startup /\ processed' = processed /\ state' = state /\ handled' = handled
    BY <2>1 DEF gossip, nodeVars
  <2>3. CASE x = m
    <3>1. sentAt'[m] = now /\ m \notin Sent
      BY <2>1, <2>3 DEF gossip, TypeOK, Sent
    <3>2. m \notin processed'[n]
      BY <2>2, <3>1 DEF ThereOK
    <3>3. state[n] # "ready" => <<n, m>> \in passedBy'
      BY <2>1, <2>3 DEF gossip
    <3>4. QED BY <1>0, <2>2, <3>1, <3>2, <3>3 DEF WasThere
  <2>4. CASE x # m
    <3>1. sentAt'[m] = sentAt[m]
      BY <2>1, <2>4 DEF gossip, TypeOK
    <3>2. m \in Sent' => m \in Sent
      BY <3>1 DEF Sent, Unsent
    <3>3. QED BY <1>0, <2>2, <3>1, <3>2 DEF ThereOK, WasThere
  <2>5. QED BY <2>3, <2>4
<1>2. CASE ~\E x \in Messages : gossip(x)
  <2>1. sentAt' = sentAt
    BY <1>2 DEF Next, Send, dhtPut, announced, sendMessageWithRetry, expire, dataHandler,
       processIncomingData, stop, start, registerDataHandlers, tick, vars, sendVars
  <2>2. Sent' = Sent
    BY <2>1 DEF Sent, Unsent
  <2>3. CASE stop(n)
    <3>1. processed'[n] = {} /\ (m \in Sent => <<n, m>> \in passedBy')
      BY <2>3 DEF stop, TypeOK
    <3>2. QED BY <2>2, <3>1
  <2>4. CASE start(n) \/ registerDataHandlers(n)
    <3>1. processed' = processed /\ state[n] # "ready"
      BY <2>4 DEF start, registerDataHandlers
    <3>2. m \in Sent => <<n, m>> \in passedBy
      BY <3>1 DEF ThereOK, WasThere
    <3>3. QED BY <1>0, <2>2, <3>1, <3>2 DEF ThereOK
  <2>5. CASE processIncomingData(n, m)
    <3>1. m \in Sent /\ startup' = startup /\ state' = state
      BY <2>5 DEF processIncomingData, ThreadsOK
    <3>2. CASE <<n, m>> \in passedBy
      BY <1>0, <3>1, <3>2
    <3>3. CASE <<n, m>> \notin passedBy
      <4>1. WasThere(n, m)
        BY <3>1, <3>3 DEF ThereOK
      <4>2. m \in processed'[n] => handled'[n][m] > 0
        <5>1. CASE dropped(n, m)
          <6>1. processed' = processed
            BY <2>5, <5>1 DEF processIncomingData
          <6>2. QED BY <1>0, <4>1, <6>1 DEF WasThere
        <5>2. CASE ~dropped(n, m)
          <6>1. handled' = [handled EXCEPT ![n][m] = @ + 1]
            BY <2>5, <4>1, <5>2 DEF processIncomingData, WasThere
          <6>2. handled'[n][m] = handled[n][m] + 1
            BY <6>1 DEF TypeOK
          <6>3. QED BY <1>0, <6>2
        <5>3. QED BY <5>1, <5>2
      <4>3. QED BY <1>0, <2>1, <3>1, <4>1, <4>2 DEF WasThere
    <3>4. QED BY <3>2, <3>3
  <2>6. CASE ~stop(n) /\ ~start(n) /\ ~registerDataHandlers(n) /\ ~processIncomingData(n, m)
    <3>1. startup'[n] = startup[n] /\ state'[n] = state[n]
      <4>1. CASE \E k \in Nodes : stop(k) \/ start(k) \/ registerDataHandlers(k)
        BY <2>6, <4>1 DEF stop, start, registerDataHandlers, TypeOK
      <4>2. CASE ~\E k \in Nodes : stop(k) \/ start(k) \/ registerDataHandlers(k)
        BY <1>2, <4>2 DEF Next, Send, dhtPut, announced, sendMessageWithRetry, Announce, expire,
           dataHandler, processIncomingData, tick, vars, nodeVars
      <4>3. QED BY <4>1, <4>2
    <3>2. m \in processed'[n] <=> m \in processed[n]
      <4>1. ASSUME NEW k \in Nodes, stop(k) PROVE processed'[n] = processed[n]
        <5>1. k # n
          BY <2>6, <4>1
        <5>2. QED BY <4>1, <5>1 DEF stop, TypeOK
      <4>2. ASSUME NEW k \in Nodes, NEW x \in Messages, processIncomingData(k, x)
            PROVE  m \in processed'[n] <=> m \in processed[n]
        <5>1. k # n \/ x # m
          BY <2>6, <4>2
        <5>2. processed' = processed \/ processed' = [processed EXCEPT ![k] = @ \cup {x}]
          BY <4>2 DEF processIncomingData
        <5>3. CASE k # n
          BY <5>2, <5>3 DEF TypeOK
        <5>4. CASE k = n /\ x # m
          <6>1. processed'[n] = processed[n] \/ processed'[n] = processed[n] \cup {x}
            BY <5>2, <5>4 DEF TypeOK
          <6>2. QED BY <5>4, <6>1
        <5>5. QED BY <5>1, <5>3, <5>4
      <4>3. CASE ~(\E k \in Nodes : stop(k))
                 /\ ~\E k \in Nodes, x \in Messages : processIncomingData(k, x)
        BY <1>2, <4>3 DEF Next, Send, dhtPut, announced, sendMessageWithRetry, Announce, expire,
           dataHandler, start, registerDataHandlers, tick, vars, nodeVars
      <4>4. QED BY <4>1, <4>2, <4>3
    <3>3. QED BY <1>0, <2>1, <2>2, <3>1, <3>2 DEF ThereOK, WasThere
  <2>7. QED BY <2>3, <2>4, <2>5, <2>6
<1>3. QED BY <1>1, <1>2

\* What a message is on its way in: an announcement or a thread.
Under(n, m) == m \in pending[n] \/ threads[n][m] > 0 \/ try[m] # 0

\* An announcement leaves to a node that is there, is fetched into a thread, and the
\* thread calls the handler of a message that was not seen before.
LEMMA WayStep == WayInv /\ [Next]_vars => MessageIsOnItsWay'
<1> SUFFICES ASSUME WayInv, [Next]_vars, failures' < MaxTries, NEW m \in Sent',
                    NEW n \in Listeners[m] \ {Sender[m]},
                    ~(handled'[n][m] > 0), <<n, m>> \notin passedBy'
             PROVE  m \in pending'[n] \/ threads'[n][m] > 0 \/ try'[m] # 0
  BY DEF MessageIsOnItsWay, MaxTries
<1>0. /\ m \in Messages /\ n \in Nodes /\ passedBy \subseteq passedBy'
      /\ failures \in Nat /\ failures' \in Nat /\ failures' >= failures
      /\ handled[n][m] \in Nat /\ handled'[n][m] >= handled[n][m] /\ handled'[n][m] \in Nat
      /\ threads[n][m] \in Nat /\ try[m] \in Nat
  <2>1. m \in Messages /\ n \in Nodes
    BY MessagingAssumption DEF Sent
  <2>2. TypeOK /\ TypeOK'
    BY TypeStep DEF WayInv
  <2>3. handled'[n][m] \in Nat
    BY <2>1, <2>2 DEF TypeOK
  <2>4. handled[n][m] \in Nat /\ threads[n][m] \in Nat
    BY <2>1, <2>2 DEF TypeOK
  <2>5. try[m] \in 0..3
    BY <2>1, <2>2 DEF TypeOK, MaxTries
  <2>6. QED BY <2>1, <2>2, <2>3, <2>4, <2>5, RecordsGrow
<1>1. CASE gossip(m)
  <2>1. try'[m] = 1
    BY <1>0, <1>1 DEF gossip, WayInv, TypeOK
  <2>2. QED BY <2>1
<1>2. CASE ~gossip(m)
  <2>1. m \in Sent
    <3>1. CASE \E x \in Messages : gossip(x)
      <4>1. PICK x \in Messages : gossip(x)
        BY <3>1
      <4>2. x # m
        BY <1>2, <4>1
      <4>3. sentAt'[m] = sentAt[m]
        BY <1>0, <4>1, <4>2 DEF gossip, WayInv, TypeOK
      <4>4. QED BY <4>3 DEF Sent, Unsent
    <3>2. CASE ~\E x \in Messages : gossip(x)
      <4>1. sentAt' = sentAt
        BY <3>2 DEF Next, Send, dhtPut, announced, sendMessageWithRetry, expire, dataHandler,
           processIncomingData, stop, start, registerDataHandlers, tick, vars, sendVars
      <4>2. QED BY <4>1 DEF Sent, Unsent
    <3>3. QED BY <3>1, <3>2
  <2>2. <<n, m>> \notin passedBy /\ handled[n][m] = 0
    BY <1>0
  <2>3. WasThere(n, m) /\ Under(n, m)
    <3>1. WasThere(n, m)
      BY <1>0, <2>1, <2>2 DEF WayInv, ThereOK
    <3>2. failures < MaxTries
      BY <1>0 DEF MaxTries
    <3>3. Under(n, m)
      BY <2>1, <2>2, <3>2 DEF WayInv, MessageIsOnItsWay, Under
    <3>4. QED BY <3>1, <3>3
  <2>4. m \notin processed[n] /\ state[n] = "ready"
    BY <2>2, <2>3 DEF WasThere
  <2>5. CASE announced(m)
    <3>1. m \in pending'[n]
      BY <1>0, <2>4, <2>5 DEF announced, Announce
    <3>2. QED BY <3>1
  <2>6. CASE sendMessageWithRetry(m)
    <3>1. failures' = failures + 1 /\ try[m] <= failures + 1 /\ try[m] # 0
      BY <1>0, <2>6 DEF sendMessageWithRetry, WayInv, RetriesOK
    <3>2. try[m] < MaxTries
      BY <1>0, <3>1 DEF MaxTries
    <3>3. try'[m] = try[m] + 1
      BY <1>0, <2>6, <3>2 DEF sendMessageWithRetry, WayInv, TypeOK
    <3>4. QED BY <1>0, <3>3
  <2>7. CASE dataHandler(n, m)
    <3>1. body[m] = "stored"
      BY <2>7 DEF dataHandler
    <3>2. threads'[n][m] = threads[n][m] + 1
      BY <1>0, <2>7, <3>1 DEF dataHandler, WayInv, TypeOK
    <3>3. QED BY <1>0, <3>2
  <2>8. CASE processIncomingData(n, m)
    <3>1. ~dropped(n, m)
      <4>1. n # Sender[m]
        OBVIOUS
      <4>2. startup[n] \in Nat /\ sentAt[m] \in Nat
        BY <1>0, MessagingAssumption DEF WayInv, TypeOK, Unsent
      <4>3. ~(startup[n] > sentAt[m])
        BY <2>3, <4>2 DEF WasThere
      <4>4. QED BY <2>4, <4>1, <4>3 DEF dropped
    <3>2. handled' = [handled EXCEPT ![n][m] = @ + 1]
      BY <2>4, <2>8, <3>1 DEF processIncomingData
    <3>3. handled'[n][m] = handled[n][m] + 1
      BY <1>0, <3>2 DEF WayInv, TypeOK
    <3>4. QED BY <1>0, <3>3
  <2>9. CASE \E k \in Nodes : stop(k)
    <3>1. PICK k \in Nodes : stop(k)
      BY <2>9
    <3>2. k # n /\ k # Sender[m]
      BY <1>0, <2>1, <3>1 DEF stop
    <3>3. pending'[n] = pending[n] /\ threads'[n] = threads[n] /\ try'[m] = try[m]
      BY <1>0, <3>1, <3>2 DEF stop, WayInv, TypeOK
    <3>4. QED BY <2>3, <3>3 DEF Under
  <2>10. CASE /\ ~announced(m) /\ ~sendMessageWithRetry(m) /\ ~dataHandler(n, m)
              /\ ~processIncomingData(n, m) /\ ~\E k \in Nodes : stop(k)
    <3>1. try'[m] = try[m]
      <4>1. CASE \E x \in Messages : gossip(x) \/ announced(x) \/ sendMessageWithRetry(x)
        BY <1>0, <1>2, <2>10, <4>1 DEF gossip, announced, sendMessageWithRetry, WayInv, TypeOK
      <4>2. CASE ~\E x \in Messages : gossip(x) \/ announced(x) \/ sendMessageWithRetry(x)
        BY <2>10, <4>2 DEF Next, Send, dhtPut, expire, dataHandler, processIncomingData, start,
           registerDataHandlers, tick, vars, sendVars
      <4>3. QED BY <4>1, <4>2
    <3>2. threads'[n][m] = threads[n][m]
      <4>1. ASSUME NEW k \in Nodes, NEW x \in Messages,
                   dataHandler(k, x) \/ processIncomingData(k, x)
            PROVE  threads'[n][m] = threads[n][m]
        <5>1. k # n \/ x # m
          BY <2>10, <4>1
        <5>2. \/ threads' = threads \/ threads' = [threads EXCEPT ![k][x] = @ + 1]
              \/ threads' = [threads EXCEPT ![k][x] = @ - 1]
          BY <4>1 DEF dataHandler, processIncomingData
        <5>3. CASE k # n
          <6>1. threads'[n] = threads[n]
            BY <1>0, <5>2, <5>3 DEF WayInv, TypeOK
          <6>2. QED BY <6>1
        <5>4. CASE k = n /\ x # m
          BY <1>0, <5>2, <5>4 DEF WayInv, TypeOK
        <5>5. QED BY <5>1, <5>3, <5>4
      <4>2. CASE ~\E k \in Nodes, x \in Messages : dataHandler(k, x) \/ processIncomingData(k, x)
        BY <2>10, <4>2 DEF Next, Send, gossip, dhtPut, announced, sendMessageWithRetry, Announce,
           expire, start, registerDataHandlers, tick, vars, nodeVars
      <4>3. QED BY <4>1, <4>2
    <3>3. m \in pending[n] => m \in pending'[n]
      <4>1. CASE \E x \in Messages : Announce(x)
        BY <1>0, <4>1 DEF Announce
      <4>2. ASSUME NEW k \in Nodes, NEW x \in Messages, dataHandler(k, x)
            PROVE  m \in pending[n] => m \in pending'[n]
        <5>1. k # n \/ x # m
          BY <2>10, <4>2
        <5>2. pending' = [pending EXCEPT ![k] = @ \ {x}]
          BY <4>2 DEF dataHandler
        <5>3. QED BY <1>0, <5>1, <5>2 DEF WayInv, TypeOK
      <4>3. CASE \E k \in Nodes : start(k)
        BY <1>0, <2>4, <4>3 DEF start, WayInv, TypeOK
      <4>4. CASE /\ ~(\E x \in Messages : Announce(x)) /\ ~\E k \in Nodes : start(k)
                 /\ ~\E k \in Nodes, x \in Messages : dataHandler(k, x)
        BY <2>10, <4>4 DEF Next, Send, gossip, dhtPut, announced, sendMessageWithRetry, expire,
           processIncomingData, registerDataHandlers, tick, vars, nodeVars
      <4>5. QED BY <4>1, <4>2, <4>3, <4>4
    <3>4. QED BY <2>3, <3>1, <3>2, <3>3 DEF Under
  <2>11. QED BY <2>5, <2>6, <2>7, <2>8, <2>9, <2>10
<1>3. QED BY <1>1, <1>2

\* While fewer announcements failed than a message is given tries, no message is lost
\* between gossip, the retries, the fetch and the thread: whatever the interleaving
\* with restarts, every listener that was there has it handled or still to come.
THEOREM MessageIsOnItsWayCorrect == Spec => []MessageIsOnItsWay
<1>1. Init => WayInv
  <2> SUFFICES ASSUME Init PROVE WayInv
    OBVIOUS
  <2>1. TypeOK
    BY MessagingAssumption DEF Init, TypeOK, Unsent, MaxTries
  <2>2. Sent = {}
    BY DEF Init, Sent
  <2>3. SentOK /\ ThreadsOK /\ RetriesOK /\ ThereOK /\ MessageIsOnItsWay
    BY <2>2 DEF Init, SentOK, ThreadsOK, RetriesOK, ThereOK, MessageIsOnItsWay
  <2>4. QED BY <2>1, <2>3 DEF WayInv
<1>2. WayInv /\ [Next]_vars => WayInv'
  BY TypeStep, SentStep, ThreadsStep, RetriesStep, ThereStep, WayStep DEF WayInv
<1>3. WayInv => MessageIsOnItsWay
  BY DEF WayInv
<1>4. QED BY <1>1, <1>2, <1>3, PTL DEF Spec
=============================================================================
