------------------------ MODULE DocumentStore_proofs ------------------------
(***************************************************************************)
(* Proofs about the Storage Node's queues and its document store, for any  *)
(* commands, timestamps, sessions and bounds.                              *)
(***************************************************************************)
EXTENDS DocumentStore, TLAPS

-----------------------------------------------------------------------------
(* The queues implement CommandLog when the commands on a key arrive in     *)
(* timestamp order.                                                         *)

\* A queue holds what has arrived under its key; a key that is not in the map has
\* neither commands nor a worker.
QueuesOK ==
  \A k \in Keys :
    /\ \A c \in queue[k] : c \in arrived /\ KeyOf[c] = k
    /\ k \notin queueMap => queue[k] = {} /\ pc[k] = "none"

\* The worker's copy of the top is still on top, although others were pushed.
TopsOK == \A k \in Keys : pc[k] \in {"execute", "pop"} => top[k] \in Tops(queue[k])

\* Of the commands in a queue only the one to be popped has been executed.
OnceOK ==
  /\ Done \subseteq arrived
  /\ \A k \in Keys : /\ pc[k] = "pop" => top[k] \in Done
                     /\ \A c \in queue[k] \cap Done : pc[k] = "pop" /\ c = top[k]

QueueInv == TypeOK /\ QueuesOK /\ TopsOK /\ OnceOK

\* Appending to a log adds one element to what is done.
LEMMA DoneAppend ==
  ASSUME executed \in Seq(Commands), NEW c \in Commands, executed' = Append(executed, c)
  PROVE  Done' = Done \cup {c}
<1>1. /\ Len(executed') = Len(executed) + 1 /\ Len(executed) \in Nat
      /\ executed'[Len(executed) + 1] = c
      /\ \A i \in 1..Len(executed) : executed'[i] = executed[i]
  OBVIOUS
<1>2. QED BY <1>1 DEF Done

\* A log that stays as it is.
LEMMA DoneSame == ASSUME executed' = executed PROVE Done' = Done
  BY DEF Done

\* Every step of the queues keeps the invariant.
LEMMA QueueStep == InOrder /\ QueueInv /\ [Next]_vars => QueueInv'
<1> SUFFICES ASSUME InOrder, QueueInv, [Next]_vars PROVE QueueInv'
  OBVIOUS
<1> USE DEF QueueInv
<1>1. ASSUME NEW c \in Commands, onStateChange(c) PROVE QueueInv'
  <2> DEFINE k == KeyOf[c]
  <2>1. /\ c \notin arrived /\ ArrivesInOrder(c) /\ arrived' = arrived \cup {c}
        /\ top' = top /\ executed' = executed /\ popped' = popped
    BY <1>1 DEF onStateChange
  <2>2. k \in Keys
    BY DEF Keys
  <2>3. /\ queue' = [queue EXCEPT ![k] = @ \cup {c}] /\ queueMap' = queueMap \cup {k}
        /\ pc' = [pc EXCEPT ![k] = IF k \in queueMap THEN @ ELSE "poll"]
    <3>1. CASE k \in queueMap
      BY <1>1, <2>2, <3>1 DEF onStateChange, TypeOK
    <3>2. CASE k \notin queueMap
      <4>1. queue[k] = {}
        BY <2>2, <3>2 DEF QueuesOK
      <4>2. QED BY <1>1, <2>2, <3>2, <4>1 DEF onStateChange, TypeOK
    <3>3. QED BY <3>1, <3>2
  <2> HIDE DEF k
  <2>4. \A l \in Keys : /\ queue'[l] = IF l = k THEN queue[l] \cup {c} ELSE queue[l]
                        /\ pc'[l] = IF l = k /\ k \notin queueMap THEN "poll" ELSE pc[l]
    BY <2>2, <2>3 DEF TypeOK
  <2>5. TypeOK'
    BY <2>1, <2>2, <2>3 DEF TypeOK
  <2>6. QueuesOK'
    BY <2>1, <2>2, <2>3, <2>4 DEF QueuesOK, TypeOK, k
  <2>7. TopsOK'
    <3> SUFFICES ASSUME NEW l \in Keys, pc'[l] \in {"execute", "pop"}
                 PROVE  top[l] \in Tops(queue'[l])
      BY <2>1 DEF TopsOK, Tops
    <3>1. pc[l] = pc'[l] /\ top[l] \in Tops(queue[l])
      BY <2>4 DEF TopsOK
    <3>2. CASE l # k
      BY <2>4, <3>1, <3>2
    <3>3. CASE l = k
      <4>1. top[l] \in arrived /\ KeyOf[top[l]] = KeyOf[c]
        BY <3>1, <3>3 DEF QueuesOK, Tops, k
      <4>2. Timestamp[top[l]] <= Timestamp[c]
        BY <2>1, <4>1 DEF ArrivesInOrder
      <4>3. queue'[l] = queue[l] \cup {c}
        BY <2>4, <3>3
      <4>4. /\ top[l] \in queue[l] \cup {c}
            /\ \A d \in queue[l] \cup {c} : Timestamp[top[l]] <= Timestamp[d]
        BY <3>1, <4>2 DEF Tops
      <4>5. QED BY <4>3, <4>4 DEF Tops
    <3>4. QED BY <3>2, <3>3
  <2>8. OnceOK'
    <3>1. Done' = Done /\ c \notin Done
      BY <2>1, DoneSame DEF OnceOK
    <3>2. \A l \in Keys : pc'[l] = "pop" <=> pc[l] = "pop"
      BY <2>2, <2>4 DEF QueuesOK
    <3>3. QED BY <2>1, <2>4, <3>1, <3>2 DEF OnceOK
  <2>9. QED BY <2>5, <2>6, <2>7, <2>8
<1>2. ASSUME NEW k \in Keys, takeTop(k) PROVE QueueInv'
  <2>1. PICK c \in Tops(queue[k]) : top' = [top EXCEPT ![k] = c]
    BY <1>2 DEF takeTop
  <2>2. /\ pc[k] = "poll" /\ pc' = [pc EXCEPT ![k] = "execute"]
        /\ arrived' = arrived /\ queueMap' = queueMap /\ queue' = queue
        /\ executed' = executed /\ popped' = popped
    BY <1>2 DEF takeTop
  <2>3. c \in Commands
    BY <2>1 DEF Tops, TypeOK
  <2>4. TypeOK'
    BY <2>1, <2>2, <2>3 DEF TypeOK
  <2>5. \A l \in Keys : /\ pc'[l] = IF l = k THEN "execute" ELSE pc[l]
                        /\ top'[l] = IF l = k THEN c ELSE top[l]
    BY <2>1, <2>2 DEF TypeOK
  <2>6. QueuesOK'
    BY <2>2, <2>5 DEF QueuesOK
  <2>7. TopsOK'
    BY <2>1, <2>2, <2>5 DEF TopsOK, Tops
  <2>8. OnceOK'
    BY <2>2, <2>5, DoneSame DEF OnceOK
  <2>9. QED BY <2>4, <2>6, <2>7, <2>8
<1>3. ASSUME NEW k \in Keys, removeQueue(k) PROVE QueueInv'
  <2>1. /\ pc[k] = "poll" /\ queue[k] = {} /\ pc' = [pc EXCEPT ![k] = "none"]
        /\ arrived' = arrived /\ queueMap' = queueMap \ {k} /\ queue' = queue
        /\ executed' = executed /\ popped' = popped /\ top' = top
    BY <1>3 DEF removeQueue
  <2>2. \A l \in Keys : pc'[l] = IF l = k THEN "none" ELSE pc[l]
    BY <2>1 DEF TypeOK
  <2>3. TypeOK'
    BY <2>1 DEF TypeOK
  <2>4. QueuesOK'
    BY <2>1, <2>2 DEF QueuesOK
  <2>5. TopsOK'
    BY <2>1, <2>2 DEF TopsOK, Tops
  <2>6. OnceOK'
    BY <2>1, <2>2, DoneSame DEF OnceOK
  <2>7. QED BY <2>3, <2>4, <2>5, <2>6
<1>4. ASSUME NEW k \in Keys, executeStateChangeCommand(k) PROVE QueueInv'
  <2>1. /\ pc[k] = "execute" /\ pc' = [pc EXCEPT ![k] = "pop"]
        /\ executed' = Append(executed, top[k])
        /\ arrived' = arrived /\ queueMap' = queueMap /\ queue' = queue
        /\ popped' = popped /\ top' = top
    BY <1>4 DEF executeStateChangeCommand
  <2>2. top[k] \in Tops(queue[k]) /\ top[k] \in queue[k] /\ top[k] \in Commands
    BY <2>1 DEF TopsOK, Tops, TypeOK
  <2>3. \A l \in Keys : pc'[l] = IF l = k THEN "pop" ELSE pc[l]
    BY <2>1 DEF TypeOK
  <2>4. Done' = Done \cup {top[k]}
    BY <2>1, <2>2, DoneAppend DEF TypeOK
  <2>5. TypeOK'
    <3>1. executed' \in Seq(Commands)
      BY <2>1, <2>2 DEF TypeOK
    <3>2. QED BY <2>1, <3>1 DEF TypeOK
  <2>6. QueuesOK'
    BY <2>1, <2>3 DEF QueuesOK
  <2>7. TopsOK'
    BY <2>1, <2>2, <2>3 DEF TopsOK, Tops
  <2>8. OnceOK'
    <3>1. \A l \in Keys : top[k] \in queue[l] => l = k
      BY <2>2 DEF QueuesOK
    <3>2. Done' \subseteq arrived'
      BY <2>1, <2>2, <2>4 DEF OnceOK, QueuesOK
    <3>3. QED BY <2>1, <2>3, <2>4, <3>1, <3>2 DEF OnceOK
  <2>9. QED BY <2>5, <2>6, <2>7, <2>8
<1>5. ASSUME NEW k \in Keys, popTop(k) PROVE QueueInv'
  <2>1. /\ pc[k] = "pop" /\ pc' = [pc EXCEPT ![k] = "poll"]
        /\ top' = [top EXCEPT ![k] = NoCommand]
        /\ arrived' = arrived /\ queueMap' = queueMap /\ executed' = executed
    BY <1>5 DEF popTop
  <2>2. /\ queue' = [queue EXCEPT ![k] = @ \ {top[k]}] /\ popped' = popped \cup {top[k]}
        /\ top[k] \in queue[k] /\ top[k] \in Commands
    BY <1>5, <2>1 DEF popTop, TopsOK, Tops, TypeOK
  <2>3. \A l \in Keys : /\ pc'[l] = IF l = k THEN "poll" ELSE pc[l]
                        /\ top'[l] = IF l = k THEN NoCommand ELSE top[l]
                        /\ queue'[l] = IF l = k THEN queue[l] \ {top[k]} ELSE queue[l]
    BY <2>1, <2>2 DEF TypeOK
  <2>4. TypeOK'
    BY <2>1, <2>2 DEF TypeOK
  <2>5. QueuesOK'
    BY <2>1, <2>3, ZenonT(30) DEF QueuesOK
  <2>6. TopsOK'
    BY <2>3 DEF TopsOK, Tops
  <2>7. OnceOK'
    <3>1. Done' = Done
      BY <2>1, DoneSame
    <3>2. ASSUME NEW l \in Keys
          PROVE  /\ pc'[l] = "pop" => top'[l] \in Done
                 /\ \A c \in queue'[l] \cap Done : pc'[l] = "pop" /\ c = top'[l]
      <4>1. CASE l = k
        <5>1. \A c \in queue[k] \cap Done : c = top[k]
          BY DEF OnceOK
        <5>2. pc'[l] = "poll" /\ queue'[l] = queue[k] \ {top[k]}
          BY <2>3, <4>1
        <5>3. QED BY <5>1, <5>2
      <4>2. CASE l # k
        BY <2>3, <4>2 DEF OnceOK
      <4>3. QED BY <4>1, <4>2
    <3>3. QED BY <2>1, <3>1, <3>2 DEF OnceOK
  <2>8. QED BY <2>4, <2>5, <2>6, <2>7
<1>6. CASE UNCHANGED vars
  BY <1>6 DEF vars, TypeOK, QueuesOK, TopsOK, Tops, OnceOK, Done
<1>7. QED BY <1>1, <1>2, <1>3, <1>4, <1>5, <1>6 DEF Next, Worker

\* The commands of the refinement mapping: received and not executed yet.
Accepted == UNION {queue[k] \ (IF pc[k] = "pop" THEN {top[k]} ELSE {}) : k \in Keys}

\* They are the ones in a queue that are not done.
LEMMA AcceptedIs ==
  ASSUME QueueInv
  PROVE  \A c : c \in Accepted <=> c \notin Done /\ \E k \in Keys : c \in queue[k]
  BY DEF QueueInv, Accepted, OnceOK

\* Every step of the queues is one of CommandLog, or leaves its state alone.
LEMMA PromiseStep ==
  InOrder /\ QueueInv /\ [Next]_vars => [Promise!Next]_<<Accepted, executed>>
<1> SUFFICES ASSUME InOrder, QueueInv, [Next]_vars
             PROVE  Promise!Next \/ (Accepted' = Accepted /\ executed' = executed)
  OBVIOUS
<1>1. QueueInv'
  BY QueueStep
<1>2. /\ \A c : c \in Accepted <=> c \notin Done /\ \E k \in Keys : c \in queue[k]
      /\ \A c : c \in Accepted' <=> c \notin Done' /\ \E k \in Keys : c \in queue'[k]
  <2>1. \A c : c \in Accepted' <=> c \notin Done' /\ \E k \in Keys : c \in queue'[k]
    BY <1>1 DEF QueueInv, Accepted, OnceOK
  <2>2. QED BY <2>1, AcceptedIs
<1>3. Promise!Done = Done
  BY DEF Promise!Done, Done
<1>4. ASSUME NEW c \in Commands, onStateChange(c) PROVE Promise!Accept(c)
  <2>1. KeyOf[c] \in Keys /\ executed' = executed /\ c \notin arrived
    BY <1>4 DEF Keys, onStateChange
  <2>2. Done' = Done /\ c \notin Done
    BY <2>1, DoneSame DEF QueueInv, OnceOK
  <2>3. \A k \in Keys : queue'[k] = IF k = KeyOf[c] THEN queue[k] \cup {c} ELSE queue[k]
    <3>1. CASE KeyOf[c] \in queueMap
      BY <1>4, <2>1, <3>1 DEF onStateChange, QueueInv, TypeOK
    <3>2. CASE KeyOf[c] \notin queueMap
      <4>1. queue[KeyOf[c]] = {} /\ queue' = [queue EXCEPT ![KeyOf[c]] = {c}]
        BY <1>4, <2>1, <3>2 DEF onStateChange, QueueInv, QueuesOK
      <4>2. QED BY <2>1, <4>1 DEF QueueInv, TypeOK
    <3>3. QED BY <3>1, <3>2
  <2>4. Accepted' = Accepted \cup {c}
    BY <1>2, <2>1, <2>2, <2>3
  <2>5. c \notin Accepted
    BY <1>2, <2>1 DEF QueueInv, QueuesOK
  <2>6. QED BY <1>3, <2>1, <2>2, <2>4, <2>5 DEF Promise!Accept, Accepted
<1>5. ASSUME NEW k \in Keys, executeStateChangeCommand(k)
      PROVE  \E c \in Commands : Promise!Execute(c)
  <2>1. /\ pc[k] = "execute" /\ executed' = Append(executed, top[k]) /\ queue' = queue
    BY <1>5 DEF executeStateChangeCommand
  <2>2. top[k] \in Tops(queue[k]) /\ top[k] \in queue[k] /\ top[k] \in Commands
    BY <2>1 DEF QueueInv, TopsOK, Tops, TypeOK
  <2>3. Done' = Done \cup {top[k]} /\ top[k] \notin Done
    BY <2>1, <2>2, DoneAppend DEF QueueInv, TypeOK, OnceOK
  <2>4. Accepted' = Accepted \ {top[k]} /\ top[k] \in Accepted
    BY <1>2, <2>1, <2>2, <2>3
  <2>5. \A d \in Accepted : KeyOf[d] = KeyOf[top[k]] => Timestamp[top[k]] <= Timestamp[d]
    BY <1>2, <2>2 DEF Tops, QueueInv, QueuesOK
  <2>6. PICK c \in Commands : c = top[k]
    BY <2>2
  <2>7. Promise!Execute(c)
    BY <2>1, <2>4, <2>5, <2>6 DEF Promise!Execute, Accepted
  <2>8. QED BY <2>7
<1>6. ASSUME NEW k \in Keys, takeTop(k) \/ removeQueue(k)
      PROVE  Accepted' = Accepted /\ executed' = executed
  <2>1. queue' = queue /\ executed' = executed
    BY <1>6 DEF takeTop, removeQueue
  <2>2. QED BY <1>2, <2>1, DoneSame
<1>7. ASSUME NEW k \in Keys, popTop(k) PROVE Accepted' = Accepted /\ executed' = executed
  <2>1. /\ pc[k] = "pop" /\ executed' = executed
        /\ queue' = [queue EXCEPT ![k] = @ \ {top[k]}] /\ top[k] \in Done
    BY <1>7 DEF popTop, QueueInv, TopsOK, OnceOK
  <2>2. \A l \in Keys : queue'[l] = IF l = k THEN queue[l] \ {top[k]} ELSE queue[l]
    BY <2>1 DEF QueueInv, TypeOK
  <2>3. Done' = Done
    BY <2>1, DoneSame
  <2>4. \A c : (c \notin Done /\ \E l \in Keys : c \in queue'[l])
                <=> (c \notin Done /\ \E l \in Keys : c \in queue[l])
    BY <2>1, <2>2
  <2>5. \A c : c \in Accepted' <=> c \in Accepted
    BY <1>2, <2>3, <2>4
  <2>6. QED BY <2>1, <2>5 DEF Accepted
<1>8. CASE UNCHANGED vars
  BY <1>8 DEF vars, Accepted
<1>9. QED
  <2>1. CASE \E c \in Commands : onStateChange(c)
    BY <1>4, <2>1 DEF Promise!Next
  <2>2. CASE \E k \in Keys : executeStateChangeCommand(k)
    BY <1>5, <2>2 DEF Promise!Next
  <2>3. CASE \E k \in Keys : takeTop(k) \/ removeQueue(k) \/ popTop(k)
    BY <1>6, <1>7, <2>3
  <2>4. QED BY <1>8, <2>1, <2>2, <2>3 DEF Next, Worker

\* Initially nothing is queued and nothing is done.
LEMMA QueueInit == Init => QueueInv /\ Promise!Init
<1> SUFFICES ASSUME Init PROVE QueueInv /\ Promise!Init
  OBVIOUS
<1>1. TypeOK
  BY DEF Init, TypeOK
<1>2. Done = {}
  BY DEF Init, Done
<1>3. QueuesOK /\ TopsOK /\ OnceOK
  BY <1>2 DEF Init, QueuesOK, TopsOK, OnceOK
<1>4. \A k \in Keys : queue[k] = {}
  BY DEF Init
<1>5. QED BY <1>1, <1>3, <1>4 DEF Init, QueueInv, Promise!Init

\* When the commands on a key arrive in timestamp order, every command is
\* executed at most once and only after it arrived, and in timestamp order
\* among those waiting on its key, although processStateUpdates drops the lock
\* while it executes and pops whatever is on top afterwards.
THEOREM KeepsPromiseCorrect == InOrder => (Spec => KeepsPromise)
<1> SUFFICES ASSUME InOrder PROVE Spec => KeepsPromise
  OBVIOUS
<1>1. Init => QueueInv /\ Promise!Init
  BY QueueInit
<1>2. QueueInv /\ [Next]_vars => QueueInv'
  BY QueueStep
<1>3. QueueInv /\ [Next]_vars => [Promise!Next]_<<Accepted, executed>>
  BY PromiseStep
<1>4. QED BY <1>1, <1>2, <1>3, PTL DEF Spec, KeepsPromise, Promise!Spec, Accepted
-----------------------------------------------------------------------------
(* The store, with documents queued by their entity (keyOf).                *)

\* The queues of documents, and the documents of a template.
DocKeys == Templates \cap Keys
Own(t) == {d \in Documents : Target[d] = t}

Handling == {"document", "index"}

\* The places of a command after its first step.
PlacesOf(c) ==
  IF Op[c] \in DocumentLoops THEN {"search", "next"} \cup Handling ELSE
  IF Op[c] = "addDocument" THEN Handling ELSE
    {"put", "readRoot", "link", "unlink"}
      \cup (IF Op[c] = "addTemplate" THEN {"dataTree"} ELSE {})
      \cup (IF Op[c] = "deleteTemplate" THEN {"clearData"} ELSE {})

\* A worker is at a place of its command's operation, or it holds nothing.
WorkerOK(k) == work[k] = Idle \/ (pc[k] = "execute" /\ work[k].at \in PlacesOf(top[k]))

WorkOK == \A k \in Keys : WorkerOK(k)

\* A data tree holds documents of its template that were added, and there is none,
\* nor anything done with it, before the template's own command is over.
RootOK(t) ==
  /\ ~root[t].exists => root[t].links = NoLinks
  /\ \A d \in Commands : root[t].links[d] # {} => d \in Own(t) /\ d \in Done
  /\ t \notin Done => /\ ~root[t].exists /\ work[t].at = "start"
                      /\ \A d \in Own(t) : entry[d] = {}

\* What is left to do was found by the search and nobody has changed it since.
TodoOK(t) ==
  \A d \in work[t].todo :
    /\ d \in Own(t) /\ d \in Done /\ d \in Selects[top[t]] /\ work[t].seen[d] # {}
    /\ root[t].exists => root[t].links[d] = work[t].seen[d]

\* The copy of the root is the root, unless the data tree was cleared meanwhile.
CopyOK(t) ==
  LET w == work[t]  c == top[t]
  IN w.at \in Handling =>
       /\ w.copy.exists /\ (root[t].exists => root[t] = w.copy)
       /\ \A d \in Commands : w.copy.links[d] # {} => d \in Own(t) /\ d \in Done
       /\ \A d \in w.todo : w.copy.links[d] = w.seen[d]
       /\ IF Op[c] = "addDocument" THEN w.doc = c /\ w.todo = {} ELSE w.doc \in w.todo

\* The object to index is the one in the DHT.
HashOK(t) ==
  LET w == work[t]  c == top[t]
  IN w.at = "index" =>
       /\ entry[w.doc] = w.hash
       /\ Op[c] = "deleteDocument" => w.hash = {}
       /\ Op[c] = "addDocument" => w.hash = {c} \/ (w.hash = {} /\ c \in failed)
       /\ Op[c] = "updateDocument" =>
            w.hash = w.seen[w.doc] \cup {c} \/ (w.hash = {} /\ c \in failed)

\* A deleted document is nowhere, also not where its worker would take it from.
GoneOK(t) ==
  \A d \in Own(t) \cap deleted :
    /\ d \in Done /\ entry[d] = {} /\ root[t].links[d] = {} /\ d \notin work[t].todo
    /\ work[t].at \in Handling => work[t].copy.links[d] = {}

\* Index and entry agree, in the root and in the worker's copy.
AgreeOK(t) ==
  \A d \in Own(t) \ Invalid :
    Writers(d) \cap failed = {} =>
      /\ root[t].exists /\ ~(work[t].at = "index" /\ work[t].doc = d)
           => root[t].links[d] = entry[d]
      /\ work[t].at \in Handling /\ work[t].doc # d => work[t].copy.links[d] = entry[d]

TreeInv(t) ==
  RootOK(t) /\ TodoOK(t) /\ CopyOK(t) /\ HashOK(t) /\ GoneOK(t) /\ AgreeOK(t)

StoreInv ==
  /\ QueueInv /\ StoreTypeOK /\ WorkOK
  /\ deleted \subseteq Documents
  /\ \A t \in DocKeys : TreeInv(t)

\* The types of a worker's record, and of what the store adds to the queues.
Workers == [at : Places, todo : SUBSET Documents, doc : Documents \cup {NoCommand},
            seen : Links, hash : Objects, copy : Roots]

StoreTypes ==
  /\ entry \in Links /\ root \in [Trees -> Roots] /\ work \in [Keys -> Workers]
  /\ answers \subseteq Commands \X {"ok", "exception"}
  /\ failed \subseteq Commands /\ deleted \subseteq Documents

\* The types of the store are those of the queues and of what is added here.
LEMMA StoreTypesIs == StoreTypeOK <=> TypeOK /\ StoreTypes
  BY DEF StoreTypeOK, StoreTypes, Workers

\* What a step of a worker within its command changes of the queues and of the
\* other workers: nothing, unless it is the command's last.
Moved(k) ==
  /\ UNCHANGED vars \/ (executeStateChangeCommand(k) /\ work'[k] = Idle)
  /\ \A l \in Keys \ {k} : work'[l] = work[l]
  /\ DOMAIN work' = Keys

\* Executing moves the one worker of the key, or ends its command.
LEMMA ExecuteMoves ==
  ASSUME StoreTypes, NEW k \in Keys, Execute(k) PROVE Moved(k)
<1>1. ASSUME NEW w, Go(k, w) PROVE Moved(k)
  BY <1>1 DEF Go, Moved, StoreTypes
<1>2. ASSUME End(k) PROVE Moved(k)
  BY <1>2 DEF End, Moved, StoreTypes
<1>3. (\E w : Go(k, w)) \/ End(k)
  <2>1. CASE updateChildNode(k)
    BY <2>1 DEF updateChildNode
  <2>2. CASE updateChildNode_Fails(k)
    BY <2>2 DEF updateChildNode_Fails
  <2>3. CASE putChild(k)
    BY <2>3 DEF putChild
  <2>4. CASE deleteObject(k)
    BY <2>4 DEF deleteObject
  <2>5. CASE readRoot(k)
    BY <2>5 DEF readRoot
  <2>6. CASE linkToRoot(k)
    BY <2>6 DEF linkToRoot
  <2>7. CASE unLinkToRoot(k)
    BY <2>7 DEF unLinkToRoot
  <2>8. CASE linkThrows(k)
    BY <2>8 DEF linkThrows
  <2>9. CASE buildDataTree(k) \/ clearDataTree(k)
    BY <2>9 DEF buildDataTree, clearDataTree
  <2>10. CASE updateOrDeleteDocument(k)
    BY <2>10 DEF updateOrDeleteDocument
  <2>11. CASE searchDocument(k)
    BY <2>11 DEF searchDocument
  <2>12. CASE searchDocument_Nothing(k)
    BY <2>12 DEF searchDocument_Nothing
  <2>13. CASE openDocument(k)
    BY <2>13 DEF openDocument, NextDocument
  <2>14. CASE putDocument(k)
    BY <2>14 DEF putDocument
  <2>15. CASE indexDocument(k)
    BY <2>15 DEF indexDocument, NextDocument
  <2>16. CASE indexDocument_Fails(k)
    BY <2>16 DEF indexDocument_Fails, NextDocument
  <2>17. CASE answerLoop(k)
    BY <2>17 DEF answerLoop
  <2>18. QED
    BY <2>1, <2>2, <2>3, <2>4, <2>5, <2>6, <2>7, <2>8, <2>9, <2>10, <2>11, <2>12,
       <2>13, <2>14, <2>15, <2>16, <2>17 DEF Execute
<1>4. QED BY <1>1, <1>2, <1>3

\* Every step of the store is one of the queues', or leaves them alone.
LEMMA StoreQueueStep == ASSUME StoreTypes, [StoreNext]_storeVars PROVE [Next]_vars
<1>1. ASSUME NEW c \in Commands, arrive(c) PROVE Next
  BY <1>1 DEF arrive, Next
<1>2. ASSUME NEW k \in Keys, takeTop(k) \/ popTop(k) \/ removeQueue(k) PROVE Next
  BY <1>2 DEF Next, Worker
<1>3. ASSUME NEW k \in Keys, Execute(k) PROVE [Next]_vars
  <2>1. Moved(k)
    BY <1>3, ExecuteMoves
  <2>2. QED BY <2>1 DEF Moved, Next, Worker
<1>4. CASE UNCHANGED storeVars
  BY <1>4 DEF storeVars
<1>5. QED BY <1>1, <1>2, <1>3, <1>4 DEF StoreNext, StoreWorker

-----------------------------------------------------------------------------
(* Constants, types and the place of each worker.                           *)

\* Documents and commands on documents are queued under their template, the
\* others under their operation.
LEMMA Kinds ==
  ASSUME KeyOf = keyOf
  PROVE  /\ \A d \in Documents : d \in Commands /\ Target[d] \in DocKeys /\ d \in Own(Target[d])
         /\ \A c \in Commands : IF Op[c] \in DocumentOps THEN KeyOf[c] = Target[c] /\ Target[c] \in DocKeys
                                ELSE KeyOf[c] \notin Commands
         /\ \A c \in Commands : Target[c] \in Commands /\ treeOf(c) \in Trees /\ treeOf(c) \notin Commands
         /\ \A c \in Commands : Op[c] \notin DocumentOps => Target[c] \notin Documents
         /\ \A t \in Templates : t \in Trees /\ t \in Commands
         /\ \A c \in Commands : Op[c] = "deleteTemplate" => Target[c] \in Templates
<1>1. ASSUME NEW c \in Commands
      PROVE  /\ Target[c] \in Commands /\ treeOf(c) \in Trees /\ treeOf(c) \notin Commands
             /\ Op[c] \in Adds \cup Updates \cup Deletes \cup DocumentOps
             /\ KeyOf[c] = IF Op[c] \in DocumentOps THEN Target[c] ELSE Op[c]
             /\ KeyOf[c] \in Keys
  BY TargetsAssumption, OpsAssumption DEF treeOf, Trees, keyOf, Keys
<1>2. \A c \in Commands : Op[c] \in DocumentOps => Target[c] \in Templates
  BY TargetsAssumption
<1>3. \A c \in Commands : IF Op[c] \in DocumentOps THEN KeyOf[c] = Target[c] /\ Target[c] \in DocKeys
                          ELSE KeyOf[c] \notin Commands
  <2>1. ASSUME NEW c \in Commands, Op[c] \in DocumentOps
        PROVE  KeyOf[c] = Target[c] /\ Target[c] \in DocKeys
    BY <1>1, <1>2, <2>1 DEF DocKeys
  <2>2. ASSUME NEW c \in Commands, Op[c] \notin DocumentOps PROVE KeyOf[c] \notin Commands
    BY <1>1, <2>2, TargetsAssumption
  <2>3. QED BY <2>1, <2>2
<1>4. \A d \in Documents : d \in Commands /\ Target[d] \in DocKeys /\ d \in Own(Target[d])
  <2>1. \A d \in Documents : d \in Commands /\ Op[d] \in DocumentOps
    BY DEF Documents, DocumentOps
  <2>2. QED BY <1>3, <2>1 DEF Own
<1>5. \A c \in Commands : Op[c] \notin DocumentOps => Target[c] \notin Documents
  <2> SUFFICES ASSUME NEW c \in Commands, Op[c] \notin DocumentOps PROVE Op[Target[c]] # "addDocument"
    BY DEF Documents
  <2>1. CASE Op[c] \in Adds
    BY <2>1, TargetsAssumption DEF Adds
  <2>2. CASE Op[c] \in {"updateFunction", "deleteFunction"}
    BY <2>2, TargetsAssumption
  <2>3. CASE Op[c] \in {"updateTemplate", "deleteTemplate"}
    BY <2>3, TargetsAssumption DEF Templates
  <2>4. QED BY <1>1, <2>1, <2>2, <2>3 DEF Updates, Deletes
<1>6. \A c \in Commands : Op[c] = "deleteTemplate" => Target[c] \in Templates
  BY TargetsAssumption
<1>7. \A t \in Templates : t \in Trees /\ t \in Commands
  BY DEF Templates, Trees
<1>8. QED BY <1>1, <1>3, <1>4, <1>5, <1>6, <1>7

\* The command a worker is at: not done yet, and of the worker's own queue.
LEMMA Running ==
  ASSUME KeyOf = keyOf, QueueInv, NEW k \in Keys, pc[k] = "execute"
  PROVE  /\ top[k] \in Commands /\ top[k] \notin Done /\ KeyOf[top[k]] = k
         /\ Op[top[k]] \in DocumentOps => k = Target[top[k]] /\ k \in DocKeys
         /\ Op[top[k]] \notin DocumentOps => k \notin DocKeys
<1>1. top[k] \in queue[k] /\ top[k] \in Commands /\ top[k] \notin Done
  BY DEF QueueInv, TopsOK, Tops, TypeOK, OnceOK
<1>2. KeyOf[top[k]] = k
  BY <1>1 DEF QueueInv, QueuesOK
<1>3. QED BY <1>1, <1>2, Kinds DEF DocKeys

\* What is done stays done.
LEMMA DoneGrows ==
  ASSUME QueueInv, [Next]_vars, NEW k
  PROVE  /\ Done \subseteq Done'
         /\ executeStateChangeCommand(k) /\ k \in Keys => Done' = Done \cup {top[k]}
         /\ UNCHANGED vars => Done' = Done
<1>1. ASSUME NEW l \in Keys, executeStateChangeCommand(l) PROVE Done' = Done \cup {top[l]}
  <2>1. top[l] \in Commands /\ executed \in Seq(Commands)
    BY <1>1 DEF QueueInv, TopsOK, Tops, TypeOK, executeStateChangeCommand
  <2>2. PICK c \in Commands : c = top[l]
    BY <2>1
  <2>3. executed' = Append(executed, c)
    BY <1>1, <2>2 DEF executeStateChangeCommand
  <2>4. QED BY <2>1, <2>2, <2>3, DoneAppend
<1>2. executed' = executed \/ \E l \in Keys : executeStateChangeCommand(l)
  BY DEF Next, Worker, vars, onStateChange, takeTop, popTop, removeQueue
<1>3. QED BY <1>1, <1>2, DoneSame DEF vars

-----------------------------------------------------------------------------
(* The invariant of a data tree.                                            *)

\* What is done and what has failed only grows, and what is not own is not touched.
LEMMA TreeFrame ==
  ASSUME NEW t \in DocKeys, TreeInv(t), root'[t] = root[t], work'[t] = work[t],
         \A d \in Own(t) : entry'[d] = entry[d],
         deleted' \cap Own(t) = deleted \cap Own(t),
         failed \subseteq failed', Done \subseteq Done',
         top'[t] = top[t] \/ work[t] = Idle,
         work[t].at = "index" => work[t].doc \in Own(t)
  PROVE  TreeInv(t)'
<1>1. RootOK(t)'
  BY DEF TreeInv, RootOK
<1>2. TodoOK(t)'
  <2>1. CASE top'[t] = top[t]
    BY <2>1 DEF TreeInv, TodoOK
  <2>2. CASE work[t] = Idle
    BY <2>2 DEF TodoOK, Idle
  <2>3. QED BY <2>1, <2>2
<1>3. CopyOK(t)' /\ HashOK(t)'
  <2>1. CASE top'[t] = top[t]
    BY <2>1 DEF TreeInv, CopyOK, HashOK
  <2>2. CASE work[t] = Idle
    BY <2>2 DEF CopyOK, HashOK, Idle, Handling
  <2>3. QED BY <2>1, <2>2
<1>4. GoneOK(t)'
  BY DEF TreeInv, GoneOK
<1>5. AgreeOK(t)'
  BY DEF TreeInv, AgreeOK, Writers
<1>6. QED BY <1>1, <1>2, <1>3, <1>4, <1>5 DEF TreeInv

\* The data tree is made, for the first time, or cleared.
LEMMA TreeReset ==
  ASSUME NEW t \in DocKeys, TreeInv(t), work'[t] = work[t], top'[t] = top[t],
         \A d \in Own(t) : entry'[d] = entry[d],
         deleted' \cap Own(t) = deleted \cap Own(t),
         failed \subseteq failed', Done \subseteq Done',
         work[t].at = "index" => work[t].doc \in Own(t),
         \/ root'[t] = NoRoot
         \/ root'[t] = EmptyRoot /\ t \notin Done /\ t \in Done',
         work[t].at = "start" => work[t].todo = {}
  PROVE  TreeInv(t)'
<1>1. /\ root'[t].links = NoLinks /\ \A d \in Commands : root'[t].links[d] = {}
      /\ root'[t].exists => /\ t \notin Done /\ t \in Done' /\ work[t].at = "start"
                            /\ \A d \in Own(t) : entry'[d] = {}
  <2>1. /\ root'[t].links = NoLinks
        /\ root'[t].exists => t \notin Done /\ t \in Done'
    BY DEF NoRoot, EmptyRoot
  <2>2. \A d \in Commands : NoLinks[d] = {}
    BY DEF NoLinks
  <2>3. t \notin Done => work[t].at = "start" /\ \A d \in Own(t) : entry[d] = {}
    BY DEF TreeInv, RootOK
  <2>4. QED BY <2>1, <2>2, <2>3
<1>2. Own(t) \subseteq Commands
  BY DEF Own, Documents
<1>3. RootOK(t)'
  <2>1. t \notin Done' => ~root'[t].exists
    BY <1>1
  <2>2. QED BY <1>1, <2>1 DEF TreeInv, RootOK
<1>4. TodoOK(t)'
  BY <1>1 DEF TreeInv, TodoOK
<1>5. CopyOK(t)' /\ HashOK(t)'
  BY <1>1 DEF TreeInv, CopyOK, HashOK, Handling
<1>6. GoneOK(t)'
  BY <1>1, <1>2 DEF TreeInv, GoneOK
<1>7. AgreeOK(t)'
  <2> SUFFICES ASSUME NEW d \in Own(t) \ Invalid, Writers(d) \cap failed' = {}
               PROVE  /\ root'[t].exists => root'[t].links[d] = entry'[d]
                      /\ work[t].at \in Handling /\ work[t].doc # d =>
                           work[t].copy.links[d] = entry'[d]
    BY DEF AgreeOK, Writers
  <2>1. Writers(d) \cap failed = {}
    OBVIOUS
  <2>2. QED BY <1>1, <1>2, <2>1 DEF TreeInv, AgreeOK
<1>8. QED BY <1>3, <1>4, <1>5, <1>6, <1>7 DEF TreeInv

\* The worker itself goes on to a place where it holds no copy of the root.
LEMMA TreeQuiet ==
  ASSUME NEW t \in DocKeys, TreeInv(t), root'[t] = root[t],
         \A d \in Own(t) :
           \/ entry'[d] = entry[d]
           \/ d \notin deleted /\ t \in Done /\ Writers(d) \cap failed' # {},
         deleted' = deleted, failed \subseteq failed', Done \subseteq Done',
         work'[t].at \in {"start", "search", "next"},
         t \notin Done' => work'[t].at = "start",
         \A d \in work'[t].todo :
           /\ d \in Own(t) /\ d \in Done' /\ d \in Selects[top'[t]] /\ d \notin deleted
           /\ work'[t].seen[d] # {}
           /\ root[t].exists => root[t].links[d] = work'[t].seen[d],
         work[t].at = "index" => Writers(work[t].doc) \cap failed' # {} \/ work[t].doc \in Invalid
  PROVE  TreeInv(t)'
<1>1. RootOK(t)'
  BY DEF TreeInv, RootOK
<1>2. TodoOK(t)'
  BY DEF TodoOK
<1>3. CopyOK(t)' /\ HashOK(t)'
  BY DEF CopyOK, HashOK, Handling
<1>4. GoneOK(t)'
  BY DEF TreeInv, GoneOK, Handling
<1>5. AgreeOK(t)'
  <2> SUFFICES ASSUME NEW d \in Own(t) \ Invalid, Writers(d) \cap failed' = {}, root'[t].exists
               PROVE  root'[t].links[d] = entry'[d]
    BY DEF AgreeOK, Handling, Writers
  <2>1. Writers(d) \cap failed = {}
    OBVIOUS
  <2>2. ~(work[t].at = "index" /\ work[t].doc = d)
    OBVIOUS
  <2>3. QED BY <2>1, <2>2 DEF TreeInv, AgreeOK
<1>6. QED BY <1>1, <1>2, <1>3, <1>4, <1>5 DEF TreeInv

-----------------------------------------------------------------------------
(* The steps of a worker of documents.                                      *)

\* Other data trees, their documents and what is known of them stay as they are.
Apart(t) ==
  /\ \A u \in Trees \ {t} : root'[u] = root[u]
  /\ \A d \in Commands \ Own(t) : entry'[d] = entry[d] /\ (d \in deleted' <=> d \in deleted)
  /\ failed \subseteq failed'

DocStepOK(t) == StoreTypes' /\ WorkerOK(t)' /\ TreeInv(t)' /\ Apart(t)

\* What holds before any such step.
LEMMA DocWorker ==
  ASSUME KeyOf = keyOf, StoreInv, NEW t \in DocKeys, pc[t] = "execute"
  PROVE  /\ t \in Keys /\ t \in Trees /\ t \in Commands
         /\ top[t] \in Commands /\ top[t] \notin Done /\ Target[top[t]] = t
         /\ Op[top[t]] \in DocumentOps
         /\ StoreTypes /\ TreeInv(t) /\ work[t] \in Workers /\ root[t] \in Roots
         /\ WorkerOK(t)
         /\ Own(t) \subseteq Commands /\ Own(t) \subseteq Documents
         /\ Op[top[t]] = "addDocument" => top[t] \in Own(t)
<1>1. t \in Keys /\ t \in Trees /\ t \in Commands
  BY Kinds DEF DocKeys
<1>2. StoreTypes
  BY StoreTypesIs DEF StoreInv
<1>3. QED
  BY <1>1, <1>2, Running DEF StoreInv, StoreTypes, WorkOK, Own, Documents

\* An idle worker.
LEMMA IdleIs ==
  /\ Idle \in Workers /\ Idle.at = "start" /\ Idle.todo = {}
  /\ NoRoot \in Roots /\ EmptyRoot \in Roots
  /\ NoRoot.exists = FALSE /\ NoLinks \in Links /\ \A c \in Commands : NoLinks[c] = {}
  BY DEF Idle, Workers, Places, NoRoot, EmptyRoot, Roots, NoLinks, Links, Objects

\* The operation a worker of documents is at.
LEMMA DocPlace ==
  ASSUME KeyOf = keyOf, StoreInv, NEW t \in DocKeys, pc[t] = "execute"
  PROVE  /\ Op[top[t]] \in DocumentLoops \/ Op[top[t]] = "addDocument"
         /\ work[t].at \in {"search", "next"} => Op[top[t]] \in DocumentLoops
         /\ work[t].at = "start" => work[t] = Idle
<1>1. Op[top[t]] \in DocumentLoops \/ Op[top[t]] = "addDocument"
  BY DocWorker DEF DocumentOps
<1>2. work[t] = Idle \/ work[t].at \in PlacesOf(top[t])
  BY DocWorker DEF WorkerOK
<1>3. QED BY <1>1, <1>2, IdleIs DEF PlacesOf, Handling

\* The document it handles.
LEMMA DocHandled ==
  ASSUME KeyOf = keyOf, StoreInv, NEW t \in DocKeys, pc[t] = "execute",
         work[t].at \in Handling
  PROVE  /\ work[t].doc \in Own(t) /\ work[t].doc \in Commands /\ work[t].doc \notin deleted
         /\ top[t] \in Writers(work[t].doc) /\ t \in Done
         /\ Op[top[t]] # "addDocument" => work[t].doc \in Done
<1>1. t \in Done
  BY DocWorker DEF TreeInv, RootOK, Handling
<1>2. CASE Op[top[t]] = "addDocument"
  <2>1. work[t].doc = top[t]
    BY <1>2, DocWorker DEF TreeInv, CopyOK
  <2>2. QED BY <1>1, <1>2, <2>1, DocWorker DEF TreeInv, GoneOK, Writers
<1>3. CASE Op[top[t]] \in DocumentLoops
  <2>1. work[t].doc \in work[t].todo
    BY <1>3, DocWorker DEF TreeInv, CopyOK, DocumentLoops
  <2>2. QED BY <1>1, <1>3, <2>1, DocWorker DEF TreeInv, TodoOK, GoneOK, Writers
<1>4. QED BY <1>2, <1>3, DocPlace

\* The last step of a command, where it writes nothing.
LEMMA DocEnd ==
  ASSUME KeyOf = keyOf, StoreInv, NEW t \in DocKeys, pc[t] = "execute", End(t),
         entry' = entry, root' = root, deleted' = deleted,
         failed' = failed \/ failed' = failed \cup {top[t]},
         answers' \subseteq Commands \X {"ok", "exception"},
         work[t].at = "index" => Writers(work[t].doc) \cap failed' # {} \/ work[t].doc \in Invalid
  PROVE  DocStepOK(t)
<1>1. t \in Keys /\ top[t] \in Commands /\ StoreTypes /\ TreeInv(t)
  BY DocWorker
<1>2. /\ work' = [work EXCEPT ![t] = Idle] /\ executeStateChangeCommand(t)
      /\ pc' = [pc EXCEPT ![t] = "pop"]
  BY DEF End, executeStateChangeCommand
<1>3. Done \subseteq Done' /\ pc'[t] = "pop" /\ work'[t] = Idle
  <2>1. [Next]_vars
    BY <1>1, <1>2 DEF Next, Worker
  <2>2. QED BY <1>1, <1>2, <2>1, DoneGrows DEF StoreInv, QueueInv, TypeOK, StoreTypes
<1>4. StoreTypes'
  BY <1>1, <1>2, IdleIs DEF StoreTypes
<1>5. TreeInv(t)'
  BY <1>1, <1>3, IdleIs, TreeQuiet
<1>6. QED BY <1>3, <1>4, <1>5 DEF DocStepOK, WorkerOK, Apart

\* The worker goes on: what does not change, and its types.
LEMMA DocGo ==
  ASSUME KeyOf = keyOf, StoreInv, NEW t \in DocKeys, pc[t] = "execute", NEW w, Go(t, w)
  PROVE  /\ work'[t] = w /\ Done' = Done /\ top' = top /\ pc' = pc /\ pc'[t] = "execute"
         /\ w \in Workers => work' \in [Keys -> Workers]
         /\ w.at \in PlacesOf(top[t]) => WorkerOK(t)'
<1>1. t \in Keys /\ StoreTypes
  BY DocWorker
<1>2. work' = [work EXCEPT ![t] = w] /\ UNCHANGED vars
  BY DEF Go
<1>3. Done' = Done /\ top' = top /\ pc' = pc
  BY <1>2, DoneSame DEF vars
<1>4. QED BY <1>1, <1>2, <1>3 DEF StoreTypes, WorkerOK

\* Commands that answer.
LEMMA Told ==
  ASSUME StoreTypes, NEW c \in Commands, NEW what \in {"ok", "exception"}, tell(c, what)
  PROVE  answers' \subseteq Commands \X {"ok", "exception"}
  BY DEF tell, StoreTypes

\* The first step of an update or a deletion keeps its tree in order.
LEMMA UpdateOrDelete ==
  ASSUME KeyOf = keyOf, StoreInv, NEW t \in DocKeys, pc[t] = "execute", updateOrDeleteDocument(t)
  PROVE  DocStepOK(t)
<1>1. PICK r \in {root[t], NoRoot} :
        /\ dhtGet(top[t], t, r)
        /\ IF r.exists THEN Go(t, [Idle EXCEPT !.at = "search"]) /\ UNCHANGED answers
                       ELSE End(t) /\ tell(top[t], "exception")
  BY DocWorker DEF updateOrDeleteDocument
<1>2. /\ work[t].at = "start" /\ Op[top[t]] \in DocumentLoops
      /\ entry' = entry /\ root' = root /\ deleted' = deleted
  BY DEF updateOrDeleteDocument, At
<1>3. failed' = failed \/ failed' = failed \cup {top[t]}
  BY <1>1 DEF dhtGet, FailIf, Fail
<1>4. CASE ~r.exists
  <2>1. End(t) /\ tell(top[t], "exception")
    BY <1>1, <1>4
  <2>2. answers' \subseteq Commands \X {"ok", "exception"}
    BY <2>1, DocWorker DEF tell, StoreTypes
  <2>3. QED BY <1>2, <1>3, <2>1, <2>2, DocEnd
<1>5. CASE r.exists
  <2> DEFINE w == [Idle EXCEPT !.at = "search"]
  <2>1. w.at = "search" /\ w.todo = {} /\ w \in Workers
    BY DEF Idle, Workers, Places, NoRoot, Roots, NoLinks, Links, Objects
  <2>2. Go(t, w) /\ answers' = answers
    BY <1>1, <1>5
  <2> HIDE DEF w
  <2>3. work'[t] = w /\ Done' = Done /\ work' \in [Keys -> Workers] /\ WorkerOK(t)'
    BY <1>2, <2>1, <2>2, DocGo DEF PlacesOf
  <2>4. root[t].exists /\ t \in Done
    BY <1>1, <1>5, IdleIs, DocWorker DEF TreeInv, RootOK
  <2>5. StoreTypes'
    BY <1>2, <1>3, <2>2, <2>3, DocWorker DEF StoreTypes
  <2>6. TreeInv(t)'
    BY <1>2, <1>3, <2>1, <2>3, <2>4, DocWorker, TreeQuiet
  <2>7. QED BY <1>2, <1>3, <2>3, <2>5, <2>6 DEF DocStepOK, Apart
<1>6. QED BY <1>4, <1>5

\* So does the search for the documents it selects.
LEMMA Search ==
  ASSUME KeyOf = keyOf, StoreInv, NEW t \in DocKeys, pc[t] = "execute", searchDocument(t)
  PROVE  DocStepOK(t)
<1> DEFINE c == top[t]
           found == {d \in Selects[c] : root[t].links[d] # {}}
           w == [Idle EXCEPT !.at = "next", !.todo = found, !.seen = root[t].links]
<1>1. /\ work[t].at = "search" /\ found # {} /\ Go(t, w)
      /\ entry' = entry /\ root' = root /\ deleted' = deleted /\ failed' = failed
      /\ answers' = answers
  BY DocWorker, ZenonT(30) DEF searchDocument, At, docVars
<1>2. c \in Commands /\ Op[c] \in DocumentLoops
  BY <1>1, DocWorker, DocPlace
<1>3. \A d \in found : d \in Own(t) /\ d \in Done /\ d \in Selects[c] /\ d \notin deleted
  BY <1>2, DocWorker, OpsAssumption DEF TreeInv, RootOK, GoneOK
<1>4. t \in Done
  <2>1. PICK d \in found : root[t].links[d] # {}
    BY <1>1
  <2>2. d \in Commands
    BY <1>3, DocWorker
  <2>3. root[t].exists
    BY <2>1, <2>2, DocWorker, IdleIs DEF TreeInv, RootOK
  <2>4. QED BY <2>3, DocWorker DEF TreeInv, RootOK
<1>5. w.at = "next" /\ w.todo = found /\ w.seen = root[t].links
  BY DEF Idle
<1>6. w \in Workers
  <2>1. found \subseteq Documents /\ root[t].links \in Links
    BY <1>3, DocWorker DEF Roots
  <2> HIDE DEF found
  <2>2. QED BY <2>1 DEF Idle, Workers, Places, NoRoot, Roots, NoLinks, Links, Objects
<1> HIDE DEF w
<1>7. work'[t] = w /\ Done' = Done /\ top' = top /\ work' \in [Keys -> Workers] /\ WorkerOK(t)'
  BY <1>1, <1>2, <1>5, <1>6, DocGo DEF PlacesOf
<1>8. StoreTypes'
  BY <1>1, <1>7, DocWorker DEF StoreTypes
<1>9. TreeInv(t)'
  <2>1. \A d \in w.todo : w.seen[d] # {} /\ root[t].links[d] = w.seen[d]
    BY <1>5
  <2>2. \A d \in w.todo : d \in Own(t) /\ d \in Done /\ d \in Selects[c] /\ d \notin deleted
    BY <1>3, <1>5
  <2> HIDE DEF found
  <2>3. QED BY <1>1, <1>4, <1>5, <1>7, <2>1, <2>2, DocWorker, TreeQuiet
<1>10. QED BY <1>1, <1>7, <1>8, <1>9 DEF DocStepOK, Apart

\* The searches that end the command, and the answer at the end of the loop.
LEMMA SearchEnds ==
  ASSUME KeyOf = keyOf, StoreInv, NEW t \in DocKeys, pc[t] = "execute",
         searchDocument_Nothing(t) \/ answerLoop(t)
  PROVE  DocStepOK(t)
<1>1. /\ work[t].at # "index" /\ End(t)
      /\ entry' = entry /\ root' = root /\ deleted' = deleted
  BY DEF searchDocument_Nothing, answerLoop, At
<1>2. failed' = failed \/ failed' = failed \cup {top[t]}
  BY DEF searchDocument_Nothing, answerLoop, addObjectAndSend, FailIf, Fail
<1>3. \/ answers' = answers
      \/ \E what \in {"ok", "exception"} : answers' = answers \cup {<<top[t], what>>}
  BY DEF searchDocument_Nothing, answerLoop, addObjectAndSend, tell
<1>4. answers' \subseteq Commands \X {"ok", "exception"}
  BY <1>3, DocWorker DEF StoreTypes
<1>5. QED BY <1>1, <1>2, <1>4, DocEnd

\* The loop goes on with the rest of the documents.
LEMMA DocNext ==
  ASSUME KeyOf = keyOf, StoreInv, NEW t \in DocKeys, pc[t] = "execute",
         NEW d, Op[top[t]] \in DocumentLoops, work[t].at \in {"next", "index"},
         NextDocument(t, d)
  PROVE  /\ work'[t].at = "next" /\ work'[t].todo = work[t].todo \ {d}
         /\ work'[t].seen = work[t].seen /\ Done' = Done /\ top' = top
         /\ work' \in [Keys -> Workers] /\ WorkerOK(t)' /\ t \in Done
<1> DEFINE w == [Idle EXCEPT !.at = "next", !.todo = work[t].todo \ {d}, !.seen = work[t].seen]
<1>1. Go(t, w)
  BY DEF NextDocument, DocumentLoops
<1>2. w.at = "next" /\ w.todo = work[t].todo \ {d} /\ w.seen = work[t].seen
  BY DEF Idle
<1>3. w \in Workers
  <2>1. work[t].todo \ {d} \subseteq Documents /\ work[t].seen \in Links
    BY DocWorker DEF Workers
  <2>2. QED BY <2>1 DEF Idle, Workers, Places, NoRoot, Roots, NoLinks, Links, Objects
<1> HIDE DEF w
<1>4. t \in Done
  BY DocWorker DEF TreeInv, RootOK
<1>5. QED BY <1>1, <1>2, <1>3, <1>4, DocGo DEF PlacesOf

\* Records of a worker that handles a document.
LEMMA WorkerRecords ==
  /\ \A v \in Workers, d \in Documents, r \in Roots :
       [v EXCEPT !.at = "document", !.doc = d, !.copy = r] \in Workers
  /\ \A v \in Workers, h \in Objects : [v EXCEPT !.at = "index", !.hash = h] \in Workers
<1>1. "document" \in Places /\ "index" \in Places
  BY DEF Places
<1>2. ASSUME NEW v \in Workers, NEW d \in Documents, NEW r \in Roots
      PROVE  [v EXCEPT !.at = "document", !.doc = d, !.copy = r] \in Workers
  BY <1>1 DEF Workers
<1>3. ASSUME NEW v \in Workers, NEW h \in Objects
      PROVE  [v EXCEPT !.at = "index", !.hash = h] \in Workers
  BY <1>1 DEF Workers
<1>4. QED BY <1>2, <1>3

\* So does opening the next of them.
LEMMA OpenDocument ==
  ASSUME KeyOf = keyOf, StoreInv, NEW t \in DocKeys, pc[t] = "execute", openDocument(t)
  PROVE  DocStepOK(t)
<1> DEFINE c == top[t]
           docs == IF Op[c] = "addDocument" THEN {c} ELSE work[t].todo
<1>1. /\ IF Op[c] = "addDocument" THEN work[t].at = "start" ELSE work[t].at = "next"
      /\ entry' = entry /\ root' = root /\ deleted' = deleted
  BY DEF openDocument, At
<1>2. PICK d \in docs, r \in {root[t], NoRoot} :
        /\ dhtGet(c, t, r)
        /\ IF r.exists
           THEN Go(t, [work[t] EXCEPT !.at = "document", !.doc = d, !.copy = r])
           ELSE NextDocument(t, d)
        /\ IF ~r.exists \/ (d = c /\ c \in Invalid)
           THEN tell(c, "exception") ELSE UNCHANGED answers
  BY DocWorker, ZenonT(30) DEF openDocument
<1>3. failed' = failed \/ failed' = failed \cup {c}
  BY <1>2 DEF dhtGet, FailIf, Fail
<1>4. answers' \subseteq Commands \X {"ok", "exception"}
  BY <1>2, DocWorker DEF tell, StoreTypes
<1>5. CASE ~r.exists /\ Op[c] = "addDocument"
  BY <1>1, <1>2, <1>3, <1>4, <1>5, DocEnd DEF NextDocument
<1>6. CASE ~r.exists /\ Op[c] \in DocumentLoops
  <2>1. work[t].at = "next" /\ NextDocument(t, d)
    BY <1>1, <1>2, <1>6 DEF DocumentLoops
  <2>2. /\ work'[t].at = "next" /\ work'[t].todo = work[t].todo \ {d}
        /\ work'[t].seen = work[t].seen /\ Done' = Done /\ top' = top
        /\ work' \in [Keys -> Workers] /\ WorkerOK(t)' /\ t \in Done
    BY <1>6, <2>1, DocNext
  <2>3. StoreTypes'
    BY <1>1, <1>3, <1>4, <2>2, DocWorker DEF StoreTypes
  <2>4. TreeInv(t)'
    <3>1. \A e \in work[t].todo :
            /\ e \in Own(t) /\ e \in Done /\ e \in Selects[c] /\ e \notin deleted
            /\ work[t].seen[e] # {} /\ (root[t].exists => root[t].links[e] = work[t].seen[e])
      BY DocWorker DEF TreeInv, TodoOK, GoneOK
    <3>2. QED BY <1>1, <1>3, <2>1, <2>2, <3>1, DocWorker, TreeQuiet
  <2>5. QED BY <1>1, <1>3, <2>2, <2>3, <2>4 DEF DocStepOK, Apart
<1>7. CASE r.exists
  <2> DEFINE w == [work[t] EXCEPT !.at = "document", !.doc = d, !.copy = root[t]]
  <2>1. r = root[t] /\ root[t].exists
    BY <1>2, <1>7, IdleIs
  <2>2. Go(t, w)
    BY <1>2, <1>7, <2>1
  <2>3. /\ w.at = "document" /\ w.doc = d /\ w.copy = root[t] /\ w.todo = work[t].todo
        /\ w.seen = work[t].seen
    BY DocWorker DEF Workers
  <2>4. IF Op[c] = "addDocument" THEN d = c /\ work[t].todo = {} ELSE d \in work[t].todo
    BY <1>1, DocPlace, IdleIs
  <2>5. d \in Documents
    BY <2>4, DocWorker DEF TreeInv, TodoOK
  <2>6. w \in Workers
    BY <2>5, DocWorker, WorkerRecords
  <2> HIDE DEF w, docs
  <2>7. work'[t] = w /\ Done' = Done /\ top' = top /\ work' \in [Keys -> Workers] /\ WorkerOK(t)'
    <3>1. w.at \in PlacesOf(c)
      BY <2>3, DocPlace DEF PlacesOf, Handling
    <3>2. QED BY <2>2, <2>6, <3>1, DocGo
  <2>8. StoreTypes'
    BY <1>1, <1>3, <1>4, <2>7, DocWorker DEF StoreTypes
  <2>9. RootOK(t) /\ TodoOK(t) /\ GoneOK(t) /\ AgreeOK(t) /\ t \in Done /\ work[t].at # "index"
    BY <1>1, <2>1, DocWorker DEF TreeInv, RootOK
  <2>10. RootOK(t)' /\ TodoOK(t)'
    BY <1>1, <2>3, <2>7, <2>9 DEF RootOK, TodoOK
  <2>11. CopyOK(t)'
    BY <1>1, <2>1, <2>3, <2>4, <2>7, <2>9 DEF CopyOK, RootOK, TodoOK
  <2>12. HashOK(t)' /\ GoneOK(t)'
    BY <1>1, <2>3, <2>7, <2>9 DEF HashOK, GoneOK
  <2>13. AgreeOK(t)'
    <3> SUFFICES ASSUME NEW e \in Own(t) \ Invalid, Writers(e) \cap failed' = {}
                 PROVE  root[t].links[e] = entry[e]
      BY <1>1, <2>3, <2>7 DEF AgreeOK, Writers
    <3>1. Writers(e) \cap failed = {}
      BY <1>3
    <3>2. QED BY <2>1, <2>9, <3>1 DEF AgreeOK
  <2>14. QED
    BY <1>1, <1>3, <2>7, <2>8, <2>10, <2>11, <2>12, <2>13 DEF DocStepOK, Apart, TreeInv
<1>8. QED BY <1>5, <1>6, <1>7, DocPlace

\* So does writing the new entry.
LEMMA PutDocument ==
  ASSUME KeyOf = keyOf, StoreInv, NEW t \in DocKeys, pc[t] = "execute", putDocument(t)
  PROVE  DocStepOK(t)
<1> DEFINE c == top[t]
           v == work[t]
           object == IF Op[c] = "deleteDocument" THEN {} ELSE
                     IF Op[c] = "addDocument" THEN {c} ELSE v.seen[v.doc] \cup {c}
<1>1. v.at = "document" /\ root' = root /\ deleted' = deleted
  BY DEF putDocument, At
<1>2. PICK hash \in {object, {}}, sent \in {TRUE, Op[c] # "addDocument"} :
        /\ IF Op[c] = "addDocument" THEN addObjectAndSend(c, object, hash, sent)
                   ELSE FailIf(hash # object, c) /\ UNCHANGED answers
        /\ entry' = [entry EXCEPT ![v.doc] = hash]
        /\ IF sent THEN Go(t, [v EXCEPT !.at = "index", !.hash = hash]) ELSE End(t)
  BY DEF putDocument
<1>3. failed' = failed \/ failed' = failed \cup {c}
  BY <1>2 DEF addObjectAndSend, FailIf, Fail
<1>4. answers' \subseteq Commands \X {"ok", "exception"}
  BY <1>2, DocWorker DEF addObjectAndSend, StoreTypes
<1>5. /\ v.doc \in Own(t) /\ v.doc \in Commands /\ v.doc \notin deleted
      /\ c \in Writers(v.doc) /\ t \in Done
  BY <1>1, DocHandled DEF Handling
<1>6. hash \subseteq Commands
  <2>1. v.seen[v.doc] \subseteq Commands /\ c \in Commands
    BY <1>5, DocWorker DEF Workers, Links, Objects
  <2>2. QED BY <2>1
<1>7. \A d \in Commands : entry'[d] = IF d = v.doc THEN hash ELSE entry[d]
  BY <1>2, <1>5, DocWorker DEF StoreTypes, Links
<1>8. entry' \in Links
  BY <1>2, <1>5, <1>6, DocWorker DEF StoreTypes, Links, Objects
<1>9. Apart(t)
  BY <1>1, <1>3, <1>5, <1>7 DEF Apart
<1>10. CASE ~sent
  <2>1. End(t) /\ Op[c] = "addDocument" /\ c \in failed'
    BY <1>2, <1>10 DEF addObjectAndSend, FailIf, Fail
  <2>2. /\ work' = [work EXCEPT ![t] = Idle] /\ executeStateChangeCommand(t)
    BY <2>1 DEF End
  <2>3. Done \subseteq Done' /\ work'[t] = Idle
    <3>1. [Next]_vars
      BY <2>2, DocWorker DEF Next, Worker
    <3>2. QED BY <2>2, <3>1, DoneGrows, DocWorker DEF StoreInv, StoreTypes
  <2>4. StoreTypes'
    BY <1>1, <1>3, <1>4, <1>8, <2>2, IdleIs, DocWorker DEF StoreTypes
  <2>5. \A d \in Own(t) : \/ entry'[d] = entry[d]
                          \/ d \notin deleted /\ t \in Done /\ Writers(d) \cap failed' # {}
    BY <1>5, <1>7, <2>1, DocWorker
  <2>6. TreeInv(t)'
    BY <1>1, <1>3, <2>3, <2>5, IdleIs, DocWorker, TreeQuiet
  <2>7. QED BY <1>9, <2>3, <2>4, <2>6 DEF DocStepOK, WorkerOK
<1>11. CASE sent
  <2> DEFINE w == [v EXCEPT !.at = "index", !.hash = hash]
  <2>1. Go(t, w)
    BY <1>2, <1>11
  <2>2. /\ w.at = "index" /\ w.doc = v.doc /\ w.copy = v.copy /\ w.todo = v.todo
        /\ w.seen = v.seen /\ w.hash = hash
    BY DocWorker DEF Workers
  <2>3. w \in Workers
    <3>1. hash \in Objects
      BY <1>6 DEF Objects
    <3>2. QED BY <3>1, DocWorker, WorkerRecords
  <2> HIDE DEF w
  <2>4. work'[t] = w /\ Done' = Done /\ top' = top /\ work' \in [Keys -> Workers] /\ WorkerOK(t)'
    <3>1. w.at \in PlacesOf(c)
      BY <2>2, DocPlace DEF PlacesOf, Handling
    <3>2. QED BY <2>1, <2>3, <3>1, DocGo
  <2>5. StoreTypes'
    BY <1>1, <1>3, <1>4, <1>8, <2>4, DocWorker DEF StoreTypes
  <2>6. RootOK(t)' /\ TodoOK(t)' /\ CopyOK(t)'
    BY <1>1, <1>5, <2>2, <2>4, DocWorker DEF TreeInv, RootOK, TodoOK, CopyOK, Handling
  <2>7. HashOK(t)'
    <3>1. hash = object \/ (hash = {} /\ c \in failed')
      BY <1>2 DEF addObjectAndSend, FailIf, Fail
    <3>2. entry'[v.doc] = hash
      BY <1>5, <1>7
    <3>3. QED BY <2>2, <2>4, <3>1, <3>2 DEF HashOK
  <2>8. GoneOK(t)'
    BY <1>1, <1>5, <1>7, <2>2, <2>4, DocWorker DEF TreeInv, GoneOK, Handling
  <2>9. AgreeOK(t)'
    <3> SUFFICES ASSUME NEW d \in Own(t) \ Invalid, Writers(d) \cap failed' = {}, d # v.doc
                 PROVE  /\ root[t].exists => root[t].links[d] = entry'[d]
                        /\ v.copy.links[d] = entry'[d]
      BY <1>1, <2>2, <2>4 DEF AgreeOK, Writers, Handling
    <3>1. Writers(d) \cap failed = {} /\ entry'[d] = entry[d]
      BY <1>3, <1>7, DocWorker
    <3>2. QED BY <1>1, <3>1, DocWorker DEF TreeInv, AgreeOK, Handling
  <2>10. QED
    BY <1>9, <2>4, <2>5, <2>6, <2>7, <2>8, <2>9 DEF DocStepOK, TreeInv
<1>12. QED BY <1>10, <1>11

\* What indexing finds: the copy of the root and the object to link.
LEMMA IndexDocument ==
  ASSUME KeyOf = keyOf, StoreInv, NEW t \in DocKeys, pc[t] = "execute", indexDocument(t)
  PROVE  DocStepOK(t)
<1> DEFINE c == top[t]
           v == work[t]
           new == IF Op[c] = "deleteDocument" THEN {} ELSE v.hash
<1>1. /\ v.at = "index" /\ NextDocument(t, v.doc)
      /\ root' = [root EXCEPT ![t] = [v.copy EXCEPT !.links[v.doc] = new]]
      /\ deleted' = IF Op[c] = "deleteDocument" THEN deleted \cup {v.doc} ELSE deleted
      /\ entry' = entry /\ answers' = answers /\ failed' = failed
  BY DocWorker DEF indexDocument, At
<1>2. /\ v.doc \in Own(t) /\ v.doc \in Commands /\ v.doc \notin deleted /\ t \in Done
      /\ Op[c] # "addDocument" => v.doc \in Done
  BY <1>1, DocHandled DEF Handling
<1>3. v.copy \in Roots /\ v.hash \in Objects /\ new \in Objects
  BY DocWorker DEF Workers, Objects
<1>4. /\ root'[t].exists = v.copy.exists
      /\ \A d \in Commands : root'[t].links[d] = IF d = v.doc THEN new ELSE v.copy.links[d]
      /\ root'[t] \in Roots
  BY <1>1, <1>2, <1>3, DocWorker DEF StoreTypes, Roots, Links
<1>5. root' \in [Trees -> Roots] /\ \A u \in Trees \ {t} : root'[u] = root[u]
  <2>1. \A u \in Trees \ {t} : root'[u] = root[u]
    BY <1>1, DocWorker DEF StoreTypes
  <2>2. QED BY <1>1, <1>4, <2>1, DocWorker DEF StoreTypes
<1>6. new = entry[v.doc]
  BY <1>1, DocWorker DEF TreeInv, HashOK
<1>7. /\ v.copy.exists
      /\ \A d \in Commands : v.copy.links[d] # {} => d \in Own(t) /\ d \in Done
      /\ \A d \in v.todo : v.copy.links[d] = v.seen[d]
      /\ \A d \in Own(t) \cap deleted :
           d \in Done /\ entry[d] = {} /\ v.copy.links[d] = {} /\ d \notin v.todo
      /\ \A d \in Own(t) \ Invalid :
           Writers(d) \cap failed = {} /\ v.doc # d => v.copy.links[d] = entry[d]
  BY <1>1, DocWorker DEF TreeInv, CopyOK, GoneOK, AgreeOK, Handling
<1>8. deleted' \subseteq Documents /\ Apart(t)
  BY <1>1, <1>2, <1>5, DocWorker DEF Apart, StoreTypes
<1> HIDE DEF new
<1>9. CASE Op[c] = "addDocument"
  <2>1. End(t)
    BY <1>1, <1>9 DEF NextDocument
  <2>2. /\ work' = [work EXCEPT ![t] = Idle] /\ executeStateChangeCommand(t)
    BY <2>1 DEF End
  <2>3. Done' = Done \cup {c} /\ work'[t] = Idle
    <3>1. [Next]_vars
      BY <2>2, DocWorker DEF Next, Worker
    <3>2. QED BY <2>2, <3>1, DoneGrows, DocWorker DEF StoreInv, StoreTypes
  <2>4. StoreTypes'
    BY <1>1, <1>5, <1>8, <2>2, IdleIs, DocWorker DEF StoreTypes
  <2>5. v.doc = c
    BY <1>1, <1>9, DocWorker DEF TreeInv, CopyOK, Handling
  <2>6. RootOK(t)'
    BY <1>1, <1>2, <1>4, <1>7, <2>3, <2>5 DEF RootOK
  <2>7. TodoOK(t)' /\ CopyOK(t)' /\ HashOK(t)'
    BY <2>3, IdleIs DEF TodoOK, CopyOK, HashOK, Handling
  <2>8. GoneOK(t)'
    BY <1>1, <1>2, <1>4, <1>7, <1>9, <2>3, IdleIs, DocWorker DEF GoneOK, Handling
  <2>9. AgreeOK(t)'
    BY <1>1, <1>2, <1>4, <1>6, <1>7, <2>3, IdleIs, DocWorker DEF AgreeOK, Handling, Writers
  <2>10. QED BY <1>8, <2>3, <2>4, <2>6, <2>7, <2>8, <2>9 DEF DocStepOK, WorkerOK, TreeInv
<1>10. CASE Op[c] \in DocumentLoops
  <2>1. /\ work'[t].at = "next" /\ work'[t].todo = v.todo \ {v.doc}
        /\ work'[t].seen = v.seen /\ Done' = Done /\ top' = top
        /\ work' \in [Keys -> Workers] /\ WorkerOK(t)'
    BY <1>1, <1>10, DocNext
  <2>2. StoreTypes'
    BY <1>1, <1>5, <1>8, <2>1, DocWorker DEF StoreTypes
  <2>3. v.doc \in Done
    BY <1>2, <1>10 DEF DocumentLoops
  <2>4. RootOK(t)'
    BY <1>1, <1>2, <1>4, <1>7, <2>1, <2>3, ZenonT(30) DEF RootOK
  <2>5. TodoOK(t)' /\ CopyOK(t)' /\ HashOK(t)'
    <3>1. \A d \in v.todo : /\ d \in Own(t) /\ d \in Done /\ d \in Selects[c] /\ v.seen[d] # {}
      BY DocWorker DEF TreeInv, TodoOK
    <3>2. \A d \in v.todo \ {v.doc} : root'[t].links[d] = v.seen[d]
      BY <1>4, <1>7, <3>1, DocWorker
    <3>3. QED BY <2>1, <3>1, <3>2 DEF TodoOK, CopyOK, HashOK, Handling
  <2>6. GoneOK(t)'
    <3> SUFFICES ASSUME NEW d \in Own(t) \cap deleted'
                 PROVE  d \in Done /\ entry[d] = {} /\ root'[t].links[d] = {} /\ d \notin v.todo \ {v.doc}
      BY <1>1, <2>1 DEF GoneOK, Handling
    <3>1. CASE d \in deleted
      BY <1>2, <1>4, <1>7, <3>1, DocWorker
    <3>2. CASE d \notin deleted
      <4>1. d = v.doc /\ Op[c] = "deleteDocument"
        BY <1>1, <3>2
      <4>2. new = {}
        BY <4>1 DEF new
      <4>3. QED BY <1>2, <1>4, <1>6, <2>3, <4>1, <4>2
    <3>3. QED BY <3>1, <3>2
  <2>7. AgreeOK(t)'
    BY <1>1, <1>2, <1>4, <1>6, <1>7, <2>1, DocWorker DEF AgreeOK, Handling, Writers
  <2>8. QED BY <1>8, <2>1, <2>2, <2>4, <2>5, <2>6, <2>7 DEF DocStepOK, TreeInv
<1>11. QED BY <1>9, <1>10, DocPlace

\* So does an index step that fails, and leaves the document for later.
LEMMA IndexDocumentFails ==
  ASSUME KeyOf = keyOf, StoreInv, NEW t \in DocKeys, pc[t] = "execute", indexDocument_Fails(t)
  PROVE  DocStepOK(t)
<1> DEFINE c == top[t]
           v == work[t]
<1>1. /\ v.at = "index" /\ entry' = entry /\ answers' = answers /\ deleted' = deleted
  BY DEF indexDocument_Fails, At
<1>2. /\ v.doc \in Own(t) /\ v.doc \in Commands /\ v.doc \notin deleted /\ t \in Done
      /\ c \in Writers(v.doc) /\ c \in Commands
  BY <1>1, DocHandled, DocWorker DEF Handling
<1>3. StoreTypes /\ answers' \subseteq Commands \X {"ok", "exception"}
  BY <1>1, DocWorker DEF StoreTypes
<1>4. CASE Fail(c) /\ NextDocument(t, v.doc) /\ root' = root
  <2>1. failed' = failed \cup {c} /\ Writers(v.doc) \cap failed' # {}
    BY <1>2, <1>4 DEF Fail
  <2>2. CASE Op[c] = "addDocument"
    <3>1. End(t)
      BY <1>4, <2>2 DEF NextDocument
    <3>2. QED BY <1>1, <1>3, <1>4, <2>1, <3>1, DocEnd
  <2>3. CASE Op[c] \in DocumentLoops
    <3>1. /\ work'[t].at = "next" /\ work'[t].todo = v.todo \ {v.doc}
          /\ work'[t].seen = v.seen /\ Done' = Done /\ top' = top
          /\ work' \in [Keys -> Workers] /\ WorkerOK(t)'
      BY <1>1, <1>4, <2>3, DocNext
    <3>2. StoreTypes'
      BY <1>1, <1>2, <1>3, <1>4, <2>1, <3>1 DEF StoreTypes
    <3>3. \A e \in v.todo :
            /\ e \in Own(t) /\ e \in Done /\ e \in Selects[c] /\ e \notin deleted
            /\ v.seen[e] # {} /\ (root[t].exists => root[t].links[e] = v.seen[e])
      BY DocWorker DEF TreeInv, TodoOK, GoneOK
    <3>4. TreeInv(t)'
      BY <1>1, <1>2, <1>4, <2>1, <3>1, <3>3, DocWorker, TreeQuiet, SMTT(30)
    <3>5. QED BY <1>1, <1>4, <2>1, <3>1, <3>2, <3>4 DEF DocStepOK, Apart
  <2>4. QED BY <2>2, <2>3, DocPlace
<1>5. CASE Op[c] = "addDocument" /\ Fail(c) /\ root' = [root EXCEPT ![t] = v.copy] /\ End(t)
  <2>1. failed' = failed \cup {c}
    BY <1>5 DEF Fail
  <2>2. /\ work' = [work EXCEPT ![t] = Idle] /\ executeStateChangeCommand(t)
    BY <1>5 DEF End
  <2>3. Done \subseteq Done' /\ work'[t] = Idle
    <3>1. [Next]_vars
      BY <2>2, DocWorker DEF Next, Worker
    <3>2. QED BY <2>2, <3>1, DoneGrows, DocWorker DEF StoreInv, StoreTypes
  <2>4. /\ root'[t] = v.copy /\ root' \in [Trees -> Roots]
        /\ \A u \in Trees \ {t} : root'[u] = root[u]
    BY <1>3, <1>5, DocWorker DEF StoreTypes, Workers
  <2>5. StoreTypes'
    BY <1>1, <1>2, <1>3, <2>1, <2>2, <2>4, IdleIs, DocWorker DEF StoreTypes
  <2>6. /\ v.copy.exists
        /\ \A d \in Commands : v.copy.links[d] # {} => d \in Own(t) /\ d \in Done
        /\ \A d \in Own(t) \cap deleted : d \in Done /\ entry[d] = {} /\ v.copy.links[d] = {}
        /\ \A d \in Own(t) \ Invalid :
             Writers(d) \cap failed = {} /\ v.doc # d => v.copy.links[d] = entry[d]
    BY <1>1, DocWorker DEF TreeInv, CopyOK, GoneOK, AgreeOK, Handling
  <2>7. RootOK(t)'
    BY <1>2, <2>3, <2>4, <2>6 DEF RootOK
  <2>8. TodoOK(t)' /\ CopyOK(t)' /\ HashOK(t)'
    BY <2>3, IdleIs DEF TodoOK, CopyOK, HashOK, Handling
  <2>9. GoneOK(t)'
    BY <1>1, <2>3, <2>4, <2>6, IdleIs DEF GoneOK, Handling
  <2>10. AgreeOK(t)'
    <3> SUFFICES ASSUME NEW d \in Own(t) \ Invalid, Writers(d) \cap failed' = {}
                 PROVE  v.copy.links[d] = entry[d]
      BY <1>1, <2>3, <2>4, IdleIs DEF AgreeOK, Handling, Writers
    <3>1. Writers(d) \cap failed = {} /\ v.doc # d
      BY <1>2, <2>1
    <3>2. QED BY <2>6, <3>1
  <2>11. QED
    BY <1>1, <2>1, <2>3, <2>4, <2>5, <2>7, <2>8, <2>9, <2>10
    DEF DocStepOK, WorkerOK, TreeInv, Apart
<1>6. CASE FailIf(~PatchThrows(c, v), c) /\ End(t) /\ root' = root
  <2>1. failed' = failed \/ failed' = failed \cup {c}
    BY <1>6 DEF FailIf, Fail
  <2>2. Writers(v.doc) \cap failed' # {} \/ v.doc \in Invalid
    <3>1. CASE ~PatchThrows(c, v)
      BY <1>2, <1>6, <3>1 DEF FailIf, Fail
    <3>2. CASE c \in Invalid
      <4>1. Op[c] = "addDocument"
        BY <3>2, TargetsAssumption DEF Documents
      <4>2. QED BY <1>1, <3>2, <4>1, DocWorker DEF TreeInv, CopyOK, Handling
    <3>3. CASE Op[c] # "deleteDocument" /\ v.hash = {}
      <4>1. c \in failed
        <5>1. Op[c] = "addDocument" \/ Op[c] = "updateDocument"
          BY <3>3, DocPlace DEF DocumentLoops
        <5>2. QED BY <1>1, <3>3, <5>1, DocWorker DEF TreeInv, HashOK
      <4>2. QED BY <1>2, <2>1, <4>1
    <3>4. CASE Op[c] # "addDocument" /\ v.copy.links[v.doc] = {}
      <4>1. v.doc \in v.todo
        BY <1>1, <3>4, DocWorker DEF TreeInv, CopyOK, Handling
      <4>2. v.copy.links[v.doc] # {}
        BY <1>1, <4>1, DocWorker DEF TreeInv, CopyOK, TodoOK, Handling
      <4>3. QED BY <3>4, <4>2
    <3>5. QED BY <3>1, <3>2, <3>3, <3>4 DEF PatchThrows
  <2>3. QED BY <1>1, <1>3, <1>6, <2>1, <2>2, DocEnd
<1>7. QED
  BY <1>4, <1>5, <1>6, DocWorker DEF indexDocument_Fails

-----------------------------------------------------------------------------
(* The steps of a worker of functions or templates.                         *)

\* They write no document, and of a data tree only that it is made or cleared.
Aloof ==
  /\ \A d \in Documents : entry'[d] = entry[d]
  /\ deleted' = deleted /\ failed \subseteq failed'
  /\ \A t \in DocKeys : \/ root'[t] = root[t] \/ root'[t] = NoRoot
                        \/ root'[t] = EmptyRoot /\ t \notin Done /\ t \in Done'

OtherStepOK(k) == StoreTypes' /\ WorkerOK(k)' /\ Aloof

\* What holds before any such step.
LEMMA OtherWorker ==
  ASSUME KeyOf = keyOf, StoreInv, NEW k \in Keys \ DocKeys, pc[k] = "execute"
  PROVE  /\ StoreTypes /\ work[k] \in Workers
         /\ top[k] \in Commands /\ top[k] \notin Done /\ Op[top[k]] \notin DocumentOps
         /\ Target[top[k]] \in Commands /\ Target[top[k]] \notin Documents
         /\ treeOf(top[k]) \in Trees /\ treeOf(top[k]) \notin DocKeys
         /\ work[k].at \in {"start", "put", "readRoot", "link", "unlink", "dataTree", "clearData"}
         /\ work[k].at = "dataTree" => Op[top[k]] = "addTemplate"
         /\ work[k].at = "clearData" => Op[top[k]] = "deleteTemplate"
<1>1. StoreTypes /\ work[k] \in Workers
  BY StoreTypesIs DEF StoreInv, StoreTypes
<1>2. top[k] \in Commands /\ top[k] \notin Done /\ Op[top[k]] \notin DocumentOps
  BY Running DEF StoreInv
<1>3. /\ Target[top[k]] \in Commands /\ Target[top[k]] \notin Documents
      /\ treeOf(top[k]) \in Trees /\ treeOf(top[k]) \notin DocKeys
  BY <1>2, Kinds DEF DocKeys, Templates
<1>4. work[k] = Idle \/ work[k].at \in PlacesOf(top[k])
  BY DEF StoreInv, WorkOK, WorkerOK
<1>5. Op[top[k]] \notin DocumentLoops /\ Op[top[k]] # "addDocument"
  BY <1>2 DEF DocumentOps
<1>6. QED BY <1>1, <1>2, <1>3, <1>4, <1>5, IdleIs DEF PlacesOf

\* What the queues and the worker's record become.
LEMMA OtherEnd ==
  ASSUME KeyOf = keyOf, StoreInv, NEW k \in Keys \ DocKeys, pc[k] = "execute", End(k)
  PROVE  work' \in [Keys -> Workers] /\ WorkerOK(k)' /\ Done' = Done \cup {top[k]}
<1>1. work' = [work EXCEPT ![k] = Idle] /\ executeStateChangeCommand(k)
  BY DEF End
<1>2. [Next]_vars
  BY <1>1 DEF Next, Worker
<1>3. work \in [Keys -> Workers]
  BY OtherWorker DEF StoreTypes
<1>4. QED BY <1>1, <1>2, <1>3, DoneGrows, IdleIs DEF StoreInv, WorkerOK

\* A worker of another kind of command that goes on stays in its places.
LEMMA OtherGo ==
  ASSUME KeyOf = keyOf, StoreInv, NEW k \in Keys \ DocKeys, pc[k] = "execute",
         NEW w \in Workers, w.at \in PlacesOf(top[k]), Go(k, w)
  PROVE  work' \in [Keys -> Workers] /\ WorkerOK(k)' /\ Done' = Done
<1>1. work' = [work EXCEPT ![k] = w] /\ UNCHANGED vars
  BY DEF Go
<1>2. Done' = Done /\ top' = top /\ pc' = pc
  BY <1>1, DoneSame DEF vars
<1>3. work \in [Keys -> Workers]
  BY OtherWorker DEF StoreTypes
<1>4. QED BY <1>1, <1>2, <1>3 DEF WorkerOK

\* Records of such a worker.
LEMMA OtherRecords ==
  /\ \A h \in Objects : /\ [Idle EXCEPT !.at = "put", !.hash = h] \in Workers
                        /\ [Idle EXCEPT !.at = "put", !.hash = h].at = "put"
                        /\ [Idle EXCEPT !.at = "readRoot", !.hash = h] \in Workers
                        /\ [Idle EXCEPT !.at = "readRoot", !.hash = h].at = "readRoot"
  /\ \A a \in {"readRoot", "dataTree", "clearData"} :
       [Idle EXCEPT !.at = a] \in Workers /\ [Idle EXCEPT !.at = a].at = a
<1>1. {"put", "readRoot", "dataTree", "clearData", "link", "unlink"} \subseteq Places
  BY DEF Places
<1>2. ASSUME NEW h \in Objects, NEW a \in Places
      PROVE  [Idle EXCEPT !.at = a, !.hash = h] \in Workers /\ [Idle EXCEPT !.at = a, !.hash = h].at = a
  BY IdleIs DEF Workers
<1>3. ASSUME NEW a \in Places PROVE [Idle EXCEPT !.at = a] \in Workers /\ [Idle EXCEPT !.at = a].at = a
  BY IdleIs DEF Workers
<1>4. \A h \in Objects : /\ [Idle EXCEPT !.at = "put", !.hash = h] \in Workers
                         /\ [Idle EXCEPT !.at = "put", !.hash = h].at = "put"
                         /\ [Idle EXCEPT !.at = "readRoot", !.hash = h] \in Workers
                         /\ [Idle EXCEPT !.at = "readRoot", !.hash = h].at = "readRoot"
  BY <1>1, <1>2
<1>5. \A a \in {"readRoot", "dataTree", "clearData"} :
        [Idle EXCEPT !.at = a] \in Workers /\ [Idle EXCEPT !.at = a].at = a
  BY <1>1, <1>3
<1>6. QED BY <1>4, <1>5

\* A step of another kind of command keeps the invariant.
LEMMA OtherStep ==
  ASSUME KeyOf = keyOf, StoreInv, NEW k \in Keys \ DocKeys, pc[k] = "execute", Execute(k)
  PROVE  OtherStepOK(k)
<1> DEFINE c == top[k]
           tr == treeOf(c)
<1> USE OtherWorker
<1>1. \A a \in {"put", "readRoot", "link", "unlink"} : a \in PlacesOf(c)
  BY DEF PlacesOf, DocumentOps
<1>2. ASSUME entry' = entry, root' = root, deleted' = deleted,
             failed' = failed \/ failed' = failed \cup {c},
             answers' = answers \/ \E what \in {"ok", "exception"} : answers' = answers \cup {<<c, what>>},
             work' \in [Keys -> Workers], WorkerOK(k)'
      PROVE  OtherStepOK(k)
  BY <1>2 DEF OtherStepOK, Aloof, StoreTypes
<1>3. ASSUME NEW h \in Objects, entry' = [entry EXCEPT ![Target[c]] = h],
             root' = root, deleted' = deleted,
             failed' = failed \/ failed' = failed \cup {c},
             answers' = answers \/ \E what \in {"ok", "exception"} : answers' = answers \cup {<<c, what>>},
             work' \in [Keys -> Workers], WorkerOK(k)'
      PROVE  OtherStepOK(k)
  <2>1. entry' \in Links /\ \A d \in Documents : entry'[d] = entry[d]
    BY <1>3 DEF StoreTypes, Links, Documents
  <2>2. QED BY <1>3, <2>1 DEF OtherStepOK, Aloof, StoreTypes
<1>4. ASSUME NEW u \in Trees, NEW r \in Roots, root' = [root EXCEPT ![u] = r],
             u \notin DocKeys \/ r = NoRoot \/ (r = EmptyRoot /\ u \notin Done /\ u \in Done'),
             entry' = entry, deleted' = deleted, failed' = failed, answers' = answers,
             work' \in [Keys -> Workers], WorkerOK(k)'
      PROVE  OtherStepOK(k)
  <2>1. root' \in [Trees -> Roots] /\ \A t \in Trees : root'[t] = IF t = u THEN r ELSE root[t]
    BY <1>4 DEF StoreTypes
  <2>2. DocKeys \subseteq Trees
    BY Kinds DEF DocKeys
  <2>3. QED BY <1>4, <2>1, <2>2 DEF OtherStepOK, Aloof, StoreTypes
<1>5. CASE updateChildNode(k)
  <2>1. PICK r \in {root[tr], NoRoot} :
          /\ dhtGet(c, tr, r)
          /\ CASE ~r.exists -> tell(c, "exception") /\ End(k)
               [] r.exists /\ r.links[Target[c]] = {} -> End(k) /\ UNCHANGED answers
               [] OTHER -> /\ Go(k, [Idle EXCEPT !.at = "put",
                                                 !.hash = r.links[Target[c]] \cup {c}])
                           /\ UNCHANGED answers
    BY <1>5 DEF updateChildNode
  <2>2. entry' = entry /\ root' = root /\ deleted' = deleted
    BY <1>5 DEF updateChildNode
  <2>3. failed' = failed \/ failed' = failed \cup {c}
    BY <2>1 DEF dhtGet, FailIf, Fail
  <2>4. answers' = answers \/ answers' = answers \cup {<<c, "exception">>}
    BY <2>1 DEF tell
  <2>5. r.links[Target[c]] \cup {c} \in Objects
    <3>1. r \in Roots
      BY <2>1, IdleIs DEF StoreTypes
    <3>2. QED BY <3>1 DEF Roots, Links, Objects
  <2>6. End(k) \/ Go(k, [Idle EXCEPT !.at = "put", !.hash = r.links[Target[c]] \cup {c}])
    BY <2>1
  <2>7. work' \in [Keys -> Workers] /\ WorkerOK(k)'
    <3>1. CASE End(k)
      BY <3>1, OtherEnd
    <3>2. CASE Go(k, [Idle EXCEPT !.at = "put", !.hash = r.links[Target[c]] \cup {c}])
      BY <1>1, <2>5, <3>2, OtherRecords, OtherGo
    <3>3. QED BY <2>6, <3>1, <3>2
  <2>8. QED BY <1>2, <2>2, <2>3, <2>4, <2>7
<1>6. CASE updateChildNode_Fails(k) \/ linkThrows(k)
  <2>1. End(k) /\ entry' = entry /\ root' = root /\ deleted' = deleted /\ answers' = answers
    BY <1>6 DEF updateChildNode_Fails, linkThrows
  <2>2. failed' = failed \/ failed' = failed \cup {c}
    BY <1>6 DEF updateChildNode_Fails, linkThrows, Fail
  <2>3. QED BY <1>2, <2>1, <2>2, OtherEnd
<1>7. CASE putChild(k)
  <2> DEFINE object == IF Op[c] \in Adds THEN {c} ELSE work[k].hash
  <2>1. PICK hash \in {object, {}}, sent \in BOOLEAN :
          /\ addObjectAndSend(c, object, hash, sent)
          /\ entry' = [entry EXCEPT ![Target[c]] = hash]
          /\ IF sent THEN Go(k, [Idle EXCEPT !.at = "readRoot", !.hash = hash])
                     ELSE End(k)
    BY <1>7 DEF putChild
  <2>2. root' = root /\ deleted' = deleted
    BY <1>7 DEF putChild
  <2>3. /\ failed' = failed \/ failed' = failed \cup {c}
        /\ answers' = answers \/ answers' = answers \cup {<<c, "ok">>}
    BY <2>1 DEF addObjectAndSend, FailIf, Fail
  <2>4. hash \in Objects
    BY DEF Objects, Workers
  <2>5. work' \in [Keys -> Workers] /\ WorkerOK(k)'
    <3>1. CASE ~sent
      BY <2>1, <3>1, OtherEnd
    <3>2. CASE sent
      BY <1>1, <2>1, <2>4, <3>2, OtherRecords, OtherGo
    <3>3. QED BY <3>1, <3>2
  <2>6. QED BY <1>3, <2>1, <2>2, <2>3, <2>4, <2>5
<1>8. CASE deleteObject(k)
  <2>1. PICK sent \in BOOLEAN :
          /\ addObjectAndSend(c, {}, {}, sent)
          /\ IF sent THEN Go(k, [Idle EXCEPT !.at = "readRoot"]) ELSE End(k)
    BY <1>8 DEF deleteObject
  <2>2. /\ root' = root /\ deleted' = deleted
        /\ entry' = [entry EXCEPT ![Target[c]] = {}] /\ {} \in Objects
    BY <1>8 DEF deleteObject, Objects
  <2>3. /\ failed' = failed \/ failed' = failed \cup {c}
        /\ answers' = answers \/ answers' = answers \cup {<<c, "ok">>}
    BY <2>1 DEF addObjectAndSend, FailIf, Fail
  <2>4. work' \in [Keys -> Workers] /\ WorkerOK(k)'
    <3>1. CASE ~sent
      BY <2>1, <3>1, OtherEnd
    <3>2. CASE sent
      BY <1>1, <2>1, <3>2, OtherRecords, OtherGo
    <3>3. QED BY <3>1, <3>2
  <2>5. QED BY <1>3, <2>2, <2>3, <2>4
<1>9. CASE readRoot(k)
  <2>1. PICK r \in {root[tr], NoRoot}, a \in {"link", "unlink"} :
          /\ dhtGet(c, tr, r)
          /\ Go(k, [work[k] EXCEPT !.copy = r, !.at = a])
    BY <1>9 DEF readRoot
  <2>2. entry' = entry /\ root' = root /\ deleted' = deleted /\ answers' = answers
    BY <1>9 DEF readRoot
  <2>3. failed' = failed \/ failed' = failed \cup {c}
    BY <2>1 DEF dhtGet, FailIf, Fail
  <2>4. r \in Roots /\ work[k] \in Workers
    BY <2>1, IdleIs DEF StoreTypes
  <2>5. work' \in [Keys -> Workers] /\ WorkerOK(k)'
    <3> DEFINE w == [work[k] EXCEPT !.copy = r, !.at = a]
    <3>1. w \in Workers /\ w.at = a
      <4>1. a \in Places
        BY DEF Places
      <4>2. QED BY <2>4, <4>1 DEF Workers
    <3>2. a \in PlacesOf(c) /\ Go(k, w)
      BY <1>1, <2>1
    <3> HIDE DEF w
    <3>3. QED BY <3>1, <3>2, OtherGo
  <2>6. QED BY <1>2, <2>2, <2>3, <2>5
<1>10. CASE linkToRoot(k)
  <2> DEFINE new == [exists |-> TRUE, links |-> [work[k].copy.links EXCEPT ![Target[c]] = work[k].hash]]
  <2>1. /\ root' = [root EXCEPT ![tr] = new]
        /\ entry' = entry /\ answers' = answers /\ failed' = failed /\ deleted' = deleted
    BY <1>10 DEF linkToRoot
  <2>2. IF Op[c] = "addTemplate" THEN Go(k, [Idle EXCEPT !.at = "dataTree"]) ELSE End(k)
    BY <1>10 DEF linkToRoot
  <2>3. new \in Roots
    BY DEF Workers, Roots, Links
  <2> HIDE DEF new
  <2>4. work' \in [Keys -> Workers] /\ WorkerOK(k)'
    <3>1. CASE Op[c] # "addTemplate"
      BY <2>2, <3>1, OtherEnd
    <3>2. CASE Op[c] = "addTemplate"
      <4>1. "dataTree" \in PlacesOf(c)
        BY <3>2 DEF PlacesOf, DocumentLoops
      <4>2. QED BY <2>2, <3>2, <4>1, OtherRecords, OtherGo
    <3>3. QED BY <3>1, <3>2
  <2>5. QED BY <1>4, <2>1, <2>3, <2>4
<1>11. CASE unLinkToRoot(k)
  <2> DEFINE new == [work[k].copy EXCEPT !.links[Target[c]] = {}]
  <2>1. /\ root' = [root EXCEPT ![tr] = new]
        /\ entry' = entry /\ answers' = answers /\ failed' = failed /\ deleted' = deleted
    BY <1>11 DEF unLinkToRoot
  <2>2. IF Op[c] = "deleteTemplate" THEN Go(k, [Idle EXCEPT !.at = "clearData"]) ELSE End(k)
    BY <1>11 DEF unLinkToRoot
  <2>3. new \in Roots
    <3>1. work[k].copy \in Roots
      BY DEF Workers
    <3>2. \A r \in Roots, l \in Links : [r EXCEPT !.links = l] \in Roots
      BY DEF Roots
    <3>3. \A l \in Links, d \in Commands : [l EXCEPT ![d] = {}] \in Links
      BY DEF Links, Objects
    <3>4. new = [work[k].copy EXCEPT !.links = [work[k].copy.links EXCEPT ![Target[c]] = {}]]
      BY <3>1 DEF Roots
    <3> HIDE DEF new
    <3>5. work[k].copy.links \in Links
      BY <3>1 DEF Roots
    <3>6. QED BY <3>1, <3>2, <3>3, <3>4, <3>5
  <2> HIDE DEF new
  <2>4. work' \in [Keys -> Workers] /\ WorkerOK(k)'
    <3>1. CASE Op[c] # "deleteTemplate"
      BY <2>2, <3>1, OtherEnd
    <3>2. CASE Op[c] = "deleteTemplate"
      <4>1. "clearData" \in PlacesOf(c)
        BY <3>2 DEF PlacesOf, DocumentLoops
      <4>2. QED BY <2>2, <3>2, <4>1, OtherRecords, OtherGo
    <3>3. QED BY <3>1, <3>2
  <2>5. QED BY <1>4, <2>1, <2>3, <2>4
<1>12. CASE buildDataTree(k)
  <2>1. /\ root' = [root EXCEPT ![c] = EmptyRoot] /\ End(k) /\ c \in Templates
        /\ entry' = entry /\ answers' = answers /\ failed' = failed /\ deleted' = deleted
    BY <1>12 DEF buildDataTree, At, Templates
  <2>2. c \in Trees /\ c \notin Done /\ c \in Done'
    BY <2>1, Kinds, OtherEnd
  <2>3. QED BY <1>4, <2>1, <2>2, IdleIs, OtherEnd
<1>13. CASE clearDataTree(k)
  <2>1. /\ root' = [root EXCEPT ![Target[c]] = NoRoot] /\ End(k) /\ Target[c] \in Trees
        /\ entry' = entry /\ answers' = answers /\ failed' = failed /\ deleted' = deleted
    BY <1>13, Kinds DEF clearDataTree, At
  <2>2. QED BY <1>4, <2>1, IdleIs, OtherEnd
<1>14. /\ ~updateOrDeleteDocument(k) /\ ~searchDocument(k) /\ ~searchDocument_Nothing(k)
       /\ ~openDocument(k) /\ ~putDocument(k) /\ ~indexDocument(k) /\ ~indexDocument_Fails(k)
       /\ ~answerLoop(k)
  BY DEF updateOrDeleteDocument, searchDocument, searchDocument_Nothing, openDocument,
         putDocument, indexDocument, indexDocument_Fails, answerLoop, At, DocumentOps
<1>15. QED
  BY <1>5, <1>6, <1>7, <1>8, <1>9, <1>10, <1>11, <1>12, <1>13, <1>14 DEF Execute

-----------------------------------------------------------------------------
(* The store as a whole.                                                    *)

\* A worker that handles a document handles one of its own.
LEMMA OwnDocument ==
  ASSUME KeyOf = keyOf, StoreInv, NEW t \in DocKeys
  PROVE  /\ work[t].at = "index" => work[t].doc \in Own(t)
         /\ work[t].at = "start" => work[t].todo = {}
         /\ pc[t] # "execute" => work[t] = Idle
<1>1. t \in Keys
  BY DEF DocKeys
<1>2. WorkerOK(t)
  BY <1>1 DEF StoreInv, WorkOK
<1>3. CASE work[t] = Idle
  BY <1>3, IdleIs
<1>4. CASE pc[t] = "execute"
  BY <1>4, IdleIs, DocHandled, DocPlace DEF Handling
<1>5. QED BY <1>2, <1>3, <1>4 DEF WorkerOK

\* A step of the queues alone.
LEMMA QueueOnly ==
  ASSUME KeyOf = keyOf, InOrder, StoreInv, [Next]_vars, UNCHANGED <<docVars, work>>,
         \A k \in Keys : pc[k] = "execute" => pc'[k] = "execute" /\ top'[k] = top[k]
  PROVE  StoreInv'
<1>1. QueueInv' /\ Done \subseteq Done'
  BY QueueStep, DoneGrows DEF StoreInv
<1>2. /\ entry' = entry /\ root' = root /\ answers' = answers /\ failed' = failed
      /\ deleted' = deleted /\ work' = work
  BY DEF docVars
<1>3. StoreTypeOK' /\ deleted' \subseteq Documents
  BY <1>1, <1>2 DEF StoreInv, StoreTypeOK, QueueInv
<1>4. WorkOK'
  <2> SUFFICES ASSUME NEW k \in Keys PROVE WorkerOK(k)'
    BY DEF WorkOK
  <2>1. WorkerOK(k)
    BY DEF StoreInv, WorkOK
  <2>2. QED BY <1>2, <2>1 DEF WorkerOK
<1>5. ASSUME NEW t \in DocKeys PROVE TreeInv(t)'
  <2>1. t \in Keys /\ TreeInv(t)
    BY DEF StoreInv, DocKeys
  <2>2. top'[t] = top[t] \/ work[t] = Idle
    BY <2>1, OwnDocument
  <2>3. QED BY <1>1, <1>2, <2>1, <2>2, OwnDocument, TreeFrame
<1>6. QED BY <1>1, <1>3, <1>4, <1>5 DEF StoreInv

\* A step of a worker of documents.
LEMMA DocStep ==
  ASSUME KeyOf = keyOf, StoreInv, NEW k \in DocKeys, pc[k] = "execute", Execute(k)
  PROVE  DocStepOK(k)
<1>1. Op[top[k]] \in DocumentOps
  BY DocWorker
<1>2. ~(updateChildNode(k) \/ updateChildNode_Fails(k) \/ putChild(k) \/ deleteObject(k)
        \/ readRoot(k) \/ linkToRoot(k) \/ unLinkToRoot(k) \/ linkThrows(k)
        \/ buildDataTree(k) \/ clearDataTree(k))
  <2>1. work[k].at \in {"start", "search", "next", "document", "index"}
    BY DocWorker, DocPlace, IdleIs DEF WorkerOK, PlacesOf, Handling
  <2>2. Op[top[k]] \notin Adds \cup Updates \cup Deletes
    BY <1>1 DEF DocumentOps, DocumentLoops, Adds, Updates, Deletes
  <2>3. QED
    BY <2>1, <2>2
    DEF updateChildNode, updateChildNode_Fails, putChild, deleteObject, readRoot,
        linkToRoot, unLinkToRoot, linkThrows, buildDataTree, clearDataTree, At
<1>3. QED
  BY <1>2, UpdateOrDelete, Search, SearchEnds, OpenDocument, PutDocument,
     IndexDocument, IndexDocumentFails DEF Execute

\* A step of a worker within its command.
LEMMA ExecuteStep ==
  ASSUME KeyOf = keyOf, InOrder, StoreInv, NEW k \in Keys, pc[k] = "execute", Execute(k)
  PROVE  StoreInv'
<1>1. StoreTypes /\ Moved(k)
  BY ExecuteMoves, StoreTypesIs DEF StoreInv
<1>2. [Next]_vars
  BY <1>1 DEF Moved, Next, Worker
<1>3. QueueInv' /\ Done \subseteq Done' /\ top' = top
  BY <1>1, <1>2, QueueStep, DoneGrows DEF StoreInv, Moved, vars, executeStateChangeCommand
<1>4. \A l \in Keys \ {k} : work'[l] = work[l] /\ pc'[l] = pc[l]
  BY <1>1 DEF Moved, vars, executeStateChangeCommand, StoreInv, QueueInv, TypeOK
<1>5. ASSUME NEW l \in Keys \ {k} PROVE WorkerOK(l)'
  <2>1. WorkerOK(l)
    BY DEF StoreInv, WorkOK
  <2>2. QED BY <1>3, <1>4, <2>1 DEF WorkerOK
<1>6. DocKeys \subseteq Keys /\ DocKeys \subseteq Trees /\ \A t \in DocKeys : Own(t) \subseteq Commands
  BY Kinds DEF DocKeys, Own, Documents
<1>7. CASE k \in DocKeys
  <2>1. DocStepOK(k)
    BY <1>7, DocStep
  <2>2. ASSUME NEW t \in DocKeys \ {k} PROVE TreeInv(t)'
    <3>1. /\ root'[t] = root[t] /\ failed \subseteq failed'
          /\ \A d \in Own(t) : entry'[d] = entry[d] /\ (d \in deleted' <=> d \in deleted)
      <4>1. \A d \in Own(t) : d \in Commands \ Own(k)
        BY <1>6 DEF Own
      <4>2. QED BY <1>6, <2>1, <4>1 DEF DocStepOK, Apart
    <3>2. TreeInv(t)
      BY DEF StoreInv
    <3>3. work'[t] = work[t] /\ top'[t] = top[t]
      BY <1>3, <1>4, <1>6
    <3>4. QED BY <1>3, <3>1, <3>2, <3>3, OwnDocument, TreeFrame
  <2>3. WorkOK'
    BY <1>5, <2>1 DEF DocStepOK, WorkOK
  <2>4. StoreTypeOK'
    BY <1>3, <2>1 DEF DocStepOK, StoreTypeOK, StoreTypes, Workers, QueueInv
  <2>5. QED BY <1>3, <2>1, <2>2, <2>3, <2>4 DEF DocStepOK, StoreInv, StoreTypes
<1>8. CASE k \notin DocKeys
  <2>1. OtherStepOK(k)
    BY <1>8, OtherStep
  <2>2. ASSUME NEW t \in DocKeys PROVE TreeInv(t)'
    <3>1. TreeInv(t) /\ work'[t] = work[t] /\ top'[t] = top[t]
      BY <1>3, <1>4, <1>6, <1>8 DEF StoreInv
    <3>2. /\ \A d \in Own(t) : entry'[d] = entry[d]
          /\ deleted' = deleted /\ failed \subseteq failed'
          /\ \/ root'[t] = root[t] \/ root'[t] = NoRoot
             \/ root'[t] = EmptyRoot /\ t \notin Done /\ t \in Done'
      BY <2>1 DEF OtherStepOK, Aloof, Own
    <3>3. CASE root'[t] = root[t]
      BY <1>3, <3>1, <3>2, <3>3, OwnDocument, TreeFrame
    <3>4. CASE root'[t] # root[t]
      BY <1>3, <3>1, <3>2, <3>4, OwnDocument, TreeReset
    <3>5. QED BY <3>3, <3>4
  <2>3. WorkOK'
    BY <1>5, <2>1 DEF OtherStepOK, WorkOK
  <2>4. StoreTypeOK'
    BY <1>3, <2>1 DEF OtherStepOK, StoreTypeOK, StoreTypes, Workers, QueueInv
  <2>5. QED BY <1>3, <2>1, <2>2, <2>3, <2>4 DEF OtherStepOK, StoreInv, StoreTypes
<1>9. QED BY <1>7, <1>8

\* Every step of the store keeps the whole invariant.
LEMMA StoreStep ==
  ASSUME KeyOf = keyOf, InOrder, StoreInv, [StoreNext]_storeVars PROVE StoreInv'
<1>1. [Next]_vars
  BY StoreQueueStep, StoreTypesIs DEF StoreInv
<1>2. ASSUME NEW c \in Commands, arrive(c) PROVE StoreInv'
  <2>1. \A k \in Keys : pc[k] = "execute" => pc'[k] = "execute" /\ top'[k] = top[k]
    <3>1. KeyOf[c] \in Keys /\ onStateChange(c)
      BY <1>2 DEF arrive, Keys
    <3>2. KeyOf[c] \notin queueMap => pc[KeyOf[c]] = "none"
      BY <3>1 DEF StoreInv, QueueInv, QueuesOK
    <3>3. QED BY <3>1, <3>2 DEF onStateChange, StoreInv, QueueInv, TypeOK
  <2>2. QED BY <1>1, <1>2, <2>1, QueueOnly DEF arrive
<1>3. ASSUME NEW l \in Keys, takeTop(l) \/ popTop(l) \/ removeQueue(l), UNCHANGED <<docVars, work>>
      PROVE  StoreInv'
  <2>1. \A k \in Keys : pc[k] = "execute" => pc'[k] = "execute" /\ top'[k] = top[k]
    BY <1>3 DEF takeTop, popTop, removeQueue, StoreInv, QueueInv, TypeOK
  <2>2. QED BY <1>1, <1>3, <2>1, QueueOnly
<1>4. CASE UNCHANGED storeVars
  BY <1>1, <1>4, QueueOnly DEF storeVars, vars
<1>5. QED BY <1>2, <1>3, <1>4, ExecuteStep DEF StoreNext, StoreWorker

\* The store starts with the invariant.
LEMMA StoreInitial == ASSUME KeyOf = keyOf, StoreInit PROVE StoreInv
<1>1. QueueInv
  BY QueueInit DEF StoreInit
<1>2. StoreTypes
  BY IdleIs DEF StoreInit, StoreTypes
<1>3. WorkOK
  BY DEF StoreInit, WorkOK, WorkerOK
<1>4. ASSUME NEW t \in DocKeys PROVE TreeInv(t)
  <2>1. /\ root[t] = NoRoot /\ work[t] = Idle /\ entry = NoLinks /\ deleted = {}
        /\ Own(t) \subseteq Commands
    BY Kinds DEF StoreInit, DocKeys, Own, Documents
  <2>2. root[t].links = NoLinks /\ ~root[t].exists
    BY <2>1 DEF NoRoot
  <2>3. QED
    BY <2>1, <2>2, IdleIs
    DEF TreeInv, RootOK, TodoOK, CopyOK, HashOK, GoneOK, AgreeOK, Handling
<1>5. QED BY <1>1, <1>2, <1>3, <1>4, StoreTypesIs DEF StoreInv, StoreTypes, QueueInv

\* The invariant of the store.
LEMMA StoreInvariant == KeyOf = keyOf /\ InOrder => (StoreSpec => []StoreInv)
<1> SUFFICES ASSUME KeyOf = keyOf, InOrder PROVE StoreSpec => []StoreInv
  OBVIOUS
<1>1. StoreInit => StoreInv
  BY StoreInitial
<1>2. StoreInv /\ [StoreNext]_storeVars => StoreInv'
  BY StoreStep
<1>3. QED BY <1>1, <1>2, PTL DEF StoreSpec

\* A document that deleteDocument took out of its data tree never comes back,
\* neither as an entry nor in the index, whatever the other commands on its
\* template, the deletion of the template and the failures of IPFS and of the
\* DHT do.
THEOREM DeletedStaysDeletedCorrect ==
  KeyOf = keyOf /\ InOrder => (StoreSpec => []DeletedStaysDeleted)
<1> SUFFICES ASSUME KeyOf = keyOf, InOrder PROVE StoreSpec => []DeletedStaysDeleted
  OBVIOUS
<1>1. StoreSpec => []StoreInv
  BY StoreInvariant
<1>2. StoreInv => DeletedStaysDeleted
  <2> SUFFICES ASSUME StoreInv, NEW d \in deleted
               PROVE  entry[d] = {} /\ root[Target[d]].links[d] = {}
    BY DEF DeletedStaysDeleted
  <2>1. Target[d] \in DocKeys /\ d \in Own(Target[d])
    BY Kinds DEF StoreInv
  <2>2. TreeInv(Target[d])
    BY <2>1 DEF StoreInv
  <2>3. QED BY <2>1, <2>2 DEF TreeInv, GoneOK
<1>3. QED BY <1>1, <1>2, PTL

\* The index of a data tree and the DHT entries agree but for the document that is
\* being written and for those one of whose writers met a failure: no interleaving
\* of createOrDeleteDocument with the template's own commands tears them apart.
THEOREM IndexMatchesEntriesCorrect ==
  KeyOf = keyOf /\ InOrder => (StoreSpec => []IndexMatchesEntries)
<1> SUFFICES ASSUME KeyOf = keyOf, InOrder PROVE StoreSpec => []IndexMatchesEntries
  OBVIOUS
<1>1. StoreSpec => []StoreInv
  BY StoreInvariant
<1>2. StoreInv => IndexMatchesEntries
  <2> SUFFICES ASSUME StoreInv, NEW d \in Documents \ Invalid, root[Target[d]].exists,
                      ~Writing(d), Writers(d) \cap failed = {}
               PROVE  root[Target[d]].links[d] = entry[d]
    BY DEF IndexMatchesEntries
  <2>1. Target[d] \in DocKeys /\ d \in Own(Target[d]) /\ Target[d] \in Keys
    BY Kinds DEF DocKeys
  <2>2. TreeInv(Target[d])
    BY <2>1 DEF StoreInv
  <2>3. QED BY <2>1, <2>2 DEF TreeInv, AgreeOK, Writing
<1>3. QED BY <1>1, <1>2, PTL

\* The store's workers do with the commands of a key what CommandLog promises: the
\* reads and writes within a command are steps in which the queues stand still.
THEOREM StoreKeepsPromise == KeyOf = keyOf /\ InOrder => (StoreSpec => KeepsPromise)
<1> SUFFICES ASSUME KeyOf = keyOf, InOrder PROVE StoreSpec => KeepsPromise
  OBVIOUS
<1>1. StoreSpec => []StoreInv
  BY StoreInvariant
<1>2. StoreInv /\ [StoreNext]_storeVars => [Next]_vars
  BY StoreQueueStep, StoreTypesIs DEF StoreInv
<1>3. StoreSpec => Spec
  <2>1. StoreInit => Init
    BY DEF StoreInit
  <2>2. QED BY <1>1, <1>2, <2>1, PTL DEF StoreSpec, Spec
<1>4. Spec => KeepsPromise
  BY KeepsPromiseCorrect
<1>5. QED BY <1>3, <1>4, PTL

\* A write of the root takes the copy it was made from, and the copy is what the
\* root was, but for the document that is written.
LEMMA RootWrite ==
  ASSUME KeyOf = keyOf, StoreInv, NEW t \in DocKeys, pc[t] = "execute", Execute(t),
         NEW d \in Own(t), root[t].links[d] # {}, root'[t].links[d] # {}
  PROVE  root[t].links[d] \subseteq root'[t].links[d]
<1> DEFINE c == top[t]
           v == work[t]
<1>1. d \in Commands /\ root[t].exists /\ d \in Done
  BY DocWorker, IdleIs DEF TreeInv, RootOK
<1>2. CASE indexDocument(t)
  <2> DEFINE new == IF Op[c] = "deleteDocument" THEN {} ELSE v.hash
  <2>1. v.at = "index" /\ root' = [root EXCEPT ![t] = [v.copy EXCEPT !.links[v.doc] = new]]
    BY <1>2, DocWorker DEF indexDocument, At
  <2>2. v.doc \in Commands /\ v.copy \in Roots /\ root[t] = v.copy
    BY <1>1, <2>1, DocHandled, DocWorker DEF Handling, Workers, TreeInv, CopyOK
  <2>3. root'[t].links[d] = IF d = v.doc THEN new ELSE v.copy.links[d]
    BY <1>1, <2>1, <2>2, DocWorker DEF StoreTypes, Roots, Links
  <2>4. CASE d # v.doc
    BY <2>2, <2>3, <2>4
  <2>5. CASE d = v.doc
    <3>1. Op[c] = "updateDocument"
      <4>1. Op[c] # "addDocument"
        BY <1>1, <2>1, <2>5, DocWorker DEF TreeInv, CopyOK, Handling
      <4>2. Op[c] # "deleteDocument"
        BY <2>3, <2>5
      <4>3. QED BY <4>1, <4>2, DocPlace DEF DocumentLoops
    <3>2. new = v.seen[d] \cup {c}
      BY <2>1, <2>3, <2>5, <3>1, DocWorker DEF TreeInv, HashOK
    <3>3. root[t].links[d] = v.seen[d]
      BY <2>1, <2>2, <2>5, <3>1, DocWorker DEF TreeInv, CopyOK, Handling
    <3>4. QED BY <2>3, <2>5, <3>2, <3>3
  <2>6. QED BY <2>4, <2>5
<1>3. CASE indexDocument_Fails(t)
  <2>1. v.at = "index" /\ (root' = root \/ root' = [root EXCEPT ![t] = v.copy])
    BY <1>3, DocWorker DEF indexDocument_Fails, At
  <2>2. root[t] = v.copy
    BY <1>1, <2>1, DocWorker DEF TreeInv, CopyOK, Handling
  <2>3. QED BY <2>1, <2>2, DocWorker DEF StoreTypes
<1>4. CASE \/ updateChildNode(t) \/ updateChildNode_Fails(t) \/ putChild(t) \/ deleteObject(t)
           \/ readRoot(t) \/ linkThrows(t) \/ updateOrDeleteDocument(t) \/ searchDocument(t)
           \/ searchDocument_Nothing(t) \/ openDocument(t) \/ putDocument(t) \/ answerLoop(t)
  <2>1. root' = root
    BY <1>4
    DEF updateChildNode, updateChildNode_Fails, putChild, deleteObject, readRoot, linkThrows,
        updateOrDeleteDocument, searchDocument, searchDocument_Nothing, openDocument,
        putDocument, answerLoop, docVars
  <2>2. QED BY <2>1
<1>5. ~(linkToRoot(t) \/ unLinkToRoot(t) \/ buildDataTree(t) \/ clearDataTree(t))
  <2>1. work[t].at \in {"start", "search", "next", "document", "index"}
    BY DocWorker, DocPlace, IdleIs DEF WorkerOK, PlacesOf, Handling
  <2>2. QED BY <2>1 DEF linkToRoot, unLinkToRoot, buildDataTree, clearDataTree, At
<1>6. QED BY <1>2, <1>3, <1>4, <1>5 DEF Execute

\* No write of a data tree takes an update of a document back: although the root is
\* read, patched and written without a lock, what replaces the object of a document
\* contains all that the object was made of.
THEOREM UpdatesAreKeptCorrect ==
  KeyOf = keyOf /\ InOrder => (StoreSpec => UpdatesAreKept)
<1> SUFFICES ASSUME KeyOf = keyOf, InOrder PROVE StoreSpec => UpdatesAreKept
  OBVIOUS
<1> DEFINE Kept == \A d \in Documents :
                     LET old == root[Target[d]].links[d]  new == root'[Target[d]].links[d]
                     IN old # {} /\ new # {} => old \subseteq new
<1>1. StoreSpec => []StoreInv
  BY StoreInvariant
<1>2. StoreInv /\ [StoreNext]_storeVars => [Kept]_storeVars
  <2> SUFFICES ASSUME StoreInv, StoreNext, NEW d \in Documents,
                      root[Target[d]].links[d] # {}, root'[Target[d]].links[d] # {}
               PROVE  root[Target[d]].links[d] \subseteq root'[Target[d]].links[d]
    OBVIOUS
  <2>1. Target[d] \in DocKeys /\ d \in Own(Target[d]) /\ Target[d] \in Trees /\ d \in Commands
    BY Kinds DEF DocKeys
  <2>2. ASSUME NEW k \in Keys, pc[k] = "execute", Execute(k)
        PROVE  root[Target[d]].links[d] \subseteq root'[Target[d]].links[d]
    <3>1. CASE k \notin DocKeys
      <4>1. Aloof
        BY <2>2, <3>1, OtherStep DEF OtherStepOK
      <4>2. NoRoot.links[d] = {} /\ EmptyRoot.links[d] = {}
        <5>1. NoRoot.links = NoLinks /\ EmptyRoot.links = NoLinks
          BY DEF NoRoot, EmptyRoot
        <5>2. QED BY <2>1, <5>1, IdleIs
      <4>3. QED BY <2>1, <4>1, <4>2 DEF Aloof
    <3>2. CASE k \in DocKeys /\ k # Target[d]
      <4>1. \A u \in Trees \ {k} : root'[u] = root[u]
        BY <2>2, <3>2, DocStep DEF DocStepOK, Apart
      <4>2. QED BY <2>1, <3>2, <4>1
    <3>3. CASE k = Target[d]
      BY <2>1, <2>2, <3>3, RootWrite
    <3>4. QED BY <3>1, <3>2, <3>3
  <2>3. CASE root' = root
    BY <2>3
  <2>4. QED BY <2>2, <2>3 DEF StoreNext, StoreWorker, arrive, docVars
<1>3. QED BY <1>1, <1>2, PTL DEF StoreSpec, UpdatesAreKept
=============================================================================
