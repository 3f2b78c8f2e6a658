--------------------------- MODULE TxVerification ---------------------------
(***************************************************************************)
(* How the master nodes of m21 verify a transaction: the origin (the       *)
(* master the client talks to) creates it, tells the other masters, every  *)
(* master hands the code to a randomly chosen verifier, the verifiers'     *)
(* result hashes come back to every master in any order, and a master      *)
(* whose copy is complete and has enough equal hashes queues it for its    *)
(* block and, when it is the origin, answers the client and lets the       *)
(* Compute Node commit.  Exceptions, clients that come and go, lost        *)
(* messages and the periodic cleanup of the map are part of the model.     *)
(*                                                                         *)
(* Sources: MasterNodeLib/MasterNodeLib.cpp, MasterNode/main.cpp,          *)
(* BlockChainCommon/transaction.cpp.  queueOut only grows here: its        *)
(* draining into blocks is modelled in BlockProduction.                    *)
(***************************************************************************)
EXTENDS Naturals, Sequences

CONSTANTS
  Masters,            \* master nodes
  M21,                \* the elected ones: subscribed to the channel master21
  Verifiers,          \* compute & verifier nodes
  StorageNode,        \* the storage node that executes state changes
  InitiallyKnown,     \* nodes every master has already registered at the start
  Txs,                \* transactions, one per client request
  Origin,             \* the master each transaction's client is connected to
  Results,            \* what executing the code may return (never empty)
  EmptyString,        \* a hash, output or node id that has not been set
  MajorityThreshold,  \* MAJORITY_THRESHOLD
  TxLifetime,         \* age, in clock units, after which the cleanup erases
  MaxTime,            \* bound on the clock
  MaxLost,            \* bound on the messages that are lost
  MaxExceptions,      \* bound on the executions that throw
  MaxDisconnects      \* bound on the client connections that close

ASSUME MastersAssumption == M21 \subseteq Masters /\ Origin \in [Txs -> Masters]
ASSUME NodesAssumption == /\ InitiallyKnown \subseteq Verifiers \cup {StorageNode}
                          /\ StorageNode \notin Verifiers
                          /\ EmptyString \notin Verifiers
ASSUME ResultsAssumption == EmptyString \notin Results
ASSUME ThresholdAssumption == MajorityThreshold \in Nat \ {0}
ASSUME BoundsAssumption == /\ TxLifetime \in Nat /\ MaxTime \in Nat
                           /\ MaxLost \in Nat /\ MaxExceptions \in Nat
                           /\ MaxDisconnects \in Nat

VARIABLES
  submitted,     \* the requests clients have sent
  transactions,  \* per master, the map from transaction id to Transaction
  delivering,    \* processCodePacket threads between gossip and sendToVerifier
  queueOut,      \* per master, the transactions queued for its blocks
  registry,      \* per master, the verifiers and storage nodes it knows
  trs,           \* Compute Nodes' memory: the transactions they hold results of
  connected,     \* the transactions whose client's web socket is open
  replies,       \* per transaction, what its client was sent
  net,           \* messages in flight, one per receiver
  now,           \* the clock (currentTimestamp)
  lost,          \* how many messages were lost
  thrown,        \* how many executions threw
  closed         \* how many client connections closed

vars == <<submitted, transactions, delivering, queueOut, registry, trs,
          connected, replies, net, now, lost, thrown, closed>>

-----------------------------------------------------------------------------
(* The Transaction object.  A record with exists = FALSE stands for a key   *)
(* that is not in the map.                                                  *)

Strings == Results \cup {EmptyString}

Transaction ==
  [exists : BOOLEAN, full : BOOLEAN, computeNode : BOOLEAN,
   totalVerified : Nat, lastValidHash : Strings,
   receivedOutput : BOOLEAN, output : Strings, exception : BOOLEAN,
   inBlock : BOOLEAN, sentToClient : BOOLEAN, timestamp : Nat,
   computeNodeId : Verifiers \cup {EmptyString}]

\* The default member initialisers.
NoTransaction ==
  [exists |-> FALSE, full |-> FALSE, computeNode |-> FALSE,
   totalVerified |-> 0, lastValidHash |-> EmptyString,
   receivedOutput |-> FALSE, output |-> EmptyString, exception |-> FALSE,
   inBlock |-> FALSE, sentToClient |-> FALSE, timestamp |-> 0,
   computeNodeId |-> EmptyString]

\* Transaction(txId, timestamp), called by the originating master.
OriginTransaction(ts) ==
  [NoTransaction EXCEPT !.exists = TRUE, !.full = TRUE, !.computeNode = TRUE,
                        !.timestamp = ts]

\* Transaction(txId, hash, timestamp), called when a result comes first.
PartialTransaction(hash, ts) ==
  [NoTransaction EXCEPT !.exists = TRUE, !.lastValidHash = hash, !.timestamp = ts]

\* The members toJson writes and fromJson reads back.  The hash, the output
\* and the Compute Node's id are among them.
toJson(tx) ==
  [timestamp |-> tx.timestamp, lastValidHash |-> tx.lastValidHash,
   output |-> tx.output, exception |-> tx.exception,
   computeNodeId |-> tx.computeNodeId]

\* Mutant: the flag is taken from the notification's output.
fromJson_ResetsFlag(tx, j) ==
  [tx EXCEPT !.exists = TRUE, !.full = TRUE, !.timestamp = j.timestamp,
             !.lastValidHash = j.lastValidHash, !.output = j.output,
             !.receivedOutput = j.output # EmptyString,
             !.exception = j.exception, !.computeNodeId = j.computeNodeId]

fromJson(tx, j) ==
  [tx EXCEPT !.exists = TRUE, !.full = TRUE, !.timestamp = j.timestamp,
             !.lastValidHash = j.lastValidHash, !.output = j.output,
             !.exception = j.exception, !.computeNodeId = j.computeNodeId]

setOutput(tx, output) == [tx EXCEPT !.output = output, !.receivedOutput = TRUE]

\* The first hash a copy sees is the one later hashes are compared with.
verifyHash(tx, hash) ==
  IF tx.lastValidHash \in {EmptyString, hash}
  THEN [tx EXCEPT !.lastValidHash = hash, !.totalVerified = @ + 1]
  ELSE tx

\* Mutant: the Compute Node's output is not waited for.
isVerified_NoOutput(tx) == tx.totalVerified >= MajorityThreshold /\ tx.full

\* Mutant: one hash too many is asked for (> instead of >=).
isVerified_StrictMajority(tx) ==
  tx.totalVerified > MajorityThreshold /\ tx.full /\ tx.receivedOutput

isVerified(tx) ==
  tx.totalVerified >= MajorityThreshold /\ tx.full /\ tx.receivedOutput

canSend(tx) == ~tx.sentToClient /\ tx.computeNode

\* A queueOut entry: the transaction as it is copied, and by which handler.
Entry(t, tx, by) ==
  [tx |-> t, output |-> tx.output, lastValidHash |-> tx.lastValidHash,
   exception |-> tx.exception, by |-> by]

Entries ==
  [tx : Txs, output : Strings, lastValidHash : Strings, exception : BOOLEAN,
   by : {"verified", "exception"}]

-----------------------------------------------------------------------------
(* Messages.  A broadcast on master21 is one message per receiver; a node   *)
(* never handles its own messages, nor one twice (processIncomingData).     *)

Json == [timestamp : Nat, lastValidHash : Strings, output : Strings,
         exception : BOOLEAN, computeNodeId : Verifiers \cup {EmptyString}]

Messages ==
  [type : {"txNotification"}, to : Masters, tx : Txs, json : Json]
  \cup [type : {"codeDelivery"}, to : Verifiers, tx : Txs, from : Masters,
        com : BOOLEAN]
  \cup [type : {"verificationResult"}, to : Masters, tx : Txs, from : Masters,
        hash : Results, output : Strings]
  \cup [type : {"exception"}, to : Masters, tx : Txs]
  \cup [type : {"exceptionTx"}, to : Masters, tx : Txs, from : Masters, json : Json]
  \cup [type : {"canCommit"}, to : Verifiers \cup {EmptyString}, tx : Txs]

txNotification(t, j, receivers) ==
  {[type |-> "txNotification", to |-> m, tx |-> t, json |-> j] : m \in receivers}

exceptionTx(m, t, j, receivers) ==
  {[type |-> "exceptionTx", to |-> r, tx |-> t, from |-> m, json |-> j] :
     r \in receivers}

\* Mutant: the com field is inverted.
codeDelivery_Inverted(m, t, v, com) ==
  [type |-> "codeDelivery", to |-> v, tx |-> t, from |-> m, com |-> ~com]

codeDelivery(m, t, v, com) ==
  [type |-> "codeDelivery", to |-> v, tx |-> t, from |-> m, com |-> com]

\* "from" is the master whose codeDelivery the verifier executed: it tells
\* the executions of one transaction apart.
verificationResult(d, r, receivers) ==
  {[type |-> "verificationResult", to |-> m, tx |-> d.tx, from |-> d.from,
    hash |-> r,
    output |-> IF d.com THEN r ELSE EmptyString] :
      m \in receivers}

canCommit(t, tx) == [type |-> "canCommit", to |-> tx.computeNodeId, tx |-> t]

\* What a client is sent over its web socket, and the "data" it carries.
Reply(kind, data) == [kind |-> kind, data |-> data]

Replies == [kind : {"result", "exception", "error"}, data : Strings]

-----------------------------------------------------------------------------
TypeOK ==
  /\ submitted \subseteq Txs
  /\ trs \subseteq Verifiers \X Txs
  /\ transactions \in [Masters -> [Txs -> Transaction]]
  /\ delivering \subseteq Masters \X Txs
  /\ queueOut \in [Masters -> Seq(Entries)]
  /\ registry \in [Masters -> SUBSET (Verifiers \cup {StorageNode})]
  /\ connected \subseteq Txs
  /\ replies \in [Txs -> Seq(Replies)]
  /\ net \subseteq Messages
  /\ now \in Nat /\ lost \in Nat /\ thrown \in Nat /\ closed \in Nat

Init ==
  /\ submitted = {} /\ trs = {}
  /\ transactions = [m \in Masters |-> [t \in Txs |-> NoTransaction]]
  /\ delivering = {}
  /\ queueOut = [m \in Masters |-> <<>>]
  /\ registry = [m \in Masters |-> InitiallyKnown]
  /\ connected = Txs
  /\ replies = [t \in Txs |-> <<>>]
  /\ net = {}
  /\ now = 0 /\ lost = 0 /\ thrown = 0 /\ closed = 0

-----------------------------------------------------------------------------
(* Steps shared by the handlers.                                            *)

Others(m) == M21 \ {m}

KnownVerifiers(m) == registry[m] \cap Verifiers

\* stateChangeStorageNode is not empty once getStateChangeStorageNode ran.
HasStateChangeStorageNode(m) == StorageNode \in registry[m]

\* sendToVerifier: the copy and the messages each random choice leads to.
sendToVerifier(m, t, tx) ==
  IF KnownVerifiers(m) = {}
  THEN {[tx |-> tx, msgs |-> {}]}
  ELSE {[tx |-> IF tx.computeNode THEN [tx EXCEPT !.computeNodeId = v] ELSE tx,
         msgs |-> IF HasStateChangeStorageNode(m)
                  THEN {codeDelivery(m, t, v, tx.computeNode)} ELSE {}] :
          v \in KnownVerifiers(m)}

\* wsServer.send throws when the client is gone: the rest of
\* checkVerification is skipped, the copy stays as it is.
sendThrows(t, tx) == isVerified(tx) /\ canSend(tx) /\ t \notin connected

answersClient(t, tx) == isVerified(tx) /\ canSend(tx) /\ t \in connected

addsToQueue(t, tx) == isVerified(tx) /\ ~tx.inBlock /\ ~sendThrows(t, tx)

\* Mutant: setInBlock is forgotten.
checked_NotInBlock(t, tx) == [tx EXCEPT !.sentToClient = @ \/ answersClient(t, tx)]

\* Mutant: setSentToClient is forgotten.
checked_NotSent(t, tx) == [tx EXCEPT !.inBlock = @ \/ addsToQueue(t, tx)]

checked(t, tx) == [tx EXCEPT !.sentToClient = @ \/ answersClient(t, tx),
                             !.inBlock = @ \/ addsToQueue(t, tx)]

\* "pending" is what is in flight once the calling handler's own messages
\* are sent.
checkVerification(m, t, tx, pending) ==
  /\ transactions' = [transactions EXCEPT ![m][t] = checked(t, tx)]
  /\ queueOut' = IF addsToQueue(t, tx)
                 THEN [queueOut EXCEPT ![m] = Append(@, Entry(t, tx, "verified"))]
                 ELSE queueOut
  /\ replies' = IF answersClient(t, tx)
                THEN [replies EXCEPT ![t] = Append(@, Reply("result", tx.output))]
                ELSE replies
  /\ net' = IF answersClient(t, tx) /\ HasStateChangeStorageNode(m)
            THEN pending \cup {canCommit(t, tx)} ELSE pending

-----------------------------------------------------------------------------
(* The handlers of a master node.                                           *)

\* A client's request, up to the gossip to the other masters.  A master
\* outside m21 only returns an error.
processCodePacket(t) ==
  LET m == Origin[t]
      tx == OriginTransaction(now)
  IN /\ t \notin submitted
     /\ t \in connected
     /\ submitted' = submitted \cup {t}
     /\ IF m \in M21
        THEN /\ transactions' = [transactions EXCEPT ![m][t] = tx]
             /\ net' = net \cup txNotification(t, toJson(tx), Others(m))
             /\ delivering' = delivering \cup {<<m, t>>}
             /\ UNCHANGED replies
        ELSE /\ replies' = [replies EXCEPT ![t] = Append(@, Reply("error", EmptyString))]
             /\ UNCHANGED <<transactions, net, delivering>>
     /\ UNCHANGED <<queueOut, registry, trs, connected, now, lost, thrown, closed>>

\* The last call of processCodePacket, after the lock was released.
deliverToComputeNode(m, t) ==
  /\ <<m, t>> \in delivering
  /\ delivering' = delivering \ {<<m, t>>}
  /\ \E s \in sendToVerifier(m, t, transactions[m][t]) :
       /\ transactions' = [transactions EXCEPT ![m][t] = s.tx]
       /\ net' = net \cup s.msgs
  /\ UNCHANGED <<submitted, queueOut, registry, trs, connected, replies, now,
                 lost, thrown, closed>>

\* Mutant: a notification that comes last triggers no verification event.
processIncomingTransaction_NoCheck(m, msg) ==
  /\ msg.type = "txNotification" /\ msg.to = m
  /\ \E s \in sendToVerifier(m, msg.tx,
                             fromJson(transactions[m][msg.tx], msg.json)) :
       /\ transactions' = [transactions EXCEPT ![m][msg.tx] = s.tx]
       /\ net' = (net \ {msg}) \cup s.msgs
  /\ UNCHANGED <<submitted, delivering, queueOut, registry, trs, connected,
                 replies, now, lost, thrown, closed>>

processIncomingTransaction(m, msg) ==
  /\ msg.type = "txNotification" /\ msg.to = m
  /\ \E s \in sendToVerifier(m, msg.tx,
                             fromJson(transactions[m][msg.tx], msg.json)) :
       checkVerification(m, msg.tx, s.tx, (net \ {msg}) \cup s.msgs)
  /\ UNCHANGED <<submitted, delivering, registry, trs, connected, now, lost, thrown, closed>>

verifyTransaction(m, msg) ==
  LET old == transactions[m][msg.tx]
      found == IF old.exists THEN old ELSE PartialTransaction(msg.hash, now)
      filled == IF msg.output = EmptyString THEN found
                ELSE setOutput(found, msg.output)
  IN /\ msg.type = "verificationResult" /\ msg.to = m
     /\ checkVerification(m, msg.tx, verifyHash(filled, msg.hash), net \ {msg})
     /\ UNCHANGED <<submitted, delivering, registry, trs, connected, now, lost,
                    thrown, closed>>

\* {txid, e}, from the verifier this master chose.  isBlockProducer depends
\* on the second at which the handler runs: either outcome is possible.
exceptionFromVerifier(m, msg) ==
  LET t == msg.tx
      tx == [setOutput(transactions[m][t], EmptyString) EXCEPT !.exception = TRUE]
      throws == tx.computeNode /\ t \notin connected
  IN /\ msg.type = "exception" /\ msg.to = m
     /\ IF ~transactions[m][t].exists
        THEN net' = net \ {msg} /\ UNCHANGED <<transactions, replies, queueOut>>
        ELSE IF throws
        THEN /\ net' = net \ {msg}
             /\ transactions' = [transactions EXCEPT ![m][t] = tx]
             /\ UNCHANGED <<replies, queueOut>>
        ELSE /\ net' = (net \ {msg}) \cup exceptionTx(m, t, toJson(tx), Others(m))
             /\ transactions' = [transactions EXCEPT ![m][t] = NoTransaction]
             /\ replies' = IF tx.computeNode
                           THEN [replies EXCEPT ![t] = Append(@, Reply("exception", EmptyString))]
                           ELSE replies
             /\ \E isBlockProducer \in BOOLEAN :
                  queueOut' = IF isBlockProducer
                              THEN [queueOut EXCEPT ![m] =
                                      Append(@, Entry(t, tx, "exception"))]
                              ELSE queueOut
     /\ UNCHANGED <<submitted, delivering, registry, trs, connected, now, lost,
                    thrown, closed>>

\* {tx}, from the master that handled the exception: a block producer queues
\* it whatever its own copy says.
exceptionFromMaster(m, msg) ==
  /\ msg.type = "exceptionTx" /\ msg.to = m
  /\ net' = net \ {msg}
  /\ \E isBlockProducer \in BOOLEAN :
       queueOut' = IF isBlockProducer
                   THEN [queueOut EXCEPT ![m] = Append(@,
                           Entry(msg.tx, fromJson(NoTransaction, msg.json), "exception"))]
                   ELSE queueOut
  /\ UNCHANGED <<submitted, transactions, delivering, registry, trs, connected,
                 replies, now, lost, thrown, closed>>

cleanupTransactionsMap(m) ==
  LET old == {t \in Txs : /\ transactions[m][t].exists
                          /\ transactions[m][t].timestamp + TxLifetime < now}
  IN /\ old # {}
     /\ transactions' = [transactions EXCEPT ![m] =
                           [t \in Txs |-> IF t \in old THEN NoTransaction ELSE @[t]]]
     /\ UNCHANGED <<submitted, delivering, queueOut, registry, trs, connected,
                    replies, net, now, lost, thrown, closed>>

-----------------------------------------------------------------------------
(* The environment of the master nodes.                                     *)

\* A verifier executes the code it was sent.  The Compute Node (com) keeps
\* the state changes and sends its output along with the hash.
executeJsCode(msg) ==
  /\ msg.type = "codeDelivery"
  /\ \E r \in Results : net' = (net \ {msg}) \cup verificationResult(msg, r, M21)
  /\ trs' = IF msg.com THEN trs \cup {<<msg.to, msg.tx>>} ELSE trs
  /\ UNCHANGED <<submitted, transactions, delivering, queueOut, registry,
                 connected, replies, now, lost, thrown, closed>>

\* The execution throws: the master that delivered the code hears of it.
executeJsCodeThrows(msg) ==
  /\ msg.type = "codeDelivery" /\ thrown < MaxExceptions
  /\ thrown' = thrown + 1
  /\ net' = (net \ {msg}) \cup {[type |-> "exception", to |-> msg.from, tx |-> msg.tx]}
  /\ UNCHANGED <<submitted, transactions, delivering, queueOut, registry, trs,
                 connected, replies, now, lost, closed>>

loseMessage(msg) ==
  /\ lost < MaxLost
  /\ lost' = lost + 1
  /\ net' = net \ {msg}
  /\ UNCHANGED <<submitted, transactions, delivering, queueOut, registry, trs,
                 connected, replies, now, thrown, closed>>

\* A connection request or a syncNodes message reaches the master.
addNode(m, n) ==
  /\ n \notin registry[m]
  /\ registry' = [registry EXCEPT ![m] = @ \cup {n}]
  /\ UNCHANGED <<submitted, transactions, delivering, queueOut, trs, connected,
                 replies, net, now, lost, thrown, closed>>

onClose(t) ==
  /\ t \in connected /\ closed < MaxDisconnects
  /\ connected' = connected \ {t}
  /\ closed' = closed + 1
  /\ UNCHANGED <<submitted, transactions, delivering, queueOut, registry, trs,
                 replies, net, now, lost, thrown>>

onOpen(t) ==
  /\ t \notin connected
  /\ connected' = connected \cup {t}
  /\ UNCHANGED <<submitted, transactions, delivering, queueOut, registry, trs,
                 replies, net, now, lost, thrown, closed>>

\* A thread of processCodePacket does not last until the next clock unit.
tick ==
  /\ now < MaxTime /\ delivering = {}
  /\ now' = now + 1
  /\ UNCHANGED <<submitted, transactions, delivering, queueOut, registry, trs,
                 connected, replies, net, lost, thrown, closed>>

Handle(m, msg) ==
  \/ processIncomingTransaction(m, msg)
  \/ verifyTransaction(m, msg)
  \/ exceptionFromVerifier(m, msg)
  \/ exceptionFromMaster(m, msg)

Next ==
  \/ \E t \in Txs : processCodePacket(t) \/ onClose(t) \/ onOpen(t)
  \/ \E m \in Masters, t \in Txs : deliverToComputeNode(m, t)
  \/ \E m \in Masters, msg \in net : Handle(m, msg)
  \/ \E m \in Masters : cleanupTransactionsMap(m)
  \/ \E msg \in net : executeJsCode(msg) \/ executeJsCodeThrows(msg) \/ loseMessage(msg)
  \/ \E m \in Masters, n \in Verifiers \cup {StorageNode} : addNode(m, n)
  \/ tick

Spec == Init /\ [][Next]_vars

\* Every message received is handled in a thread of its own, and a thread of
\* processCodePacket runs on; clients and other nodes owe nothing.
Fairness ==
  /\ WF_vars(\E m \in Masters, t \in Txs : deliverToComputeNode(m, t))
  /\ WF_vars(\E m \in Masters, msg \in net : Handle(m, msg))
  /\ WF_vars(\E msg \in net : executeJsCode(msg))

FairSpec == Spec /\ Fairness

-----------------------------------------------------------------------------
(* Properties.                                                              *)

VerifiedEntries(m, t) ==
  {i \in 1..Len(queueOut[m]) : queueOut[m][i].tx = t /\ queueOut[m][i].by = "verified"}

\* A copy that is verified is in the queue for the next block ("Once mN
\* verifies a transaction, it will add it to its block ledger", README),
\* whatever the order in which notification, results and output arrived.
\* The one exception is the origin whose client was gone when it was to be
\* answered: checkVerification threw before it reached the queue.
VerifiedIsQueued ==
  \A m \in Masters, t \in Txs :
    LET tx == transactions[m][t]
    IN tx.exists /\ isVerified(tx) =>
         tx.inBlock \/ (m = Origin[t] /\ tx.computeNode /\ ~tx.sentToClient)

\* No master queues a transaction as verified twice (checkVerification's
\* inBlock flag), not even when the cleanup has erased its copy and later
\* results build a new one.
QueuedOnce ==
  \A m \in Masters, t \in Txs :
    \A i, j \in VerifiedEntries(m, t) : i = j

\* A client gets one reply to its request at most: the result, the exception
\* or the error, and never two of them, although the answer is retried on
\* every later result after a failed send.
ClientAnsweredOnce == \A t \in Txs : Len(replies[t]) <= 1

\* The client is sent the function's output only once it has been received
\* (comment in checkVerification, MasterNodeLib.cpp:448).
AnswerHasOutput ==
  \A t \in Txs : \A i \in 1..Len(replies[t]) :
    replies[t][i].kind = "result" => replies[t][i].data # EmptyString

\* A transaction that was verified has its output when it is queued for a block,
\* also on a master that got results first ("txNotification is received, the rest
\* of the transaction will get filled in", MasterNodeLib.cpp:429).
QueuedHasOutput ==
  \A m \in Masters, t \in Txs :
    \A i \in VerifiedEntries(m, t) : queueOut[m][i].output # EmptyString

\* canCommit goes to a Compute Node that holds the transaction's state changes.
CommitReachesHolder ==
  \A msg \in net : msg.type = "canCommit" => <<msg.to, msg.tx>> \in trs

\* When no message is lost, one execution throws at most and the client
\* stays, every request is answered: with the result, the exception or the
\* error.
RequestIsAnswered ==
  \A t \in Txs : t \in submitted ~>
    Len(replies[t]) = 1 \/ lost > 0 \/ thrown > 1 \/ closed > 0

\* When, besides, no execution throws at all, every master of m21 queues the
\* transaction for its block, whatever the order of the messages.
RequestIsQueuedEverywhere ==
  \A m \in M21, t \in Txs :
    t \in submitted /\ Origin[t] \in M21 ~>
      VerifiedEntries(m, t) # {} \/ lost > 0 \/ thrown > 0 \/ closed > 0
=============================================================================
