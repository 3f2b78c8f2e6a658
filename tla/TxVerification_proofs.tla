----------------------- MODULE TxVerification_proofs -----------------------
(***************************************************************************)
(* Proofs about TxVerification, for every number of masters, verifiers,    *)
(* transactions and results, and for every threshold and bound.            *)
(***************************************************************************)
EXTENDS TxVerification, TLAPS

-----------------------------------------------------------------------------
(* What the operators on a Transaction return.                              *)

\* The default Transaction has the type of a map entry.
LEMMA NoTransactionType == NoTransaction \in Transaction
  BY DEF NoTransaction, Transaction, Strings

\* The two constructors return a Transaction.
LEMMA ConstructorTypes ==
  ASSUME NEW ts \in Nat, NEW hash \in Strings
  PROVE  /\ OriginTransaction(ts) \in Transaction
         /\ PartialTransaction(hash, ts) \in Transaction
  BY DEF OriginTransaction, PartialTransaction, NoTransaction, Transaction, Strings

\* toJson writes, and fromJson reads back, what a notification carries.
LEMMA JsonTypes ==
  ASSUME NEW tx \in Transaction, NEW j \in Json
  PROVE  /\ toJson(tx) \in Json
         /\ fromJson(tx, j) \in Transaction
  BY DEF toJson, fromJson, Json, Transaction

\* verifyHash keeps the type.
LEMMA VerifyHashType ==
  ASSUME NEW tx \in Transaction, NEW h \in Results
  PROVE  verifyHash(tx, h) \in Transaction
<1>1. tx.totalVerified + 1 \in Nat
  BY DEF Transaction
<1>2. [tx EXCEPT !.lastValidHash = h, !.totalVerified = @ + 1] \in Transaction
  BY <1>1 DEF Transaction, Strings
<1>3. QED BY <1>2 DEF verifyHash

\* Every message the masters and verifiers send is one of Messages.
LEMMA MessageTypes ==
  ASSUME NEW t \in Txs, NEW m \in Masters, NEW v \in Verifiers, NEW j \in Json,
         NEW com \in BOOLEAN, NEW tx \in Transaction, NEW r \in Results,
         NEW d \in [type : {"codeDelivery"}, to : Verifiers, tx : Txs,
                    from : Masters, com : BOOLEAN]
  PROVE  /\ txNotification(t, j, Others(m)) \subseteq Messages
         /\ exceptionTx(m, t, j, Others(m)) \subseteq Messages
         /\ codeDelivery(m, t, v, com) \in Messages
         /\ verificationResult(d, r, M21) \subseteq Messages
         /\ canCommit(t, tx) \in Messages
<1>1. txNotification(t, j, Others(m)) \subseteq Messages
  BY MastersAssumption DEF txNotification, Others, Messages
<1>2. exceptionTx(m, t, j, Others(m)) \subseteq Messages
  BY MastersAssumption DEF exceptionTx, Others, Messages
<1>3. codeDelivery(m, t, v, com) \in Messages
  BY DEF codeDelivery, Messages
<1>4. verificationResult(d, r, M21) \subseteq Messages
  <2>1. (IF d.com THEN r ELSE EmptyString) \in Strings
    BY DEF Strings
  <2>2. QED BY <2>1, MastersAssumption DEF verificationResult, Messages
<1>5. canCommit(t, tx) \in Messages
  BY DEF canCommit, Messages, Transaction
<1>6. QED BY <1>1, <1>2, <1>3, <1>4, <1>5

\* A message is told by its type.
LEMMA MessageFields ==
  ASSUME NEW msg \in Messages
  PROVE  /\ msg.type = "txNotification" =>
              msg.to \in Masters /\ msg.tx \in Txs /\ msg.json \in Json
         /\ msg.type = "codeDelivery" =>
              msg \in [type : {"codeDelivery"}, to : Verifiers, tx : Txs,
                       from : Masters, com : BOOLEAN]
         /\ msg.type = "verificationResult" =>
              /\ msg.to \in Masters /\ msg.tx \in Txs
              /\ msg.hash \in Results /\ msg.output \in Strings
         /\ msg.type = "exception" => msg.to \in Masters /\ msg.tx \in Txs
         /\ msg.type = "exceptionTx" =>
              msg.to \in Masters /\ msg.tx \in Txs /\ msg.json \in Json
  BY DEF Messages

WithComputeNode(tx, id) == [tx EXCEPT !.computeNodeId = id]

\* sendToVerifier leaves all but the Compute Node's id alone, and sends code.
LEMMA SendToVerifier ==
  ASSUME TypeOK, NEW m \in Masters, NEW t \in Txs, NEW tx \in Transaction,
         NEW s \in sendToVerifier(m, t, tx)
  PROVE  /\ s.tx \in Transaction
         /\ s.tx = tx \/ \E id \in Verifiers : s.tx = WithComputeNode(tx, id)
         /\ s.msgs \subseteq Messages
         /\ \A msg \in s.msgs : msg.type = "codeDelivery"
<1>1. CASE KnownVerifiers(m) = {}
  BY <1>1 DEF sendToVerifier
<1>2. CASE KnownVerifiers(m) # {}
  <2>1. PICK v \in KnownVerifiers(m) :
          s = [tx |-> IF tx.computeNode THEN [tx EXCEPT !.computeNodeId = v] ELSE tx,
               msgs |-> IF HasStateChangeStorageNode(m)
                        THEN {codeDelivery(m, t, v, tx.computeNode)} ELSE {}]
    BY <1>2 DEF sendToVerifier
  <2>2. v \in Verifiers
    BY DEF KnownVerifiers
  <2>3. tx.computeNode \in BOOLEAN
    BY DEF Transaction
  <2>4. codeDelivery(m, t, v, tx.computeNode) \in Messages
    BY <2>2, <2>3 DEF codeDelivery, Messages
  <2>5. codeDelivery(m, t, v, tx.computeNode).type = "codeDelivery"
    BY DEF codeDelivery
  <2>6. [tx EXCEPT !.computeNodeId = v] \in Transaction
    BY <2>2 DEF Transaction
  <2>7. QED BY <2>1, <2>2, <2>4, <2>5, <2>6 DEF WithComputeNode
<1>3. QED BY <1>1, <1>2

\* An entry copied from a Transaction, and a reply with its output, are typed.
LEMMA EntryTypes ==
  ASSUME NEW t \in Txs, NEW tx \in Transaction
  PROVE  /\ Entry(t, tx, "verified") \in Entries
         /\ Entry(t, tx, "exception") \in Entries
         /\ Reply("result", tx.output) \in Replies
         /\ Reply("exception", EmptyString) \in Replies
         /\ Reply("error", EmptyString) \in Replies
  BY DEF Entry, Entries, Reply, Replies, Transaction, Strings

\* Storing a Transaction under a key keeps the type of the maps.
LEMMA MapUpdate ==
  ASSUME TypeOK, NEW m \in Masters, NEW t \in Txs, NEW tx \in Transaction
  PROVE  [transactions EXCEPT ![m][t] = tx] \in [Masters -> [Txs -> Transaction]]
  BY DEF TypeOK

\* checkVerification keeps the types of the four variables it changes.
LEMMA CheckVerificationTypes ==
  ASSUME TypeOK, NEW m \in Masters, NEW t \in Txs, NEW tx \in Transaction,
         NEW pending, pending \subseteq Messages, checkVerification(m, t, tx, pending)
  PROVE  /\ transactions' \in [Masters -> [Txs -> Transaction]]
         /\ queueOut' \in [Masters -> Seq(Entries)]
         /\ replies' \in [Txs -> Seq(Replies)]
         /\ net' \subseteq Messages
<1>1. checked(t, tx) \in Transaction
  BY ZenonT(30) DEF checked, Transaction, answersClient, addsToQueue, isVerified, canSend, sendThrows
<1>2. transactions' \in [Masters -> [Txs -> Transaction]]
  BY <1>1 DEF checkVerification, TypeOK
<1>3. queueOut' \in [Masters -> Seq(Entries)]
  <2>1. Append(queueOut[m], Entry(t, tx, "verified")) \in Seq(Entries)
    BY EntryTypes DEF TypeOK
  <2>2. QED BY <2>1 DEF checkVerification, TypeOK
<1>4. replies' \in [Txs -> Seq(Replies)]
  <2>1. Append(replies[t], Reply("result", tx.output)) \in Seq(Replies)
    BY EntryTypes DEF TypeOK
  <2>2. QED BY <2>1 DEF checkVerification, TypeOK
<1>5. net' \subseteq Messages
  <2>1. canCommit(t, tx) \in Messages
    BY DEF canCommit, Messages, Transaction
  <2>2. QED BY <2>1 DEF checkVerification
<1>6. QED BY <1>2, <1>3, <1>4, <1>5

\* Every step keeps the types.
LEMMA TypeOKStep == TypeOK /\ [Next]_vars => TypeOK'
<1> SUFFICES ASSUME TypeOK, [Next]_vars PROVE TypeOK'
  OBVIOUS
<1>1. ASSUME NEW t \in Txs, processCodePacket(t) PROVE TypeOK'
  <2>1. Origin[t] \in Masters
    BY MastersAssumption
  <2>2. OriginTransaction(now) \in Transaction
    BY ConstructorTypes DEF TypeOK, Strings
  <2>3. toJson(OriginTransaction(now)) \in Json
    BY <2>2 DEF toJson, Json, Transaction
  <2>4. txNotification(t, toJson(OriginTransaction(now)), Others(Origin[t])) \subseteq Messages
    BY <2>1, <2>3, MastersAssumption DEF txNotification, Others, Messages
  <2>5. Append(replies[t], Reply("error", EmptyString)) \in Seq(Replies)
    BY <2>2, EntryTypes DEF TypeOK
  <2>6. transactions' \in [Masters -> [Txs -> Transaction]]
    <3>1. \/ transactions' = [transactions EXCEPT ![Origin[t]][t] = OriginTransaction(now)]
          \/ transactions' = transactions
      BY <1>1 DEF processCodePacket
    <3>2. [transactions EXCEPT ![Origin[t]][t] = OriginTransaction(now)]
            \in [Masters -> [Txs -> Transaction]]
      BY <2>1, <2>2, MapUpdate
    <3>3. QED BY <3>1, <3>2 DEF TypeOK
  <2>7. replies' \in [Txs -> Seq(Replies)]
    BY <1>1, <2>5 DEF processCodePacket, TypeOK
  <2>8. net' \subseteq Messages
    BY <1>1, <2>4 DEF processCodePacket, TypeOK
  <2>9. delivering' \subseteq Masters \X Txs
    BY <1>1, <2>1 DEF processCodePacket, TypeOK
  <2>10. QED BY <1>1, <2>6, <2>7, <2>8, <2>9 DEF processCodePacket, TypeOK
<1>2. ASSUME NEW m \in Masters, NEW t \in Txs, deliverToComputeNode(m, t) PROVE TypeOK'
  <2>1. transactions[m][t] \in Transaction
    BY DEF TypeOK
  <2>2. PICK s \in sendToVerifier(m, t, transactions[m][t]) :
          /\ transactions' = [transactions EXCEPT ![m][t] = s.tx]
          /\ net' = net \cup s.msgs
    BY <1>2 DEF deliverToComputeNode
  <2>3. s.tx \in Transaction /\ s.msgs \subseteq Messages
    BY <2>1, SendToVerifier
  <2>4. transactions' \in [Masters -> [Txs -> Transaction]]
    BY <2>2, <2>3 DEF TypeOK
  <2>5. net' \subseteq Messages
    BY <2>2, <2>3 DEF TypeOK
  <2>6. QED BY <1>2, <2>4, <2>5 DEF deliverToComputeNode, TypeOK
<1>3. ASSUME NEW m \in Masters, NEW msg \in net, processIncomingTransaction(m, msg)
      PROVE  TypeOK'
  <2> DEFINE tx == fromJson(transactions[m][msg.tx], msg.json)
  <2>1. msg.tx \in Txs /\ msg.json \in Json
    BY <1>3, MessageFields DEF TypeOK, processIncomingTransaction
  <2>2. tx \in Transaction
    BY <2>1, JsonTypes DEF TypeOK
  <2>3. PICK s \in sendToVerifier(m, msg.tx, tx) :
          checkVerification(m, msg.tx, s.tx, (net \ {msg}) \cup s.msgs)
    BY <1>3 DEF processIncomingTransaction
  <2>4. s.tx \in Transaction /\ (net \ {msg}) \cup s.msgs \subseteq Messages
    BY <2>1, <2>2, SendToVerifier DEF TypeOK
  <2>5. /\ transactions' \in [Masters -> [Txs -> Transaction]]
        /\ queueOut' \in [Masters -> Seq(Entries)]
        /\ replies' \in [Txs -> Seq(Replies)]
        /\ net' \subseteq Messages
    BY <2>1, <2>3, <2>4, CheckVerificationTypes
  <2>6. QED BY <1>3, <2>5 DEF processIncomingTransaction, TypeOK
<1>4. ASSUME NEW m \in Masters, NEW msg \in net, verifyTransaction(m, msg) PROVE TypeOK'
  <2> DEFINE old == transactions[m][msg.tx]
             found == IF old.exists THEN old ELSE PartialTransaction(msg.hash, now)
             filled == IF msg.output = EmptyString THEN found
                       ELSE setOutput(found, msg.output)
  <2>1. /\ msg.tx \in Txs /\ msg.hash \in Results /\ msg.output \in Strings
        /\ checkVerification(m, msg.tx, verifyHash(filled, msg.hash), net \ {msg})
    BY <1>4, MessageFields DEF TypeOK, verifyTransaction
  <2>2. old \in Transaction /\ now \in Nat
    BY <2>1 DEF TypeOK
  <2>3. PartialTransaction(msg.hash, now) \in Transaction
    BY <2>1, <2>2, ConstructorTypes DEF Strings
  <2>4. found \in Transaction
    BY <2>2, <2>3
  <2>5. setOutput(found, msg.output) \in Transaction
    BY <2>1, <2>4 DEF setOutput, Transaction
  <2>6. filled \in Transaction
    BY <2>4, <2>5
  <2> HIDE DEF filled
  <2>7. verifyHash(filled, msg.hash) \in Transaction
    BY <2>1, <2>6, VerifyHashType
  <2>8. net \ {msg} \subseteq Messages
    BY DEF TypeOK
  <2>9. /\ transactions' \in [Masters -> [Txs -> Transaction]]
        /\ queueOut' \in [Masters -> Seq(Entries)]
        /\ replies' \in [Txs -> Seq(Replies)]
        /\ net' \subseteq Messages
    BY <2>1, <2>7, <2>8, CheckVerificationTypes
  <2>10. QED BY <1>4, <2>9 DEF verifyTransaction, TypeOK
<1>5. ASSUME NEW m \in Masters, NEW msg \in net, exceptionFromVerifier(m, msg)
      PROVE  TypeOK'
  <2> DEFINE tx == [setOutput(transactions[m][msg.tx], EmptyString)
                      EXCEPT !.exception = TRUE]
  <2>1. msg.tx \in Txs
    BY <1>5, MessageFields DEF TypeOK, exceptionFromVerifier
  <2>2. tx \in Transaction
    <3>1. transactions[m][msg.tx] \in Transaction /\ EmptyString \in Strings
      BY <2>1 DEF TypeOK, Strings
    <3>2. setOutput(transactions[m][msg.tx], EmptyString) \in Transaction
      BY <3>1 DEF setOutput, Transaction
    <3>3. QED BY <3>2 DEF Transaction
  <2>3. toJson(tx) \in Json
    BY <2>2 DEF toJson, Json, Transaction
  <2>4. exceptionTx(m, msg.tx, toJson(tx), Others(m)) \subseteq Messages
    BY <2>1, <2>3, MastersAssumption DEF exceptionTx, Others, Messages
  <2>5. /\ Append(queueOut[m], Entry(msg.tx, tx, "exception")) \in Seq(Entries)
        /\ Append(replies[msg.tx], Reply("exception", EmptyString)) \in Seq(Replies)
    BY <2>1, <2>2, EntryTypes DEF TypeOK
  <2> HIDE DEF tx
  <2>6. transactions' \in [Masters -> [Txs -> Transaction]]
    <3>1. \/ transactions' = transactions
          \/ transactions' = [transactions EXCEPT ![m][msg.tx] = tx]
          \/ transactions' = [transactions EXCEPT ![m][msg.tx] = NoTransaction]
      BY <1>5 DEF exceptionFromVerifier, tx
    <3>2. /\ [transactions EXCEPT ![m][msg.tx] = tx] \in [Masters -> [Txs -> Transaction]]
          /\ [transactions EXCEPT ![m][msg.tx] = NoTransaction]
               \in [Masters -> [Txs -> Transaction]]
      BY <2>1, <2>2, NoTransactionType, MapUpdate
    <3>3. QED BY <3>1, <3>2 DEF TypeOK
  <2>7. queueOut' \in [Masters -> Seq(Entries)]
    BY <1>5, <2>1, <2>5 DEF exceptionFromVerifier, TypeOK, tx
  <2>8. replies' \in [Txs -> Seq(Replies)]
    BY <1>5, <2>1, <2>5 DEF exceptionFromVerifier, TypeOK, tx
  <2>9. net' \subseteq Messages
    BY <1>5, <2>4 DEF exceptionFromVerifier, TypeOK, tx
  <2>10. QED BY <1>5, <2>6, <2>7, <2>8, <2>9 DEF exceptionFromVerifier, TypeOK
<1>6. ASSUME NEW m \in Masters, NEW msg \in net, exceptionFromMaster(m, msg)
      PROVE  TypeOK'
  <2>1. msg.tx \in Txs /\ msg.json \in Json
    BY <1>6, MessageFields DEF TypeOK, exceptionFromMaster
  <2>2. fromJson(NoTransaction, msg.json) \in Transaction
    BY <2>1, NoTransactionType, JsonTypes
  <2>3. Append(queueOut[m], Entry(msg.tx, fromJson(NoTransaction, msg.json), "exception"))
          \in Seq(Entries)
    BY <2>1, <2>2, EntryTypes DEF TypeOK
  <2>4. queueOut' \in [Masters -> Seq(Entries)]
    BY <1>6, <2>3 DEF exceptionFromMaster, TypeOK
  <2>5. QED BY <1>6, <2>4 DEF exceptionFromMaster, TypeOK
<1>7. ASSUME NEW m \in Masters, cleanupTransactionsMap(m) PROVE TypeOK'
  BY <1>7, NoTransactionType DEF cleanupTransactionsMap, TypeOK
<1>8. ASSUME NEW msg \in net, executeJsCode(msg) PROVE TypeOK'
  <2>1. msg \in [type : {"codeDelivery"}, to : Verifiers, tx : Txs,
                 from : Masters, com : BOOLEAN]
    BY <1>8, MessageFields DEF TypeOK, executeJsCode
  <2>2. PICK r \in Results : net' = (net \ {msg}) \cup verificationResult(msg, r, M21)
    BY <1>8 DEF executeJsCode
  <2>3. verificationResult(msg, r, M21) \subseteq Messages
    <3>1. (IF msg.com THEN r ELSE EmptyString) \in Strings
      BY DEF Strings
    <3>2. QED BY <2>1, <3>1, MastersAssumption DEF verificationResult, Messages
  <2>4. net' \subseteq Messages
    BY <2>2, <2>3 DEF TypeOK
  <2>5. trs' \subseteq Verifiers \X Txs
    BY <1>8, <2>1 DEF executeJsCode, TypeOK
  <2>6. QED BY <1>8, <2>4, <2>5 DEF executeJsCode, TypeOK
<1>9. ASSUME NEW msg \in net, executeJsCodeThrows(msg) PROVE TypeOK'
  <2>1. msg.from \in Masters /\ msg.tx \in Txs
    BY <1>9, MessageFields DEF TypeOK, executeJsCodeThrows
  <2>2. [type |-> "exception", to |-> msg.from, tx |-> msg.tx] \in Messages
    BY <2>1 DEF Messages
  <2>3. QED BY <1>9, <2>2 DEF executeJsCodeThrows, TypeOK
<1>10. ASSUME NEW msg \in net, loseMessage(msg) PROVE TypeOK'
  BY <1>10 DEF loseMessage, TypeOK
<1>11. ASSUME NEW m \in Masters, NEW n \in Verifiers \cup {StorageNode}, addNode(m, n)
       PROVE  TypeOK'
  BY <1>11 DEF addNode, TypeOK
<1>12. ASSUME NEW t \in Txs, onClose(t) PROVE TypeOK'
  BY <1>12 DEF onClose, TypeOK
<1>13. ASSUME NEW t \in Txs, onOpen(t) PROVE TypeOK'
  BY <1>13 DEF onOpen, TypeOK
<1>14. CASE tick
  BY <1>14 DEF tick, TypeOK
<1>15. CASE UNCHANGED vars
  BY <1>15 DEF vars, TypeOK
<1>16. QED
  BY <1>1, <1>2, <1>3, <1>4, <1>5, <1>6, <1>7, <1>8, <1>9, <1>10, <1>11, <1>12,
     <1>13, <1>14, <1>15 DEF Next, Handle

\* The types are kept by every behaviour of the specification.
THEOREM TypeCorrect == Spec => []TypeOK
<1>1. Init => TypeOK
  BY NoTransactionType, NodesAssumption DEF Init, TypeOK
<1>2. QED BY <1>1, TypeOKStep, PTL DEF Spec

-----------------------------------------------------------------------------
(* A verified copy is queued.  The invariant is about one copy at a time:   *)
(* only the origin's copy has computeNode set; an answered copy is queued;  *)
(* a queued copy is full; and what VerifiedIsQueued says.                   *)

CopyFlagsOK(m, t, tx) ==
  /\ tx.computeNode => m = Origin[t]
  /\ ~tx.exists => tx = NoTransaction
  /\ tx.sentToClient => tx.inBlock
  /\ tx.inBlock => tx.full

CopyOK(m, t, tx) ==
  /\ CopyFlagsOK(m, t, tx)
  /\ tx.exists /\ isVerified(tx) =>
       tx.inBlock \/ (m = Origin[t] /\ tx.computeNode /\ ~tx.sentToClient)

CopiesOK == \A m \in Masters, t \in Txs : CopyOK(m, t, transactions[m][t])

\* An empty map entry satisfies the invariant, and so does a new Transaction
\* of the origin.
LEMMA NewCopies ==
  ASSUME NEW m \in Masters, NEW t \in Txs, NEW ts \in Nat
  PROVE  /\ CopyOK(m, t, NoTransaction)
         /\ m = Origin[t] => CopyOK(m, t, OriginTransaction(ts))
<1>1. ~(0 >= MajorityThreshold)
  BY ThresholdAssumption
<1>2. QED
  BY <1>1 DEF CopyOK, CopyFlagsOK, NoTransaction, OriginTransaction, isVerified

\* Whatever flags a copy comes with, after checkVerification it satisfies the
\* invariant: it was queued, or the answer to its client threw.
LEMMA CheckedCopy ==
  ASSUME NEW m \in Masters, NEW t \in Txs, NEW tx \in Transaction,
         tx.exists, CopyFlagsOK(m, t, tx)
  PROVE  CopyOK(m, t, checked(t, tx))
<1> DEFINE new == checked(t, tx)
<1>1. /\ new.exists = tx.exists /\ new.full = tx.full
      /\ new.computeNode = tx.computeNode /\ new.totalVerified = tx.totalVerified
      /\ new.receivedOutput = tx.receivedOutput
      /\ new.sentToClient = (tx.sentToClient \/ answersClient(t, tx))
      /\ new.inBlock = (tx.inBlock \/ addsToQueue(t, tx))
  BY DEF checked, Transaction
<1>2. isVerified(new) <=> isVerified(tx)
  BY <1>1 DEF isVerified
<1>3. CopyFlagsOK(m, t, new)
  BY <1>1 DEF CopyFlagsOK, answersClient, addsToQueue, sendThrows, isVerified
<1>4. isVerified(tx) => new.inBlock \/ (canSend(tx) /\ ~answersClient(t, tx))
  BY <1>1 DEF addsToQueue, sendThrows, answersClient
<1>5. QED
  BY <1>1, <1>2, <1>3, <1>4 DEF CopyOK, CopyFlagsOK, canSend

\* fromJson keeps the flags of a copy.
LEMMA FlagsKept ==
  ASSUME NEW m \in Masters, NEW t \in Txs, NEW tx \in Transaction,
         CopyFlagsOK(m, t, tx), NEW j \in Json
  PROVE  CopyFlagsOK(m, t, fromJson(tx, j)) /\ fromJson(tx, j).exists
  BY DEF CopyFlagsOK, fromJson, Transaction

\* Storing a copy that satisfies the invariant keeps it.
LEMMA CopiesUpdate ==
  ASSUME TypeOK, CopiesOK, NEW m \in Masters, NEW t \in Txs, NEW tx,
         CopyOK(m, t, tx), transactions' = [transactions EXCEPT ![m][t] = tx]
  PROVE  CopiesOK'
<1> SUFFICES ASSUME NEW n \in Masters, NEW u \in Txs
             PROVE  CopyOK(n, u, transactions'[n][u])
  BY DEF CopiesOK, CopyOK, CopyFlagsOK, isVerified
<1>1. transactions'[n][u] = IF n = m /\ u = t THEN tx ELSE transactions[n][u]
  BY DEF TypeOK
<1>2. QED BY <1>1 DEF CopiesOK

\* Every step keeps the invariant.
LEMMA CopiesStep == TypeOK /\ CopiesOK /\ [Next]_vars => CopiesOK'
<1> SUFFICES ASSUME TypeOK, CopiesOK, [Next]_vars PROVE CopiesOK'
  OBVIOUS
<1>a. ASSUME transactions' = transactions PROVE CopiesOK'
  BY <1>a DEF CopiesOK, CopyOK, CopyFlagsOK, isVerified
<1>1. ASSUME NEW t \in Txs, processCodePacket(t) PROVE CopiesOK'
  <2>1. Origin[t] \in Masters /\ now \in Nat
    BY MastersAssumption DEF TypeOK
  <2>2. \/ transactions' = [transactions EXCEPT ![Origin[t]][t] = OriginTransaction(now)]
        \/ transactions' = transactions
    BY <1>1 DEF processCodePacket
  <2>3. CopyOK(Origin[t], t, OriginTransaction(now))
    BY <2>1, NewCopies
  <2>4. QED BY <2>1, <2>2, <2>3, <1>a, CopiesUpdate
<1>2. ASSUME NEW m \in Masters, NEW t \in Txs, deliverToComputeNode(m, t) PROVE CopiesOK'
  <2> DEFINE tx == transactions[m][t]
  <2>1. tx \in Transaction /\ CopyOK(m, t, tx)
    BY DEF TypeOK, CopiesOK
  <2>2. PICK s \in sendToVerifier(m, t, tx) :
          transactions' = [transactions EXCEPT ![m][t] = s.tx]
    BY <1>2 DEF deliverToComputeNode
  <2> HIDE DEF tx
  <2>3. s.tx = tx \/ \E id \in Verifiers : s.tx = WithComputeNode(tx, id)
    BY <2>1, <2>2, SendToVerifier
  <2>a. ~tx.computeNode => s.tx = tx
    BY <2>1, <2>2 DEF sendToVerifier
  <2>4. CopyOK(m, t, s.tx)
    <3>1. CASE s.tx = tx
      BY <3>1, <2>1
    <3>2. CASE ~tx.exists
      <4>1. ~tx.computeNode
        BY <3>2, <2>1 DEF CopyOK, CopyFlagsOK, NoTransaction
      <4>2. QED BY <4>1, <2>1, <2>a
    <3>3. ASSUME NEW id \in Verifiers, tx.exists, s.tx = WithComputeNode(tx, id)
          PROVE  CopyOK(m, t, s.tx)
      BY <2>1, <3>3 DEF CopyOK, CopyFlagsOK, isVerified, Transaction, WithComputeNode
    <3>4. QED BY <2>3, <3>1, <3>2, <3>3
  <2>5. QED BY <2>2, <2>4, CopiesUpdate
<1>3. ASSUME NEW m \in Masters, NEW msg \in net, processIncomingTransaction(m, msg)
      PROVE  CopiesOK'
  <2> DEFINE old == transactions[m][msg.tx]
             tx == fromJson(old, msg.json)
  <2>1. msg.tx \in Txs /\ msg.json \in Json
    BY <1>3, MessageFields DEF TypeOK, processIncomingTransaction
  <2>2. old \in Transaction /\ CopyFlagsOK(m, msg.tx, old)
    BY <2>1 DEF TypeOK, CopiesOK, CopyOK
  <2>3. tx \in Transaction /\ CopyFlagsOK(m, msg.tx, tx) /\ tx.exists
    BY <2>1, <2>2, JsonTypes, FlagsKept
  <2>4. PICK s \in sendToVerifier(m, msg.tx, tx) :
          transactions' = [transactions EXCEPT ![m][msg.tx] = checked(msg.tx, s.tx)]
    BY <1>3 DEF processIncomingTransaction, checkVerification
  <2> HIDE DEF tx
  <2>5. /\ s.tx \in Transaction
        /\ s.tx = tx \/ \E id \in Verifiers : s.tx = WithComputeNode(tx, id)
    BY <2>1, <2>3, <2>4, SendToVerifier
  <2>6. CopyFlagsOK(m, msg.tx, s.tx) /\ s.tx.exists
    <3>1. CASE s.tx = tx
      BY <3>1, <2>3
    <3>2. ASSUME NEW id \in Verifiers, s.tx = WithComputeNode(tx, id)
          PROVE  CopyFlagsOK(m, msg.tx, s.tx) /\ s.tx.exists
      BY <3>2, <2>3 DEF CopyFlagsOK, Transaction, WithComputeNode
    <3>3. QED BY <2>5, <3>1, <3>2
  <2>7. CopyOK(m, msg.tx, checked(msg.tx, s.tx))
    BY <2>1, <2>5, <2>6, CheckedCopy
  <2>8. QED BY <2>1, <2>4, <2>7, CopiesUpdate
<1>4. ASSUME NEW m \in Masters, NEW msg \in net, verifyTransaction(m, msg) PROVE CopiesOK'
  <2> DEFINE old == transactions[m][msg.tx]
             found == IF old.exists THEN old ELSE PartialTransaction(msg.hash, now)
             filled == IF msg.output = EmptyString THEN found
                       ELSE setOutput(found, msg.output)
             tx == verifyHash(filled, msg.hash)
  <2>1. /\ msg.tx \in Txs /\ msg.hash \in Results /\ msg.output \in Strings
        /\ transactions' = [transactions EXCEPT ![m][msg.tx] = checked(msg.tx, tx)]
    BY <1>4, MessageFields DEF TypeOK, verifyTransaction, checkVerification
  <2>2. old \in Transaction /\ now \in Nat /\ CopyFlagsOK(m, msg.tx, old)
    BY <2>1 DEF TypeOK, CopiesOK, CopyOK
  <2>3. /\ PartialTransaction(msg.hash, now) \in Transaction
        /\ PartialTransaction(msg.hash, now).exists
        /\ CopyFlagsOK(m, msg.tx, PartialTransaction(msg.hash, now))
    <3>1. PartialTransaction(msg.hash, now) \in Transaction
      BY <2>1, <2>2, ConstructorTypes DEF Strings
    <3>2. QED BY <3>1 DEF PartialTransaction, NoTransaction, CopyFlagsOK
  <2>4. found \in Transaction /\ found.exists /\ CopyFlagsOK(m, msg.tx, found)
    BY <2>2, <2>3
  <2> HIDE DEF found
  <2>5. setOutput(found, msg.output) \in Transaction
    BY <2>1, <2>4 DEF setOutput, Transaction
  <2>6. /\ CopyFlagsOK(m, msg.tx, setOutput(found, msg.output))
        /\ setOutput(found, msg.output).exists
    BY <2>4 DEF setOutput, CopyFlagsOK, Transaction
  <2>7. filled \in Transaction /\ filled.exists /\ CopyFlagsOK(m, msg.tx, filled)
    BY <2>4, <2>5, <2>6
  <2> HIDE DEF filled
  <2>8. tx \in Transaction
    BY <2>1, <2>7, VerifyHashType
  <2>9. tx.exists /\ CopyFlagsOK(m, msg.tx, tx)
    BY <2>7 DEF verifyHash, CopyFlagsOK, Transaction
  <2> HIDE DEF tx
  <2>10. CopyOK(m, msg.tx, checked(msg.tx, tx))
    BY <2>1, <2>8, <2>9, CheckedCopy
  <2>11. QED BY <2>1, <2>10, CopiesUpdate
<1>5. ASSUME NEW m \in Masters, NEW msg \in net, exceptionFromVerifier(m, msg)
      PROVE  CopiesOK'
  <2> DEFINE old == transactions[m][msg.tx]
             tx == [setOutput(old, EmptyString) EXCEPT !.exception = TRUE]
  <2>1. msg.tx \in Txs
    BY <1>5, MessageFields DEF TypeOK, exceptionFromVerifier
  <2>2. old \in Transaction /\ CopyOK(m, msg.tx, old)
    BY <2>1 DEF TypeOK, CopiesOK
  <2>3. \/ transactions' = transactions
        \/ /\ old.exists /\ tx.computeNode
           /\ transactions' = [transactions EXCEPT ![m][msg.tx] = tx]
        \/ transactions' = [transactions EXCEPT ![m][msg.tx] = NoTransaction]
    BY <1>5 DEF exceptionFromVerifier
  <2>4. old.exists /\ tx.computeNode => CopyOK(m, msg.tx, tx)
    BY <2>2 DEF setOutput, CopyOK, CopyFlagsOK, Transaction
  <2>5. CopyOK(m, msg.tx, NoTransaction)
    BY <2>1, NewCopies
  <2> HIDE DEF tx
  <2>6. QED BY <2>1, <2>3, <2>4, <2>5, <1>a, CopiesUpdate
<1>6. ASSUME NEW m \in Masters, cleanupTransactionsMap(m) PROVE CopiesOK'
  <2> SUFFICES ASSUME NEW n \in Masters, NEW u \in Txs
               PROVE  CopyOK(n, u, transactions'[n][u])
    BY DEF CopiesOK, CopyOK, CopyFlagsOK, isVerified
  <2>1. transactions'[n][u] \in {transactions[n][u], NoTransaction}
    BY <1>6 DEF cleanupTransactionsMap, TypeOK
  <2>2. QED BY <2>1, NewCopies DEF CopiesOK
<1>7. ASSUME NEW m \in Masters, NEW msg \in net, exceptionFromMaster(m, msg)
      PROVE  CopiesOK'
  BY <1>7, <1>a DEF exceptionFromMaster
<1>8. ASSUME NEW msg \in net,
             executeJsCode(msg) \/ executeJsCodeThrows(msg) \/ loseMessage(msg)
      PROVE  CopiesOK'
  BY <1>8, <1>a DEF executeJsCode, executeJsCodeThrows, loseMessage
<1>9. ASSUME NEW m \in Masters, NEW n \in Verifiers \cup {StorageNode}, addNode(m, n)
      PROVE  CopiesOK'
  BY <1>9, <1>a DEF addNode
<1>10. ASSUME NEW t \in Txs, onClose(t) \/ onOpen(t) PROVE CopiesOK'
  BY <1>10, <1>a DEF onClose, onOpen
<1>11. CASE tick \/ UNCHANGED vars
  BY <1>11, <1>a DEF tick, vars
<1>12. QED
  BY <1>1, <1>2, <1>3, <1>4, <1>5, <1>6, <1>7, <1>8, <1>9, <1>10, <1>11 DEF Next, Handle

\* In every behaviour, a copy that has the hashes, the notification and the
\* output it needs is in its master's queue, in whatever order they came; only
\* the origin of a client that could not be answered may hold it back.
THEOREM VerifiedIsQueuedCorrect == Spec => []VerifiedIsQueued
<1>1. Init => TypeOK /\ CopiesOK
  <2>1. Init => TypeOK
    BY NoTransactionType, NodesAssumption DEF Init, TypeOK
  <2>2. Init => CopiesOK
    BY NewCopies DEF Init, CopiesOK
  <2>3. QED BY <2>1, <2>2
<1>2. TypeOK /\ CopiesOK /\ [Next]_vars => (TypeOK /\ CopiesOK)'
  BY TypeOKStep, CopiesStep
<1>3. CopiesOK => VerifiedIsQueued
  BY DEF CopiesOK, CopyOK, VerifiedIsQueued
<1>4. QED BY <1>1, <1>2, <1>3, PTL DEF Spec

-----------------------------------------------------------------------------
(* A master queues a transaction as verified once.  Why: a copy becomes     *)
(* full only by the one notification its master gets (or, at the origin, by *)
(* the request itself).  So once a copy was queued, either it is still in   *)
(* the map with its inBlock flag, or it is gone and what is built in its    *)
(* place can never become full again.                                       *)

IsNote(msg, m, t) == msg.type = "txNotification" /\ msg.to = m /\ msg.tx = t

HasNote(m, t) == \E msg \in net : IsNote(msg, m, t)

NotesOK ==
  /\ \A msg \in net : msg.type = "txNotification" =>
       msg.tx \in submitted /\ msg.to # Origin[msg.tx]
  /\ \A a, b \in net : /\ a.type = "txNotification" /\ b.type = "txNotification"
                       /\ a.to = b.to /\ a.tx = b.tx
                       => a = b

FullOK ==
  \A m \in Masters, t \in Txs :
    transactions[m][t].full => t \in submitted /\ ~HasNote(m, t)

\* (m, t) was queued and will not be again.
Spent(m, t) ==
  /\ t \in submitted
  /\ transactions[m][t].inBlock \/ (~transactions[m][t].full /\ ~HasNote(m, t))

EntriesSpent ==
  \A m \in Masters, t \in Txs : VerifiedEntries(m, t) # {} => Spent(m, t)

OnceInv == NotesOK /\ FullOK /\ EntriesSpent /\ QueuedOnce

\* No message of a step is a new notification.
NoNewNotes == \A msg \in net' : msg.type = "txNotification" => msg \in net

\* A step that queues nothing as verified and leaves a copy's full and inBlock
\* as they are, or erases it, keeps the invariant.
LEMMA PlainStep ==
  ASSUME CopiesOK, OnceInv, submitted' = submitted, NoNewNotes,
         \A m \in Masters, t \in Txs :
           \/ /\ transactions'[m][t].full = transactions[m][t].full
              /\ transactions'[m][t].inBlock = transactions[m][t].inBlock
           \/ ~transactions'[m][t].full /\ ~transactions'[m][t].inBlock,
         \A m \in Masters, t \in Txs : VerifiedEntries(m, t)' = VerifiedEntries(m, t)
  PROVE  OnceInv'
<1>1. NotesOK'
  BY DEF OnceInv, NotesOK, NoNewNotes
<1>2. \A m \in Masters, t \in Txs : HasNote(m, t)' => HasNote(m, t)
  BY DEF HasNote, IsNote, NoNewNotes
<1>3. FullOK'
  BY <1>2 DEF OnceInv, FullOK
<1>4. EntriesSpent'
  <2> SUFFICES ASSUME NEW m \in Masters, NEW t \in Txs, VerifiedEntries(m, t)' # {}
               PROVE  Spent(m, t)'
    BY DEF EntriesSpent
  <2>1. Spent(m, t)
    BY DEF OnceInv, EntriesSpent
  <2>2. transactions[m][t].inBlock => transactions[m][t].full
    BY DEF CopiesOK, CopyOK, CopyFlagsOK
  <2>3. transactions[m][t].full => ~HasNote(m, t)
    BY DEF OnceInv, FullOK
  <2>4. QED BY <1>2, <2>1, <2>2, <2>3 DEF Spent
<1>5. QueuedOnce'
  BY DEF OnceInv, QueuedOnce
<1>6. QED BY <1>1, <1>3, <1>4, <1>5 DEF OnceInv

\* Queueing a copy as verified adds one entry, for that master and transaction.
LEMMA QueuedEntries ==
  ASSUME TypeOK, NEW m \in Masters, NEW e \in Entries,
         queueOut' = [queueOut EXCEPT ![m] = Append(@, e)],
         NEW n \in Masters, NEW u \in Txs
  PROVE  VerifiedEntries(n, u)' =
           IF n = m /\ u = e.tx /\ e.by = "verified"
           THEN VerifiedEntries(n, u) \cup {Len(queueOut[n]) + 1}
           ELSE VerifiedEntries(n, u)
<1>1. queueOut[m] \in Seq(Entries) /\ queueOut[n] \in Seq(Entries)
  BY DEF TypeOK
<1>2. queueOut'[n] = IF n = m THEN Append(queueOut[n], e) ELSE queueOut[n]
  BY DEF TypeOK
<1>3. CASE n # m
  BY <1>2, <1>3 DEF VerifiedEntries
<1>4. CASE n = m
  <2>1. queueOut'[n] = Append(queueOut[n], e)
    BY <1>2, <1>4
  <2>2. Len(queueOut'[n]) = Len(queueOut[n]) + 1 /\ Len(queueOut[n]) \in Nat
    BY <1>1, <2>1
  <2>3. /\ \A i \in 1..Len(queueOut[n]) : queueOut'[n][i] = queueOut[n][i]
        /\ queueOut'[n][Len(queueOut[n]) + 1] = e
    BY <1>1, <2>1
  <2>4. QED BY <1>4, <2>2, <2>3 DEF VerifiedEntries
<1>5. QED BY <1>3, <1>4

\* A step that stores a copy and runs checkVerification on it keeps the
\* invariant when the copy is full only if it may be, has the inBlock flag of
\* the copy it replaces, and is not full if that copy was queued and erased.
LEMMA CheckStep ==
  ASSUME TypeOK, OnceInv, submitted' = submitted, NoNewNotes,
         NEW m \in Masters, NEW t \in Txs, NEW tx \in Transaction, NEW pending,
         checkVerification(m, t, tx, pending),
         tx.full => t \in submitted /\ ~HasNote(m, t)',
         tx.inBlock = transactions[m][t].inBlock,
         VerifiedEntries(m, t) # {} /\ ~tx.inBlock => ~tx.full
  PROVE  OnceInv'
<1> DEFINE new == checked(t, tx)
<1>1. NotesOK'
  BY DEF OnceInv, NotesOK, NoNewNotes
<1>2. \A n \in Masters, u \in Txs : HasNote(n, u)' => HasNote(n, u)
  BY DEF HasNote, IsNote, NoNewNotes
<1>3. /\ new.full = tx.full
      /\ new.inBlock = (tx.inBlock \/ addsToQueue(t, tx))
  BY DEF checked, Transaction
<1>4. \A n \in Masters, u \in Txs :
        transactions'[n][u] = IF n = m /\ u = t THEN new ELSE transactions[n][u]
  BY DEF checkVerification, TypeOK
<1>5. \A n \in Masters, u \in Txs :
        VerifiedEntries(n, u)' =
          IF n = m /\ u = t /\ addsToQueue(t, tx)
          THEN VerifiedEntries(n, u) \cup {Len(queueOut[n]) + 1}
          ELSE VerifiedEntries(n, u)
  <2>1. CASE addsToQueue(t, tx)
    <3> DEFINE e == Entry(t, tx, "verified")
    <3>1. queueOut' = [queueOut EXCEPT ![m] = Append(@, e)]
      BY <2>1 DEF checkVerification
    <3>2. e \in Entries /\ e.tx = t /\ e.by = "verified"
      BY EntryTypes DEF Entry
    <3> HIDE DEF e
    <3>3. TAKE n \in Masters, u \in Txs
    <3>4. VerifiedEntries(n, u)' =
            IF n = m /\ u = e.tx /\ e.by = "verified"
            THEN VerifiedEntries(n, u) \cup {Len(queueOut[n]) + 1}
            ELSE VerifiedEntries(n, u)
      BY <3>1, <3>2, QueuedEntries
    <3>5. QED BY <2>1, <3>2, <3>4
  <2>2. CASE ~addsToQueue(t, tx)
    BY <2>2 DEF checkVerification, VerifiedEntries
  <2>3. QED BY <2>1, <2>2
<1>6. addsToQueue(t, tx) => tx.full /\ ~tx.inBlock /\ VerifiedEntries(m, t) = {}
  BY DEF addsToQueue, isVerified
<1> HIDE DEF new
<1>7. FullOK'
  BY <1>2, <1>3, <1>4 DEF OnceInv, FullOK
<1>8. EntriesSpent'
  <2> SUFFICES ASSUME NEW n \in Masters, NEW u \in Txs, VerifiedEntries(n, u)' # {}
               PROVE  Spent(n, u)'
    BY DEF EntriesSpent
  <2>1. CASE n = m /\ u = t /\ addsToQueue(t, tx)
    BY <1>3, <1>4, <1>6, <2>1 DEF Spent
  <2>2. CASE ~(n = m /\ u = t /\ addsToQueue(t, tx))
    <3>1. VerifiedEntries(n, u) # {}
      BY <1>5, <2>2
    <3>2. Spent(n, u)
      BY <3>1 DEF OnceInv, EntriesSpent
    <3>3. CASE n = m /\ u = t
      BY <1>2, <1>3, <1>4, <3>1, <3>2, <3>3 DEF Spent
    <3>4. CASE ~(n = m /\ u = t)
      BY <1>2, <1>4, <3>2, <3>4 DEF Spent
    <3>5. QED BY <3>3, <3>4
  <2>3. QED BY <2>1, <2>2
<1>9. QueuedOnce'
  <2> SUFFICES ASSUME NEW n \in Masters, NEW u \in Txs,
                      NEW i \in VerifiedEntries(n, u)', NEW j \in VerifiedEntries(n, u)'
               PROVE  i = j
    BY DEF QueuedOnce
  <2>1. CASE n = m /\ u = t /\ addsToQueue(t, tx)
    BY <1>5, <1>6, <2>1
  <2>2. CASE ~(n = m /\ u = t /\ addsToQueue(t, tx))
    BY <1>5, <2>2 DEF OnceInv, QueuedOnce
  <2>3. QED BY <2>1, <2>2
<1>10. QED BY <1>1, <1>7, <1>8, <1>9 DEF OnceInv

\* Every step keeps the invariant.
LEMMA OnceStep == TypeOK /\ CopiesOK /\ OnceInv /\ [Next]_vars => OnceInv'
<1> SUFFICES ASSUME TypeOK, CopiesOK, OnceInv, [Next]_vars PROVE OnceInv'
  OBVIOUS
<1>a. ASSUME submitted' = submitted, NoNewNotes, queueOut' = queueOut,
             transactions' = transactions
      PROVE  OnceInv'
  <2>1. \A m \in Masters, t \in Txs : VerifiedEntries(m, t)' = VerifiedEntries(m, t)
    BY <1>a DEF VerifiedEntries
  <2>2. QED BY <1>a, <2>1, PlainStep
<1>1. ASSUME NEW t \in Txs, processCodePacket(t) PROVE OnceInv'
  <2> DEFINE m == Origin[t]
  <2>1. t \notin submitted /\ submitted' = submitted \cup {t} /\ queueOut' = queueOut
    BY <1>1 DEF processCodePacket
  <2>2. m \in Masters
    BY MastersAssumption
  <2>3. \A n \in Masters : VerifiedEntries(n, t) = {} /\ ~HasNote(n, t)
    BY <2>1 DEF OnceInv, EntriesSpent, Spent, NotesOK, HasNote, IsNote
  <2>4. \A n \in Masters, u \in Txs : VerifiedEntries(n, u)' = VerifiedEntries(n, u)
    BY <2>1 DEF VerifiedEntries
  <2>5. QueuedOnce'
    BY <2>4 DEF OnceInv, QueuedOnce
  <2>6. CASE m \notin M21
    <3>1. transactions' = transactions /\ net' = net
      BY <1>1, <2>6 DEF processCodePacket
    <3>2. NotesOK'
      BY <2>1, <3>1 DEF OnceInv, NotesOK
    <3>3. FullOK'
      BY <2>1, <3>1 DEF OnceInv, FullOK, HasNote
    <3>4. EntriesSpent'
      BY <2>1, <2>4, <3>1 DEF OnceInv, EntriesSpent, Spent, HasNote
    <3>5. QED BY <2>5, <3>2, <3>3, <3>4 DEF OnceInv
  <2>7. CASE m \in M21
    <3> DEFINE j == toJson(OriginTransaction(now))
    <3>1. /\ transactions' = [transactions EXCEPT ![m][t] = OriginTransaction(now)]
          /\ net' = net \cup txNotification(t, j, Others(m))
      BY <1>1, <2>7 DEF processCodePacket
    <3> HIDE DEF j
    <3>2. \A n \in Masters, u \in Txs :
            transactions'[n][u] = IF n = m /\ u = t THEN OriginTransaction(now)
                                                    ELSE transactions[n][u]
      BY <3>1 DEF TypeOK
    <3>3. \A msg \in net' : \/ msg \in net
                            \/ /\ msg.type = "txNotification" /\ msg.tx = t
                               /\ msg.to # m
                               /\ msg = [type |-> "txNotification", to |-> msg.to,
                                         tx |-> t, json |-> j]
      BY <3>1 DEF txNotification, Others
    <3>4. \A msg \in net : msg.type = "txNotification" => msg.tx # t
      BY <2>1 DEF OnceInv, NotesOK
    <3>5. NotesOK'
      BY <2>1, <3>3, <3>4 DEF OnceInv, NotesOK
    <3>6. \A n \in Masters, u \in Txs : HasNote(n, u)' => HasNote(n, u) \/ (u = t /\ n # m)
      BY <3>3 DEF HasNote, IsNote
    <3>7. \A n \in Masters : ~transactions[n][t].full
      BY <2>1 DEF OnceInv, FullOK
    <3>8. FullOK'
      BY <2>1, <2>3, <3>2, <3>6, <3>7 DEF OnceInv, FullOK
    <3>9. EntriesSpent'
      BY <2>1, <2>3, <2>4, <3>2, <3>6 DEF OnceInv, EntriesSpent, Spent
    <3>10. QED BY <2>5, <3>5, <3>8, <3>9 DEF OnceInv
  <2>8. QED BY <2>6, <2>7
<1>2. ASSUME NEW m \in Masters, NEW t \in Txs, deliverToComputeNode(m, t) PROVE OnceInv'
  <2> DEFINE tx == transactions[m][t]
  <2>1. tx \in Transaction
    BY DEF TypeOK
  <2>2. PICK s \in sendToVerifier(m, t, tx) :
          /\ transactions' = [transactions EXCEPT ![m][t] = s.tx]
          /\ net' = net \cup s.msgs
    BY <1>2 DEF deliverToComputeNode
  <2> HIDE DEF tx
  <2>3. /\ s.tx = tx \/ \E id \in Verifiers : s.tx = WithComputeNode(tx, id)
        /\ \A msg \in s.msgs : msg.type = "codeDelivery"
    BY <2>1, <2>2, SendToVerifier
  <2>4. s.tx.full = tx.full /\ s.tx.inBlock = tx.inBlock
    BY <2>1, <2>3 DEF WithComputeNode, Transaction
  <2>5. \A n \in Masters, u \in Txs :
          transactions'[n][u] = IF n = m /\ u = t THEN s.tx ELSE transactions[n][u]
    BY <2>2 DEF TypeOK
  <2>6. \A n \in Masters, u \in Txs :
          /\ transactions'[n][u].full = transactions[n][u].full
          /\ transactions'[n][u].inBlock = transactions[n][u].inBlock
    BY <2>4, <2>5 DEF tx
  <2>7. NoNewNotes
    BY <2>2, <2>3 DEF NoNewNotes
  <2>8. submitted' = submitted /\ queueOut' = queueOut
    BY <1>2 DEF deliverToComputeNode
  <2>9. \A n \in Masters, u \in Txs : VerifiedEntries(n, u)' = VerifiedEntries(n, u)
    BY <2>8 DEF VerifiedEntries
  <2>10. QED BY <2>6, <2>7, <2>8, <2>9, PlainStep
<1>3. ASSUME NEW m \in Masters, NEW msg \in net, processIncomingTransaction(m, msg)
      PROVE  OnceInv'
  <2> DEFINE t == msg.tx
             old == transactions[m][t]
             tx == fromJson(old, msg.json)
  <2>1. msg.tx \in Txs /\ msg.json \in Json /\ IsNote(msg, m, msg.tx)
    BY <1>3, MessageFields DEF TypeOK, processIncomingTransaction, IsNote
  <2>2. old \in Transaction
    BY <2>1 DEF TypeOK
  <2>3. tx \in Transaction /\ tx.inBlock = old.inBlock
    BY <2>1, <2>2, JsonTypes DEF fromJson, Transaction
  <2>4. PICK s \in sendToVerifier(m, t, tx) :
          checkVerification(m, t, s.tx, (net \ {msg}) \cup s.msgs)
    BY <1>3 DEF processIncomingTransaction
  <2> HIDE DEF tx
  <2>5. /\ s.tx \in Transaction
        /\ s.tx = tx \/ \E id \in Verifiers : s.tx = WithComputeNode(tx, id)
        /\ \A d \in s.msgs : d.type = "codeDelivery"
    BY <2>1, <2>3, <2>4, SendToVerifier
  <2>6. s.tx.inBlock = old.inBlock
    BY <2>3, <2>5 DEF WithComputeNode, Transaction
  <2>7. \A d \in net' : d.type = "txNotification" => d \in net /\ d # msg
    BY <2>4, <2>5 DEF checkVerification, canCommit
  <2>8. NoNewNotes
    BY <2>7 DEF NoNewNotes
  <2>9. t \in submitted /\ ~HasNote(m, t)'
    BY <2>1, <2>7 DEF OnceInv, NotesOK, HasNote, IsNote
  <2>10. VerifiedEntries(m, t) # {} => old.inBlock
    BY <2>1 DEF OnceInv, EntriesSpent, Spent, HasNote
  <2>11. submitted' = submitted
    BY <1>3 DEF processIncomingTransaction
  <2> HIDE DEF t, old
  <2>12. t \in Txs /\ old = transactions[m][t]
    BY <2>1 DEF t, old
  <2>13. QED BY <2>4, <2>5, <2>6, <2>8, <2>9, <2>10, <2>11, <2>12, CheckStep
<1>4. ASSUME NEW m \in Masters, NEW msg \in net, verifyTransaction(m, msg) PROVE OnceInv'
  <2> DEFINE old == transactions[m][msg.tx]
             found == IF old.exists THEN old ELSE PartialTransaction(msg.hash, now)
             filled == IF msg.output = EmptyString THEN found
                       ELSE setOutput(found, msg.output)
             tx == verifyHash(filled, msg.hash)
  <2>1. /\ msg.tx \in Txs /\ msg.hash \in Results /\ msg.output \in Strings
        /\ checkVerification(m, msg.tx, tx, net \ {msg})
    BY <1>4, MessageFields DEF TypeOK, verifyTransaction
  <2>2. old \in Transaction /\ now \in Nat /\ (~old.exists => old = NoTransaction)
    BY <2>1 DEF TypeOK, CopiesOK, CopyOK, CopyFlagsOK
  <2>3. /\ PartialTransaction(msg.hash, now) \in Transaction
        /\ PartialTransaction(msg.hash, now).full = NoTransaction.full
        /\ PartialTransaction(msg.hash, now).inBlock = NoTransaction.inBlock
    <3>1. PartialTransaction(msg.hash, now) \in Transaction
      BY <2>1, <2>2, ConstructorTypes DEF Strings
    <3>2. QED BY <3>1 DEF PartialTransaction, NoTransaction
  <2>4. found \in Transaction /\ found.full = old.full /\ found.inBlock = old.inBlock
    BY <2>2, <2>3
  <2> HIDE DEF found
  <2>5. setOutput(found, msg.output) \in Transaction
    BY <2>1, <2>4 DEF setOutput, Transaction
  <2>6. filled \in Transaction /\ filled.full = old.full /\ filled.inBlock = old.inBlock
    BY <2>4, <2>5 DEF setOutput, Transaction
  <2> HIDE DEF filled
  <2>7. tx \in Transaction
    BY <2>1, <2>6, VerifyHashType
  <2>8. tx.full = old.full /\ tx.inBlock = old.inBlock
    BY <2>6 DEF verifyHash, Transaction
  <2> HIDE DEF tx
  <2>9. NoNewNotes
    BY <2>1 DEF NoNewNotes, checkVerification, canCommit
  <2>10. HasNote(m, msg.tx)' => HasNote(m, msg.tx)
    BY <2>9 DEF HasNote, IsNote, NoNewNotes
  <2>11. tx.full => msg.tx \in submitted /\ ~HasNote(m, msg.tx)'
    BY <2>1, <2>8, <2>10 DEF OnceInv, FullOK
  <2>12. VerifiedEntries(m, msg.tx) # {} /\ ~tx.inBlock => ~tx.full
    BY <2>1, <2>8 DEF OnceInv, EntriesSpent, Spent
  <2>13. submitted' = submitted
    BY <1>4 DEF verifyTransaction
  <2>14. QED BY <2>1, <2>7, <2>8, <2>9, <2>11, <2>12, <2>13, CheckStep
<1>5. ASSUME NEW m \in Masters, NEW msg \in net, exceptionFromVerifier(m, msg)
      PROVE  OnceInv'
  <2> DEFINE old == transactions[m][msg.tx]
             tx == [setOutput(old, EmptyString) EXCEPT !.exception = TRUE]
             e == Entry(msg.tx, tx, "exception")
  <2>1. msg.tx \in Txs
    BY <1>5, MessageFields DEF TypeOK, exceptionFromVerifier
  <2>2. old \in Transaction
    BY <2>1 DEF TypeOK
  <2>3. tx \in Transaction /\ tx.full = old.full /\ tx.inBlock = old.inBlock
    <3>1. setOutput(old, EmptyString) \in Transaction
      BY <2>2 DEF setOutput, Transaction, Strings
    <3>2. QED BY <2>2, <3>1 DEF setOutput, Transaction
  <2>4. e \in Entries /\ e.by = "exception"
    BY <2>1, <2>3, EntryTypes DEF Entry
  <2>5. queueOut' = queueOut \/ queueOut' = [queueOut EXCEPT ![m] = Append(@, e)]
    BY <1>5 DEF exceptionFromVerifier
  <2>6. \/ transactions' = transactions
        \/ transactions' = [transactions EXCEPT ![m][msg.tx] = tx]
        \/ transactions' = [transactions EXCEPT ![m][msg.tx] = NoTransaction]
    BY <1>5 DEF exceptionFromVerifier
  <2> HIDE DEF e
  <2>7. NoNewNotes
    BY <1>5 DEF exceptionFromVerifier, NoNewNotes, exceptionTx
  <2> HIDE DEF tx
  <2>8. \A n \in Masters, u \in Txs : VerifiedEntries(n, u)' = VerifiedEntries(n, u)
    <3>1. CASE queueOut' = queueOut
      BY <3>1 DEF VerifiedEntries
    <3>2. CASE queueOut' = [queueOut EXCEPT ![m] = Append(@, e)]
      BY <2>4, <3>2, QueuedEntries
    <3>3. QED BY <2>5, <3>1, <3>2
  <2>9. \A n \in Masters, u \in Txs :
          transactions'[n][u] \in {transactions[n][u], NoTransaction}
            \/ (n = m /\ u = msg.tx /\ transactions'[n][u] = tx)
    BY <2>1, <2>6 DEF TypeOK
  <2>10. \A n \in Masters, u \in Txs :
           \/ /\ transactions'[n][u].full = transactions[n][u].full
              /\ transactions'[n][u].inBlock = transactions[n][u].inBlock
           \/ ~transactions'[n][u].full /\ ~transactions'[n][u].inBlock
    BY <2>3, <2>9 DEF NoTransaction
  <2>11. submitted' = submitted
    BY <1>5 DEF exceptionFromVerifier
  <2>12. QED BY <2>7, <2>8, <2>10, <2>11, PlainStep
<1>6. ASSUME NEW m \in Masters, NEW msg \in net, exceptionFromMaster(m, msg)
      PROVE  OnceInv'
  <2> DEFINE e == Entry(msg.tx, fromJson(NoTransaction, msg.json), "exception")
  <2>1. msg.tx \in Txs /\ msg.json \in Json
    BY <1>6, MessageFields DEF TypeOK, exceptionFromMaster
  <2>2. e \in Entries /\ e.by = "exception"
    BY <2>1, NoTransactionType, JsonTypes, EntryTypes DEF Entry
  <2>3. /\ queueOut' = queueOut \/ queueOut' = [queueOut EXCEPT ![m] = Append(@, e)]
        /\ submitted' = submitted /\ transactions' = transactions /\ net' = net \ {msg}
    BY <1>6 DEF exceptionFromMaster
  <2> HIDE DEF e
  <2>4. \A n \in Masters, u \in Txs : VerifiedEntries(n, u)' = VerifiedEntries(n, u)
    <3>1. CASE queueOut' = queueOut
      BY <3>1 DEF VerifiedEntries
    <3>2. CASE queueOut' = [queueOut EXCEPT ![m] = Append(@, e)]
      BY <2>2, <3>2, QueuedEntries
    <3>3. QED BY <2>3, <3>1, <3>2
  <2>5. QED BY <2>3, <2>4, PlainStep DEF NoNewNotes
<1>7. ASSUME NEW m \in Masters, cleanupTransactionsMap(m) PROVE OnceInv'
  <2>1. /\ submitted' = submitted /\ net' = net /\ queueOut' = queueOut
    BY <1>7 DEF cleanupTransactionsMap
  <2>2. \A n \in Masters, u \in Txs :
          transactions'[n][u] \in {transactions[n][u], NoTransaction}
    BY <1>7 DEF cleanupTransactionsMap, TypeOK
  <2>3. ~NoTransaction.full /\ ~NoTransaction.inBlock
    BY DEF NoTransaction
  <2>4. \A n \in Masters, u \in Txs : VerifiedEntries(n, u)' = VerifiedEntries(n, u)
    BY <2>1 DEF VerifiedEntries
  <2>5. QED BY <2>1, <2>2, <2>3, <2>4, PlainStep DEF NoNewNotes
<1>8. ASSUME NEW msg \in net, executeJsCode(msg) PROVE OnceInv'
  <2>1. PICK r \in Results : net' = (net \ {msg}) \cup verificationResult(msg, r, M21)
    BY <1>8 DEF executeJsCode
  <2>2. NoNewNotes
    BY <2>1 DEF NoNewNotes, verificationResult
  <2>3. QED BY <1>8, <2>2, <1>a DEF executeJsCode
<1>9. ASSUME NEW msg \in net, executeJsCodeThrows(msg) \/ loseMessage(msg) PROVE OnceInv'
  <2>1. NoNewNotes
    BY <1>9 DEF NoNewNotes, executeJsCodeThrows, loseMessage
  <2>2. QED BY <1>9, <2>1, <1>a DEF executeJsCodeThrows, loseMessage
<1>10. ASSUME NEW m \in Masters, NEW n \in Verifiers \cup {StorageNode}, addNode(m, n)
       PROVE  OnceInv'
  BY <1>10, <1>a DEF addNode, NoNewNotes
<1>11. ASSUME NEW t \in Txs, onClose(t) \/ onOpen(t) PROVE OnceInv'
  BY <1>11, <1>a DEF onClose, onOpen, NoNewNotes
<1>12. CASE tick \/ UNCHANGED vars
  BY <1>12, <1>a DEF tick, vars, NoNewNotes
<1>13. QED
  BY <1>1, <1>2, <1>3, <1>4, <1>5, <1>6, <1>7, <1>8, <1>9, <1>10, <1>11, <1>12
     DEF Next, Handle

\* The invariants hold initially.
LEMMA InitialInvariants == Init => TypeOK /\ CopiesOK /\ OnceInv
<1>1. Init => TypeOK
  BY NoTransactionType, NodesAssumption DEF Init, TypeOK
<1>2. Init => CopiesOK
  BY NewCopies DEF Init, CopiesOK
<1>3. ASSUME Init PROVE OnceInv
  <2>1. \A m \in Masters, t \in Txs : VerifiedEntries(m, t) = {}
    BY <1>3 DEF Init, VerifiedEntries
  <2>2. \A m \in Masters, t \in Txs : ~transactions[m][t].full
    BY <1>3 DEF Init, NoTransaction
  <2>3. QED
    BY <1>3, <2>1, <2>2
       DEF Init, OnceInv, NotesOK, FullOK, EntriesSpent, QueuedOnce
<1>4. QED BY <1>1, <1>2, <1>3

\* In every behaviour, with any loss, exception, disconnection and cleanup, a
\* master adds a transaction to its block ledger as verified at most once.
THEOREM QueuedOnceCorrect == Spec => []QueuedOnce
<1>1. Init => TypeOK /\ CopiesOK /\ OnceInv
  BY InitialInvariants
<1>2. TypeOK /\ CopiesOK /\ OnceInv /\ [Next]_vars => (TypeOK /\ CopiesOK /\ OnceInv)'
  BY TypeOKStep, CopiesStep, OnceStep
<1>3. OnceInv => QueuedOnce
  BY DEF OnceInv
<1>4. QED BY <1>1, <1>2, <1>3, PTL DEF Spec

-----------------------------------------------------------------------------
(* One reply per client, and a commit that reaches a holder.  Both rest on  *)
(* where the one execution of a transaction that counts is, the one of the  *)
(* Compute Node its origin chose: about to be delivered, in a codeDelivery, *)
(* in the exception it threw, or in the results with its output.            *)

OriginCopy(t) == transactions[Origin[t]][t]

IsDelivery(msg, t) == msg.type = "codeDelivery" /\ msg.tx = t /\ msg.from = Origin[t]

IsThrow(msg, t) == msg.type = "exception" /\ msg.tx = t /\ msg.to = Origin[t]

IsOutput(msg, t) ==
  msg.type = "verificationResult" /\ msg.tx = t /\ msg.output # EmptyString

\* The execution has neither failed nor sent its output yet, as far as the
\* origin knows.
Open(t) ==
  \/ <<Origin[t], t>> \in delivering
  \/ \E msg \in net : IsDelivery(msg, t) \/ IsThrow(msg, t)

\* The execution is in one place at a time, and only the origin's delivery asks
\* for the output.
OnePlace(t) ==
  /\ <<Origin[t], t>> \in delivering =>
       /\ t \in submitted
       /\ \A b \in net : ~IsDelivery(b, t) /\ ~IsThrow(b, t) /\ ~IsOutput(b, t)
  /\ \A a, b \in net : IsDelivery(a, t) =>
       /\ t \in submitted /\ ~IsThrow(b, t) /\ ~IsOutput(b, t)
       /\ IsDelivery(b, t) => a = b
  /\ \A a, b \in net : IsThrow(a, t) => t \in submitted /\ ~IsOutput(b, t)
  /\ \A a \in net : IsOutput(a, t) => t \in submitted
  /\ \A a \in net : a.type = "codeDelivery" /\ a.tx = t /\ a.com => IsDelivery(a, t)

\* A reply was the last one: the copy of a transaction that was answered is
\* gone, or it is marked and no exception can come any more.
AnsweredOK(t) ==
  /\ OriginCopy(t).computeNode => t \in submitted
  /\ OriginCopy(t).computeNode /\ OriginCopy(t).receivedOutput => ~Open(t)
  /\ replies[t] # <<>> =>
       /\ Len(replies[t]) = 1 /\ t \in submitted
       /\ OriginCopy(t).computeNode => OriginCopy(t).sentToClient /\ ~Open(t)

\* The Compute Node the origin remembers is the one that executes, and once
\* the output is on its way it holds the state changes.
HolderOK(t) ==
  /\ \A a \in net : IsDelivery(a, t) /\ OriginCopy(t).computeNode =>
       OriginCopy(t).computeNodeId = a.to
  /\ \A a \in net : IsOutput(a, t) /\ OriginCopy(t).computeNode =>
       <<OriginCopy(t).computeNodeId, t>> \in trs

\* What is true as long as no execution has thrown.
UnthrownOK(t) ==
  thrown = 0 =>
    /\ \A a \in net : a.type = "exception" => a.tx # t
    /\ OriginCopy(t).computeNode /\ OriginCopy(t).receivedOutput =>
         <<OriginCopy(t).computeNodeId, t>> \in trs /\ OriginCopy(t).output # EmptyString
    /\ \A a \in net : a.type = "canCommit" /\ a.tx = t => <<a.to, t>> \in trs
    /\ \A i \in 1..Len(replies[t]) :
         replies[t][i].kind = "result" => replies[t][i].data # EmptyString

ExecutionOK(t) == OnePlace(t) /\ AnsweredOK(t) /\ HolderOK(t) /\ UnthrownOK(t)

ExecutionInv == \A t \in Txs : ExecutionOK(t)

\* A message that says something about the execution of t.
Marked(msg, t) ==
  \/ IsDelivery(msg, t) \/ IsThrow(msg, t) \/ IsOutput(msg, t)
  \/ msg.type = "codeDelivery" /\ msg.tx = t /\ msg.com
  \/ msg.type = "canCommit" /\ msg.tx = t

\* The origin's copy of t is erased or keeps the members the invariant is about.
CopyIsKept(t) ==
  OriginCopy(t)'.computeNode =>
    /\ OriginCopy(t).computeNode
    /\ OriginCopy(t)'.receivedOutput = OriginCopy(t).receivedOutput
    /\ OriginCopy(t)'.output = OriginCopy(t).output
    /\ OriginCopy(t)'.computeNodeId = OriginCopy(t).computeNodeId
    /\ OriginCopy(t)'.sentToClient = OriginCopy(t).sentToClient

\* A step that leaves the execution of t where it is, or loses it.
Quiet(t) ==
  /\ t \in submitted' <=> t \in submitted
  /\ replies'[t] = replies[t] /\ trs \subseteq trs' /\ (thrown' = 0 => thrown = 0)
  /\ <<Origin[t], t>> \in delivering' => <<Origin[t], t>> \in delivering
  /\ \A msg \in net' : Marked(msg, t) => msg \in net
  /\ thrown' = 0 => \A msg \in net' : msg.type = "exception" /\ msg.tx = t => msg \in net
  /\ CopyIsKept(t)

\* Such a step keeps the invariant.
LEMMA QuietStep ==
  ASSUME NEW t \in Txs, ExecutionOK(t), Quiet(t)
  PROVE  ExecutionOK(t)'
<1>1. \A msg \in net' :
        /\ IsDelivery(msg, t) \/ IsThrow(msg, t) \/ IsOutput(msg, t) => msg \in net
        /\ msg.type = "codeDelivery" /\ msg.tx = t /\ msg.com => msg \in net
        /\ msg.type = "canCommit" /\ msg.tx = t => msg \in net
  BY DEF Quiet, Marked
<1>2. OnePlace(t)'
  BY <1>1 DEF ExecutionOK, OnePlace, Quiet, IsDelivery, IsThrow, IsOutput
<1>3. Open(t)' => Open(t)
  BY <1>1 DEF Open, Quiet, IsDelivery, IsThrow
<1>4. AnsweredOK(t)'
  BY <1>3 DEF ExecutionOK, AnsweredOK, Quiet, CopyIsKept
<1>5. HolderOK(t)'
  BY <1>1 DEF ExecutionOK, HolderOK, Quiet, CopyIsKept, IsDelivery, IsOutput
<1>6. UnthrownOK(t)'
  BY <1>1 DEF ExecutionOK, UnthrownOK, Quiet, CopyIsKept
<1>7. QED BY <1>2, <1>4, <1>5, <1>6 DEF ExecutionOK

\* A step that touches none of the variables the invariant is about.
LEMMA IdleStep ==
  ASSUME ExecutionInv, submitted' = submitted, replies' = replies, trs' = trs,
         thrown' = thrown, delivering' = delivering, net' \subseteq net,
         transactions' = transactions
  PROVE  ExecutionInv'
<1> SUFFICES ASSUME NEW u \in Txs PROVE ExecutionOK(u)'
  BY DEF ExecutionInv
<1>1. Quiet(u)
  BY DEF Quiet, CopyIsKept, OriginCopy
<1>2. QED BY <1>1, QuietStep DEF ExecutionInv

\* processCodePacket starts the one execution, or replies with an error.
LEMMA RequestStep ==
  ASSUME TypeOK, CopiesOK, ExecutionInv, NEW t \in Txs, processCodePacket(t)
  PROVE  ExecutionInv'
<1> SUFFICES ASSUME NEW u \in Txs PROVE ExecutionOK(u)'
  BY DEF ExecutionInv
<1> DEFINE m == Origin[t]
           j == toJson(OriginTransaction(now))
<1>1. /\ t \notin submitted /\ submitted' = submitted \cup {t}
      /\ trs' = trs /\ thrown' = thrown
  BY DEF processCodePacket
<1>2. m \in Masters /\ Origin[u] \in Masters
  BY MastersAssumption
<1>3. ExecutionOK(t) /\ ExecutionOK(u)
  BY DEF ExecutionInv
<1>4. \/ /\ transactions' = transactions /\ net' = net /\ delivering' = delivering
         /\ replies' = [replies EXCEPT ![t] = Append(@, Reply("error", EmptyString))]
      \/ /\ transactions' = [transactions EXCEPT ![m][t] = OriginTransaction(now)]
         /\ net' = net \cup txNotification(t, j, Others(m))
         /\ delivering' = delivering \cup {<<m, t>>} /\ replies' = replies
  BY DEF processCodePacket
<1>5. \A msg \in net' : msg \in net \/ msg.type = "txNotification"
  BY <1>4 DEF txNotification
<1> HIDE DEF m, j
<1>6. \A msg \in net' : Marked(msg, u) \/ msg.type = "exception" => msg \in net
  BY <1>5 DEF Marked, IsDelivery, IsThrow, IsOutput
<1>7. CASE u # t
  <2>1. OriginCopy(u)' = OriginCopy(u)
    <3>1. CASE transactions' = transactions
      BY <3>1 DEF OriginCopy
    <3>2. CASE transactions' = [transactions EXCEPT ![m][t] = OriginTransaction(now)]
      BY <1>2, <1>7, <3>2 DEF OriginCopy, TypeOK
    <3>3. QED BY <1>4, <3>1, <3>2
  <2>2. replies'[u] = replies[u]
    BY <1>4, <1>7 DEF TypeOK
  <2>3. <<Origin[u], u>> \in delivering' => <<Origin[u], u>> \in delivering
    BY <1>4, <1>7 DEF m
  <2>4. Quiet(u)
    BY <1>1, <1>6, <1>7, <2>1, <2>2, <2>3 DEF Quiet, CopyIsKept
  <2>5. QED BY <1>3, <2>4, QuietStep
<1>8. CASE u = t
  <2>1. \A msg \in net : ~IsDelivery(msg, t) /\ ~IsThrow(msg, t) /\ ~IsOutput(msg, t)
    BY <1>1, <1>3 DEF ExecutionOK, OnePlace
  <2>2. /\ replies[t] = <<>> /\ ~OriginCopy(t).computeNode
        /\ <<Origin[t], t>> \notin delivering
    BY <1>1, <1>3 DEF ExecutionOK, AnsweredOK, OnePlace
  <2>3. \A msg \in net' : ~IsDelivery(msg, t) /\ ~IsThrow(msg, t) /\ ~IsOutput(msg, t)
    BY <1>5, <2>1 DEF IsDelivery, IsThrow, IsOutput
  <2>4. \A msg \in net' : msg.type \in {"codeDelivery", "canCommit", "exception"} => msg \in net
    BY <1>5
  <2>6. OnePlace(t)'
    BY <1>1, <1>3, <2>3, <2>4 DEF ExecutionOK, OnePlace, IsDelivery, IsThrow, IsOutput
  <2>7. HolderOK(t)'
    BY <2>3 DEF HolderOK, IsDelivery, IsOutput
  <2>8. CASE replies' = replies /\ transactions' = [transactions EXCEPT ![m][t] = OriginTransaction(now)]
    <3>1. OriginCopy(t)' = OriginTransaction(now)
      BY <1>2, <2>8 DEF OriginCopy, TypeOK, m
    <3>2. ~OriginCopy(t)'.receivedOutput
      BY <3>1 DEF OriginTransaction, NoTransaction
    <3>3. AnsweredOK(t)'
      BY <1>1, <2>2, <2>8, <3>2 DEF AnsweredOK
    <3>4. UnthrownOK(t)'
      BY <1>1, <1>3, <2>2, <2>4, <2>8, <3>2 DEF ExecutionOK, UnthrownOK
    <3>5. QED BY <1>8, <2>6, <2>7, <3>3, <3>4 DEF ExecutionOK
  <2>9. CASE /\ transactions' = transactions
             /\ replies' = [replies EXCEPT ![t] = Append(@, Reply("error", EmptyString))]
    <3>1. OriginCopy(t)' = OriginCopy(t)
      BY <2>9 DEF OriginCopy
    <3>2. replies'[t] = <<Reply("error", EmptyString)>>
      BY <2>2, <2>9 DEF TypeOK
    <3>3. /\ replies'[t] # <<>> /\ Len(replies'[t]) = 1
          /\ \A i \in 1..Len(replies'[t]) : replies'[t][i].kind = "error"
      BY <3>2 DEF Reply
    <3>4. AnsweredOK(t)'
      BY <1>1, <2>2, <3>1, <3>3 DEF AnsweredOK
    <3>5. UnthrownOK(t)'
      BY <1>1, <1>3, <2>2, <2>4, <3>1, <3>3 DEF ExecutionOK, UnthrownOK
    <3>6. QED BY <1>8, <2>6, <2>7, <3>4, <3>5 DEF ExecutionOK
  <2>10. QED BY <1>4, <2>8, <2>9
<1>9. QED BY <1>7, <1>8

\* sendToVerifier sends at most one codeDelivery, to the verifier it remembers
\* in the origin's copy, and asks for the output when the copy is the origin's.
LEMMA Delivery ==
  ASSUME TypeOK, NEW m \in Masters, NEW t \in Txs, NEW tx \in Transaction,
         NEW s \in sendToVerifier(m, t, tx)
  PROVE  /\ s.tx.computeNode = tx.computeNode /\ s.tx.receivedOutput = tx.receivedOutput
         /\ s.tx.output = tx.output /\ s.tx.sentToClient = tx.sentToClient
         /\ \A a \in s.msgs : /\ a.type = "codeDelivery" /\ a.tx = t /\ a.from = m
                              /\ a.com = tx.computeNode
                              /\ tx.computeNode => s.tx.computeNodeId = a.to
         /\ \A a, b \in s.msgs : a = b
<1>1. CASE KnownVerifiers(m) = {}
  BY <1>1 DEF sendToVerifier
<1>2. CASE KnownVerifiers(m) # {}
  <2>1. PICK v \in KnownVerifiers(m) :
          s = [tx |-> IF tx.computeNode THEN [tx EXCEPT !.computeNodeId = v] ELSE tx,
               msgs |-> IF HasStateChangeStorageNode(m)
                        THEN {codeDelivery(m, t, v, tx.computeNode)} ELSE {}]
    BY <1>2 DEF sendToVerifier
  <2>2. \A a \in s.msgs : a = codeDelivery(m, t, v, tx.computeNode)
    BY <2>1
  <2>3. s.tx = IF tx.computeNode THEN [tx EXCEPT !.computeNodeId = v] ELSE tx
    BY <2>1
  <2>4. /\ s.tx.computeNode = tx.computeNode /\ s.tx.receivedOutput = tx.receivedOutput
        /\ s.tx.output = tx.output /\ s.tx.sentToClient = tx.sentToClient
        /\ tx.computeNode => s.tx.computeNodeId = v
    BY <2>3 DEF Transaction
  <2>5. QED BY <2>2, <2>4 DEF codeDelivery
<1>3. QED BY <1>1, <1>2

\* deliverToComputeNode moves the execution into a codeDelivery.
LEMMA DeliverStep ==
  ASSUME TypeOK, CopiesOK, ExecutionInv,
         NEW m \in Masters, NEW t \in Txs, deliverToComputeNode(m, t)
  PROVE  ExecutionInv'
<1> SUFFICES ASSUME NEW u \in Txs PROVE ExecutionOK(u)'
  BY DEF ExecutionInv
<1> DEFINE tx == transactions[m][t]
<1>1. /\ <<m, t>> \in delivering /\ delivering' = delivering \ {<<m, t>>}
      /\ submitted' = submitted /\ trs' = trs /\ thrown' = thrown /\ replies' = replies
  BY DEF deliverToComputeNode
<1>2. tx \in Transaction /\ Origin[u] \in Masters /\ (tx.computeNode => m = Origin[t])
  BY MastersAssumption DEF TypeOK, CopiesOK, CopyOK, CopyFlagsOK
<1>3. PICK s \in sendToVerifier(m, t, tx) :
        /\ transactions' = [transactions EXCEPT ![m][t] = s.tx]
        /\ net' = net \cup s.msgs
  BY DEF deliverToComputeNode
<1>4. /\ s.tx.computeNode = tx.computeNode /\ s.tx.receivedOutput = tx.receivedOutput
      /\ s.tx.output = tx.output /\ s.tx.sentToClient = tx.sentToClient
      /\ \A a \in s.msgs : /\ a.type = "codeDelivery" /\ a.tx = t /\ a.from = m
                           /\ a.com = tx.computeNode
                           /\ tx.computeNode => s.tx.computeNodeId = a.to
      /\ \A a, b \in s.msgs : a = b
  BY <1>2, <1>3, Delivery
<1>5. \A n \in Masters, w \in Txs :
        transactions'[n][w] = IF n = m /\ w = t THEN s.tx ELSE transactions[n][w]
  BY <1>3 DEF TypeOK
<1>6. ExecutionOK(u)
  BY DEF ExecutionInv
<1>7. \A msg \in net' : msg \in net \/ msg \in s.msgs
  BY <1>3
<1> HIDE DEF tx
<1>8. CASE u # t \/ m # Origin[t]
  <2>1. OriginCopy(u)' = OriginCopy(u)
    BY <1>2, <1>5, <1>8 DEF OriginCopy
  <2>2. \A msg \in net' : Marked(msg, u) \/ msg.type = "exception" => msg \in net
    BY <1>2, <1>4, <1>7, <1>8 DEF Marked, IsDelivery, IsThrow, IsOutput
  <2>3. Quiet(u)
    BY <1>1, <2>1, <2>2 DEF Quiet, CopyIsKept
  <2>4. QED BY <1>6, <2>3, QuietStep
<1>9. CASE u = t /\ m = Origin[t]
  <2>1. /\ \A b \in net : ~IsDelivery(b, t) /\ ~IsThrow(b, t) /\ ~IsOutput(b, t)
        /\ t \in submitted /\ <<Origin[t], t>> \notin delivering'
    BY <1>1, <1>6, <1>9 DEF ExecutionOK, OnePlace
  <2>2. OriginCopy(t)' = s.tx /\ OriginCopy(t) = tx
    BY <1>5, <1>9 DEF OriginCopy, tx
  <2>3. Open(t)
    BY <1>1, <1>9 DEF Open
  <2>4. ~(tx.computeNode /\ tx.receivedOutput) /\ (replies[t] # <<>> => ~tx.computeNode)
    BY <1>6, <1>9, <2>2, <2>3 DEF ExecutionOK, AnsweredOK
  <2>5. \A a \in net' : ~IsThrow(a, t) /\ ~IsOutput(a, t) /\ (IsDelivery(a, t) => a \in s.msgs)
    BY <1>4, <1>7, <2>1 DEF IsDelivery, IsThrow, IsOutput
  <2>6. \A a \in net' : a.type = "codeDelivery" /\ a.tx = t /\ a.com => IsDelivery(a, t)
    BY <1>4, <1>6, <1>7, <1>9 DEF ExecutionOK, OnePlace, IsDelivery
  <2>7. OnePlace(t)'
    BY <1>1, <1>4, <2>1, <2>5, <2>6 DEF OnePlace, IsDelivery, IsThrow, IsOutput
  <2>8. AnsweredOK(t)'
    BY <1>1, <1>4, <1>6, <1>9, <2>2, <2>4 DEF ExecutionOK, AnsweredOK
  <2>9. HolderOK(t)'
    BY <1>4, <2>2, <2>5 DEF HolderOK, IsDelivery, IsOutput
  <2>10. \A a \in net' : a.type \in {"exception", "canCommit"} => a \in net
    BY <1>4, <1>7
  <2>11. UnthrownOK(t)'
    BY <1>1, <1>4, <1>6, <1>9, <2>2, <2>4, <2>10 DEF ExecutionOK, UnthrownOK
  <2>12. QED BY <1>9, <2>7, <2>8, <2>9, <2>11 DEF ExecutionOK
<1>10. QED BY <1>8, <1>9

\* A notification goes to a master that is not the origin: its copy answers
\* nobody, and the code is delivered for verification only.
LEMMA NotificationStep ==
  ASSUME TypeOK, CopiesOK, OnceInv, ExecutionInv,
         NEW m \in Masters, NEW msg \in net, processIncomingTransaction(m, msg)
  PROVE  ExecutionInv'
<1> SUFFICES ASSUME NEW u \in Txs PROVE ExecutionOK(u)'
  BY DEF ExecutionInv
<1> DEFINE t == msg.tx
           tx == fromJson(transactions[m][t], msg.json)
<1>1. t \in Txs /\ msg.json \in Json /\ msg.type = "txNotification" /\ msg.to = m
  BY MessageFields DEF TypeOK, processIncomingTransaction
<1>2. m # Origin[t] /\ Origin[u] \in Masters
  BY <1>1, MastersAssumption DEF OnceInv, NotesOK
<1>3. transactions[m][t] \in Transaction /\ ~transactions[m][t].computeNode
  BY <1>1, <1>2 DEF TypeOK, CopiesOK, CopyOK, CopyFlagsOK
<1>4. tx \in Transaction /\ ~tx.computeNode
  BY <1>1, <1>3, JsonTypes DEF fromJson, Transaction
<1>5. PICK s \in sendToVerifier(m, t, tx) :
        checkVerification(m, t, s.tx, (net \ {msg}) \cup s.msgs)
  BY DEF processIncomingTransaction
<1> HIDE DEF t, tx
<1>6. /\ ~s.tx.computeNode
      /\ \A a \in s.msgs : a.type = "codeDelivery" /\ a.tx = t /\ a.from = m /\ ~a.com
  BY <1>1, <1>4, <1>5, Delivery
<1>7. ~answersClient(t, s.tx)
  BY <1>6 DEF answersClient, canSend
<1>8. /\ net' = (net \ {msg}) \cup s.msgs /\ replies' = replies
      /\ transactions' = [transactions EXCEPT ![m][t] = checked(t, s.tx)]
  BY <1>5, <1>7 DEF checkVerification
<1>9. OriginCopy(u)' = OriginCopy(u)
  BY <1>1, <1>2, <1>8 DEF OriginCopy, TypeOK
<1>10. \A a \in net' : Marked(a, u) \/ a.type = "exception" => a \in net
  BY <1>2, <1>6, <1>8 DEF Marked, IsDelivery, IsThrow, IsOutput
<1>11. /\ submitted' = submitted /\ trs' = trs /\ thrown' = thrown
       /\ delivering' = delivering
  BY DEF processIncomingTransaction
<1>12. Quiet(u)
  BY <1>8, <1>9, <1>10, <1>11 DEF Quiet, CopyIsKept
<1>13. QED BY <1>12, QuietStep DEF ExecutionInv

\* A result: the output can only come when the execution is over, so that the
\* origin's answer is the first and the last one.
LEMMA ResultStep ==
  ASSUME TypeOK, CopiesOK, ExecutionInv,
         NEW m \in Masters, NEW msg \in net, verifyTransaction(m, msg)
  PROVE  ExecutionInv'
<1> SUFFICES ASSUME NEW u \in Txs PROVE ExecutionOK(u)'
  BY DEF ExecutionInv
<1> DEFINE t == msg.tx
           old == transactions[m][t]
           found == IF old.exists THEN old ELSE PartialTransaction(msg.hash, now)
           filled == IF msg.output = EmptyString THEN found ELSE setOutput(found, msg.output)
           tx == verifyHash(filled, msg.hash)
<1>1. /\ t \in Txs /\ msg.hash \in Results /\ msg.output \in Strings
      /\ msg.type = "verificationResult"
      /\ checkVerification(m, t, tx, net \ {msg})
  BY MessageFields DEF TypeOK, verifyTransaction
<1>2. /\ submitted' = submitted /\ trs' = trs /\ thrown' = thrown
      /\ delivering' = delivering
  BY DEF verifyTransaction
<1>3. old \in Transaction /\ now \in Nat /\ (~old.exists => old = NoTransaction)
  BY <1>1 DEF TypeOK, CopiesOK, CopyOK, CopyFlagsOK
<1>4. /\ PartialTransaction(msg.hash, now) \in Transaction
      /\ ~PartialTransaction(msg.hash, now).computeNode /\ ~NoTransaction.computeNode
  <2>1. PartialTransaction(msg.hash, now) \in Transaction
    BY <1>1, <1>3, ConstructorTypes DEF Strings
  <2>2. QED BY <2>1 DEF PartialTransaction, NoTransaction
<1>5. found \in Transaction /\ (found = old \/ (~found.computeNode /\ ~old.computeNode))
  BY <1>3, <1>4
<1> HIDE DEF found
<1>6. setOutput(found, msg.output) \in Transaction
  BY <1>1, <1>5 DEF setOutput, Transaction
<1>7. /\ filled \in Transaction /\ filled.computeNode = found.computeNode
      /\ filled.sentToClient = found.sentToClient
      /\ filled.computeNodeId = found.computeNodeId
      /\ IF msg.output = EmptyString
         THEN filled.output = found.output /\ filled.receivedOutput = found.receivedOutput
         ELSE filled.output = msg.output /\ filled.receivedOutput
  <2>1. CASE msg.output = EmptyString
    BY <1>5, <2>1
  <2>2. CASE msg.output # EmptyString
    BY <1>5, <1>6, <2>2 DEF setOutput, Transaction
  <2>3. QED BY <2>1, <2>2
<1> HIDE DEF filled
<1>8. tx \in Transaction
  BY <1>1, <1>7, VerifyHashType
<1>9. /\ tx.computeNode = filled.computeNode /\ tx.sentToClient = filled.sentToClient
      /\ tx.computeNodeId = filled.computeNodeId /\ tx.output = filled.output
      /\ tx.receivedOutput = filled.receivedOutput
  BY <1>7 DEF verifyHash, Transaction
<1> HIDE DEF tx
<1> DEFINE new == checked(t, tx)
<1>10. /\ new.computeNode = tx.computeNode /\ new.computeNodeId = tx.computeNodeId
       /\ new.output = tx.output /\ new.receivedOutput = tx.receivedOutput
       /\ new.sentToClient = (tx.sentToClient \/ answersClient(t, tx))
  BY <1>8 DEF checked, Transaction
<1>11. \A n \in Masters, w \in Txs :
         transactions'[n][w] = IF n = m /\ w = t THEN new ELSE transactions[n][w]
  BY <1>1 DEF checkVerification, TypeOK
<1>12. /\ replies' = IF answersClient(t, tx)
                     THEN [replies EXCEPT ![t] = Append(@, Reply("result", tx.output))]
                     ELSE replies
       /\ \A a \in net' : \/ a \in net
                          \/ answersClient(t, tx) /\ a = canCommit(t, tx)
  BY <1>1 DEF checkVerification
<1> HIDE DEF new
<1>13. ExecutionOK(u) /\ ExecutionOK(t) /\ Origin[u] \in Masters
  BY <1>1, MastersAssumption DEF ExecutionInv
<1>14. old.computeNode => m = Origin[t]
  BY <1>1 DEF CopiesOK, CopyOK, CopyFlagsOK
<1>15. tx.computeNode => old.computeNode /\ found = old
  BY <1>5, <1>7, <1>9
<1>16. answersClient(t, tx) => m = Origin[t] /\ old.computeNode /\ ~old.sentToClient /\ tx.receivedOutput
  BY <1>7, <1>9, <1>14, <1>15 DEF answersClient, canSend, isVerified
<1> HIDE DEF t, old
<1>17. CASE u # t \/ m # Origin[t] \/ ~old.computeNode
  <2>1. CASE u # t
    <3>1. OriginCopy(u)' = OriginCopy(u) /\ replies'[u] = replies[u]
      BY <1>11, <1>12, <1>13, <2>1 DEF OriginCopy, TypeOK
    <3>2. \A a \in net' : Marked(a, u) \/ a.type = "exception" => a \in net
      BY <1>12, <2>1 DEF Marked, IsDelivery, IsThrow, IsOutput, canCommit
    <3>3. Quiet(u)
      BY <1>2, <3>1, <3>2 DEF Quiet, CopyIsKept
    <3>4. QED BY <1>13, <3>3, QuietStep
  <2>2. CASE u = t
    <3>1. ~answersClient(t, tx)
      BY <1>16, <1>17, <2>2
    <3>2. CopyIsKept(u)
      <4>1. CASE m # Origin[t]
        BY <1>11, <1>13, <2>2, <4>1 DEF OriginCopy, CopyIsKept
      <4>2. CASE m = Origin[t] /\ ~old.computeNode
        BY <1>1, <1>10, <1>11, <1>15, <2>2, <4>2 DEF OriginCopy, CopyIsKept
      <4>3. QED BY <1>17, <2>2, <4>1, <4>2
    <3>3. Quiet(u)
      BY <1>2, <1>12, <3>1, <3>2 DEF Quiet
    <3>4. QED BY <1>13, <3>3, QuietStep
  <2>3. QED BY <2>1, <2>2
<1>18. CASE u = t /\ m = Origin[t] /\ old.computeNode
  <2>1. OriginCopy(t) = old /\ OriginCopy(t)' = new
    BY <1>1, <1>11, <1>18 DEF OriginCopy, old
  <2>2. /\ new.computeNode => new.computeNodeId = old.computeNodeId
        /\ new.computeNode => new.sentToClient = (old.sentToClient \/ answersClient(t, tx))
        /\ new.computeNode => IF msg.output = EmptyString
           THEN new.output = old.output /\ new.receivedOutput = old.receivedOutput
           ELSE new.output = msg.output /\ new.receivedOutput
    BY <1>7, <1>9, <1>10, <1>15
  <2>3. \A a \in net' : \/ a \in net
                        \/ /\ answersClient(t, tx) /\ a.type = "canCommit"
                           /\ a.to = tx.computeNodeId
    BY <1>12 DEF canCommit
  <2>4. \A a \in net' : a.type # "canCommit" => a \in net
    BY <2>3
  <2>5. msg.output # EmptyString => IsOutput(msg, t)
    BY <1>1 DEF IsOutput, t
  <2>6. OnePlace(t)'
    BY <1>2, <1>13, <2>4 DEF ExecutionOK, OnePlace, IsDelivery, IsThrow, IsOutput
  <2>7. /\ Open(t)' => Open(t)
        /\ msg.output # EmptyString => ~Open(t)
    BY <1>2, <1>13, <2>4, <2>5 DEF ExecutionOK, OnePlace, Open, IsDelivery, IsThrow, IsOutput
  <2>8. new.computeNode /\ new.receivedOutput => ~Open(t)'
    BY <1>13, <1>18, <2>1, <2>2, <2>7 DEF ExecutionOK, AnsweredOK
  <2>9. answersClient(t, tx) => replies[t] = <<>> /\ new.computeNode /\ new.receivedOutput /\ new.sentToClient
    <3>1. answersClient(t, tx) => tx.computeNode /\ tx.receivedOutput
      BY DEF answersClient, canSend, isVerified
    <3>2. QED BY <1>10, <1>13, <1>16, <1>18, <2>1, <3>1 DEF ExecutionOK, AnsweredOK
  <2>10. answersClient(t, tx) => replies'[t] = <<Reply("result", new.output)>>
    BY <1>1, <1>10, <1>12, <2>9 DEF TypeOK
  <2>11. ~answersClient(t, tx) => replies'[t] = replies[t]
    BY <1>12
  <2>12. answersClient(t, tx) => /\ Len(replies'[t]) = 1 /\ replies'[t] # <<>>
                                 /\ \A i \in 1..Len(replies'[t]) : replies'[t][i].data = new.output
    <3> SUFFICES ASSUME answersClient(t, tx)
                 PROVE  /\ Len(replies'[t]) = 1 /\ replies'[t] # <<>>
                        /\ \A i \in 1..Len(replies'[t]) : replies'[t][i].data = new.output
      OBVIOUS
    <3>1. replies'[t] = <<Reply("result", new.output)>>
      BY <2>10
    <3>2. Len(replies'[t]) = 1 /\ replies'[t][1] = Reply("result", new.output)
      BY <3>1
    <3>3. QED BY <3>2 DEF Reply
  <2>13. AnsweredOK(t)'
    BY <1>2, <1>13, <1>18, <2>1, <2>2, <2>7, <2>8, <2>9, <2>11, <2>12 DEF ExecutionOK, AnsweredOK
  <2>14. HolderOK(t)'
    BY <1>2, <1>13, <1>18, <2>1, <2>2, <2>4 DEF ExecutionOK, HolderOK, IsDelivery, IsOutput
  <2>15. thrown = 0 /\ new.computeNode /\ new.receivedOutput =>
           <<new.computeNodeId, t>> \in trs /\ new.output # EmptyString
    BY <1>13, <1>18, <2>1, <2>2, <2>5 DEF ExecutionOK, UnthrownOK, HolderOK
  <2>16. answersClient(t, tx) => tx.computeNodeId = new.computeNodeId
    BY <1>10
  <2>17. UnthrownOK(t)'
    BY <1>2, <1>13, <2>1, <2>3, <2>9, <2>11, <2>12, <2>15, <2>16 DEF ExecutionOK, UnthrownOK
  <2>18. QED BY <1>18, <2>6, <2>13, <2>14, <2>17 DEF ExecutionOK
<1>19. QED BY <1>17, <1>18

\* An exception that reaches the origin ends the execution: no answer has been
\* given before, and none can be given after it.
LEMMA ExceptionStep ==
  ASSUME TypeOK, CopiesOK, ExecutionInv,
         NEW m \in Masters, NEW msg \in net, exceptionFromVerifier(m, msg)
  PROVE  ExecutionInv'
<1> SUFFICES ASSUME NEW u \in Txs PROVE ExecutionOK(u)'
  BY DEF ExecutionInv
<1> DEFINE t == msg.tx
           old == transactions[m][t]
           tx == [setOutput(old, EmptyString) EXCEPT !.exception = TRUE]
<1>1. t \in Txs /\ msg.type = "exception" /\ msg.to = m
  BY MessageFields DEF TypeOK, exceptionFromVerifier
<1>2. /\ submitted' = submitted /\ trs' = trs /\ thrown' = thrown
      /\ delivering' = delivering
  BY DEF exceptionFromVerifier
<1>3. old \in Transaction /\ (old.computeNode => m = Origin[t]) /\ ~NoTransaction.computeNode
  BY <1>1 DEF TypeOK, CopiesOK, CopyOK, CopyFlagsOK, NoTransaction
<1>4. tx.computeNode = old.computeNode /\ tx.sentToClient = old.sentToClient
  <2>1. setOutput(old, EmptyString) \in Transaction
    BY <1>3 DEF setOutput, Transaction, Strings
  <2>2. QED BY <1>3, <2>1 DEF setOutput, Transaction
<1>5. \A a \in net' : (a \in net /\ a # msg) \/ a.type = "exceptionTx"
  BY DEF exceptionFromVerifier, exceptionTx
<1>6. \/ /\ transactions' = transactions \/ ~old.computeNode
         /\ \E c \in {old, tx, NoTransaction} : transactions' = [transactions EXCEPT ![m][t] = c]
         /\ replies' = replies
      \/ /\ old.computeNode /\ replies' = replies
         /\ transactions' = [transactions EXCEPT ![m][t] = tx]
      \/ /\ old.computeNode
         /\ transactions' = [transactions EXCEPT ![m][t] = NoTransaction]
         /\ replies' = [replies EXCEPT ![t] = Append(@, Reply("exception", EmptyString))]
  <2>1. [transactions EXCEPT ![m][t] = old] = transactions
    BY <1>1 DEF TypeOK
  <2>2. QED BY <1>4, <2>1 DEF exceptionFromVerifier
<1> HIDE DEF tx
<1>7. ExecutionOK(u) /\ ExecutionOK(t) /\ Origin[u] \in Masters
  BY <1>1, MastersAssumption DEF ExecutionInv
<1>8. \A a \in net' : Marked(a, u) \/ a.type = "exception" => a \in net
  BY <1>5 DEF Marked, IsDelivery, IsThrow, IsOutput
<1> HIDE DEF t
<1>9. CASE u # t \/ ~old.computeNode
  <2>1. replies'[u] = replies[u]
    BY <1>6, <1>9 DEF TypeOK
  <2>2. CopyIsKept(u)
    <3>0. \/ transactions' = transactions
          \/ \E c : transactions' = [transactions EXCEPT ![m][t] = c]
      BY <1>6
    <3>1. CASE u # t
      <4>1. OriginCopy(u)' = OriginCopy(u)
        BY <1>1, <1>7, <3>0, <3>1 DEF OriginCopy, TypeOK
      <4>2. QED BY <4>1 DEF CopyIsKept
    <3>2. CASE u = t /\ m # Origin[t]
      <4>1. OriginCopy(u)' = OriginCopy(u)
        BY <1>1, <1>7, <3>0, <3>2 DEF OriginCopy, TypeOK
      <4>2. QED BY <4>1 DEF CopyIsKept
    <3>3. CASE u = t /\ m = Origin[t] /\ ~old.computeNode
      <4>1. PICK c \in {old, tx, NoTransaction} : transactions' = [transactions EXCEPT ![m][t] = c]
        BY <1>6, <3>3
      <4>2. OriginCopy(t)' = c
        BY <1>1, <3>3, <4>1 DEF OriginCopy, TypeOK
      <4>3. ~c.computeNode
        BY <1>3, <1>4, <3>3
      <4>4. QED BY <3>3, <4>2, <4>3 DEF CopyIsKept
    <3>4. QED BY <1>9, <3>1, <3>2, <3>3
  <2>3. Quiet(u)
    BY <1>2, <1>8, <2>1, <2>2 DEF Quiet
  <2>4. QED BY <1>7, <2>3, QuietStep
<1>10. CASE u = t /\ old.computeNode
  <2>1. m = Origin[t] /\ IsThrow(msg, t) /\ OriginCopy(t) = old
    BY <1>1, <1>3, <1>10 DEF IsThrow, OriginCopy, t
  <2>2. /\ t \in submitted /\ <<Origin[t], t>> \notin delivering
        /\ \A a \in net : ~IsDelivery(a, t) /\ ~IsOutput(a, t)
    BY <1>7, <2>1 DEF ExecutionOK, OnePlace
  <2>3. Open(t)
    BY <2>1 DEF Open
  <2>4. replies[t] = <<>> /\ thrown # 0
    BY <1>1, <1>7, <1>10, <2>1, <2>3 DEF ExecutionOK, AnsweredOK, UnthrownOK, t
  <2>5. \A a \in net' : ~IsDelivery(a, t) /\ ~IsOutput(a, t)
    BY <1>5, <2>2 DEF IsDelivery, IsOutput
  <2>6. \A a \in net' : ~IsThrow(a, t)
    <3> SUFFICES ASSUME NEW a \in net', IsThrow(a, t) PROVE FALSE
      OBVIOUS
    <3>1. a \in net /\ a # msg
      BY <1>5 DEF IsThrow
    <3>2. /\ a \in [type : {"exception"}, to : Masters, tx : Txs]
          /\ msg \in [type : {"exception"}, to : Masters, tx : Txs]
      BY <1>1, <3>1 DEF TypeOK, Messages, IsThrow
    <3>3. a.type = msg.type /\ a.to = msg.to /\ a.tx = msg.tx
      BY <2>1 DEF IsThrow
    <3>4. QED BY <3>1, <3>2, <3>3
  <2>7. OnePlace(t)'
    BY <1>2, <1>5, <1>7, <2>2, <2>5, <2>6 DEF ExecutionOK, OnePlace, IsDelivery, IsThrow, IsOutput
  <2>8. ~Open(t)'
    BY <1>2, <2>2, <2>5, <2>6 DEF Open, IsDelivery, IsThrow
  <2>9. HolderOK(t)'
    BY <2>5 DEF HolderOK, IsDelivery, IsOutput
  <2>10. UnthrownOK(t)'
    BY <1>2, <2>4 DEF UnthrownOK
  <2>11. AnsweredOK(t)'
    <3>1. CASE replies' = replies
      BY <1>2, <2>2, <2>4, <2>8, <3>1 DEF AnsweredOK
    <3>2. CASE /\ transactions' = [transactions EXCEPT ![m][t] = NoTransaction]
               /\ replies' = [replies EXCEPT ![t] = Append(@, Reply("exception", EmptyString))]
      <4>1. OriginCopy(t)' = NoTransaction
        BY <1>1, <2>1, <3>2 DEF OriginCopy, TypeOK
      <4>2. replies'[t] = <<Reply("exception", EmptyString)>>
        BY <1>1, <2>4, <3>2 DEF TypeOK
      <4>3. Len(replies'[t]) = 1
        BY <4>2
      <4>4. QED BY <1>2, <1>3, <2>2, <4>1, <4>3 DEF AnsweredOK
    <3>3. QED BY <1>6, <1>10, <3>1, <3>2
  <2>12. QED BY <1>10, <2>7, <2>9, <2>10, <2>11 DEF ExecutionOK
<1>11. QED BY <1>9, <1>10

\* A verifier executes code: the output goes out when it was asked for, and by
\* then the node holds the state changes.
LEMMA ExecuteStep ==
  ASSUME TypeOK, ExecutionInv, NEW d \in net, executeJsCode(d)
  PROVE  ExecutionInv'
<1> SUFFICES ASSUME NEW u \in Txs PROVE ExecutionOK(u)'
  BY DEF ExecutionInv
<1>1. /\ d.type = "codeDelivery" /\ d.tx \in Txs /\ d.com \in BOOLEAN
      /\ submitted' = submitted /\ thrown' = thrown /\ delivering' = delivering
      /\ replies' = replies /\ transactions' = transactions
      /\ trs' = IF d.com THEN trs \cup {<<d.to, d.tx>>} ELSE trs
  BY MessageFields DEF TypeOK, executeJsCode
<1>2. PICK r \in Results : net' = (net \ {d}) \cup verificationResult(d, r, M21)
  BY DEF executeJsCode
<1>3. \A a \in net' : \/ a \in net /\ a # d
                      \/ /\ a.type = "verificationResult" /\ a.tx = d.tx
                         /\ a.output = IF d.com THEN r ELSE EmptyString
  BY <1>2 DEF verificationResult
<1>4. OriginCopy(u)' = OriginCopy(u) /\ ExecutionOK(u)
  BY <1>1 DEF OriginCopy, ExecutionInv
<1>5. CASE u # d.tx \/ ~d.com
  <2>1. \A a \in net' : Marked(a, u) \/ a.type = "exception" => a \in net
    BY <1>3, <1>5 DEF Marked, IsDelivery, IsThrow, IsOutput
  <2>2. Quiet(u)
    BY <1>1, <1>4, <2>1 DEF Quiet, CopyIsKept
  <2>3. QED BY <1>4, <2>2, QuietStep
<1>6. CASE u = d.tx /\ d.com
  <2>1. IsDelivery(d, u)
    BY <1>1, <1>4, <1>6 DEF ExecutionOK, OnePlace
  <2>2. /\ u \in submitted /\ <<Origin[u], u>> \notin delivering
        /\ \A a \in net : ~IsThrow(a, u) /\ (IsDelivery(a, u) => a = d)
    BY <1>4, <2>1 DEF ExecutionOK, OnePlace
  <2>3. \A a \in net' : ~IsThrow(a, u) /\ ~IsDelivery(a, u)
    BY <1>3, <2>2 DEF IsThrow, IsDelivery
  <2>4. \A a \in net' : a.type \in {"codeDelivery", "canCommit", "exception"} => a \in net
    BY <1>3
  <2>5. OnePlace(u)'
    BY <1>1, <1>4, <2>2, <2>3, <2>4 DEF ExecutionOK, OnePlace, IsDelivery, IsThrow, IsOutput
  <2>6. Open(u)' => Open(u)
    BY <1>1, <2>3 DEF Open, IsDelivery, IsThrow
  <2>7. AnsweredOK(u)'
    BY <1>1, <1>4, <2>6 DEF ExecutionOK, AnsweredOK
  <2>8. OriginCopy(u).computeNode => <<OriginCopy(u).computeNodeId, u>> \in trs'
    BY <1>1, <1>4, <1>6, <2>1 DEF ExecutionOK, HolderOK
  <2>9. HolderOK(u)'
    BY <1>4, <2>3, <2>8 DEF HolderOK, IsDelivery
  <2>10. UnthrownOK(u)'
    BY <1>1, <1>4, <2>4 DEF ExecutionOK, UnthrownOK
  <2>11. QED BY <2>5, <2>7, <2>9, <2>10 DEF ExecutionOK
<1>7. QED BY <1>5, <1>6

\* An execution throws: its exception takes its place.
LEMMA ThrowStep ==
  ASSUME TypeOK, ExecutionInv, NEW d \in net, executeJsCodeThrows(d)
  PROVE  ExecutionInv'
<1> SUFFICES ASSUME NEW u \in Txs PROVE ExecutionOK(u)'
  BY DEF ExecutionInv
<1>1. /\ d.type = "codeDelivery" /\ thrown' = thrown + 1 /\ thrown \in Nat
      /\ submitted' = submitted /\ trs' = trs /\ delivering' = delivering
      /\ replies' = replies /\ transactions' = transactions
  BY DEF TypeOK, executeJsCodeThrows
<1>2. \A a \in net' : \/ a \in net /\ a # d
                      \/ /\ a.type = "exception" /\ a.to = d.from /\ a.tx = d.tx
  BY DEF executeJsCodeThrows
<1>3. OriginCopy(u)' = OriginCopy(u) /\ ExecutionOK(u) /\ thrown' # 0
  BY <1>1 DEF OriginCopy, ExecutionInv
<1>4. CASE ~IsDelivery(d, u)
  <2>1. \A a \in net' : Marked(a, u) => a \in net
    BY <1>1, <1>2, <1>4 DEF Marked, IsDelivery, IsThrow, IsOutput
  <2>2. Quiet(u)
    BY <1>1, <1>3, <2>1 DEF Quiet, CopyIsKept
  <2>3. QED BY <1>3, <2>2, QuietStep
<1>5. CASE IsDelivery(d, u)
  <2>1. /\ u \in submitted /\ <<Origin[u], u>> \notin delivering
        /\ \A a \in net : ~IsOutput(a, u) /\ (IsDelivery(a, u) => a = d)
    BY <1>3, <1>5 DEF ExecutionOK, OnePlace
  <2>2. \A a \in net' : ~IsOutput(a, u) /\ ~IsDelivery(a, u)
    BY <1>2, <2>1 DEF IsOutput, IsDelivery
  <2>3. \A a \in net' : a.type \in {"codeDelivery", "canCommit"} => a \in net
    BY <1>2
  <2>4. OnePlace(u)'
    BY <1>1, <1>3, <2>1, <2>2, <2>3 DEF ExecutionOK, OnePlace, IsDelivery, IsThrow, IsOutput
  <2>5. Open(u)
    BY <1>5 DEF Open
  <2>6. AnsweredOK(u)'
    BY <1>1, <1>3, <2>5 DEF ExecutionOK, AnsweredOK
  <2>7. HolderOK(u)'
    BY <2>2 DEF HolderOK, IsDelivery, IsOutput
  <2>8. UnthrownOK(u)'
    BY <1>3 DEF UnthrownOK
  <2>9. QED BY <2>4, <2>6, <2>7, <2>8 DEF ExecutionOK
<1>6. QED BY <1>4, <1>5

\* Every step keeps the invariant.
LEMMA ExecutionStep ==
  TypeOK /\ CopiesOK /\ OnceInv /\ ExecutionInv /\ [Next]_vars => ExecutionInv'
<1> SUFFICES ASSUME TypeOK, CopiesOK, OnceInv, ExecutionInv, [Next]_vars
             PROVE  ExecutionInv'
  OBVIOUS
<1>1. ASSUME NEW t \in Txs, processCodePacket(t) PROVE ExecutionInv'
  BY <1>1, RequestStep
<1>2. ASSUME NEW m \in Masters, NEW t \in Txs, deliverToComputeNode(m, t)
      PROVE  ExecutionInv'
  BY <1>2, DeliverStep
<1>3. ASSUME NEW m \in Masters, NEW msg \in net, Handle(m, msg) PROVE ExecutionInv'
  <2>1. CASE exceptionFromMaster(m, msg)
    <3>1. net' \subseteq net
      BY <2>1 DEF exceptionFromMaster
    <3>2. QED BY <2>1, <3>1, IdleStep DEF exceptionFromMaster
  <2>2. QED BY <1>3, <2>1, NotificationStep, ResultStep, ExceptionStep DEF Handle
<1>4. ASSUME NEW m \in Masters, cleanupTransactionsMap(m) PROVE ExecutionInv'
  <2> SUFFICES ASSUME NEW u \in Txs PROVE ExecutionOK(u)'
    BY DEF ExecutionInv
  <2>1. Origin[u] \in Masters /\ ~NoTransaction.computeNode
    BY MastersAssumption DEF NoTransaction
  <2>2. OriginCopy(u)' \in {OriginCopy(u), NoTransaction}
    BY <1>4, <2>1 DEF cleanupTransactionsMap, TypeOK, OriginCopy
  <2>3. CopyIsKept(u)
    BY <2>1, <2>2 DEF CopyIsKept
  <2>4. Quiet(u)
    BY <1>4, <2>3 DEF Quiet, cleanupTransactionsMap
  <2>5. QED BY <2>4, QuietStep DEF ExecutionInv
<1>5. ASSUME NEW msg \in net, executeJsCode(msg) PROVE ExecutionInv'
  BY <1>5, ExecuteStep
<1>6. ASSUME NEW msg \in net, executeJsCodeThrows(msg) PROVE ExecutionInv'
  BY <1>6, ThrowStep
<1>7. ASSUME NEW msg \in net, loseMessage(msg) PROVE ExecutionInv'
  <2>1. net' \subseteq net
    BY <1>7 DEF loseMessage
  <2>2. QED BY <1>7, <2>1, IdleStep DEF loseMessage
<1>8. ASSUME NEW m \in Masters, NEW n \in Verifiers \cup {StorageNode}, addNode(m, n)
      PROVE  ExecutionInv'
  BY <1>8, IdleStep DEF addNode
<1>9. ASSUME NEW t \in Txs, onClose(t) \/ onOpen(t) PROVE ExecutionInv'
  BY <1>9, IdleStep DEF onClose, onOpen
<1>10. CASE tick \/ UNCHANGED vars
  BY <1>10, IdleStep DEF tick, vars
<1>11. QED
  BY <1>1, <1>2, <1>3, <1>4, <1>5, <1>6, <1>7, <1>8, <1>9, <1>10 DEF Next

\* The invariants this section combines hold in every behaviour.
LEMMA ExecutionInvariant == Spec => []ExecutionInv
<1>1. ASSUME Init PROVE ExecutionInv
  <2> SUFFICES ASSUME NEW t \in Txs PROVE ExecutionOK(t)
    BY DEF ExecutionInv
  <2>1. Origin[t] \in Masters
    BY MastersAssumption
  <2>2. OriginCopy(t) = NoTransaction /\ replies[t] = <<>> /\ net = {} /\ delivering = {}
    BY <1>1, <2>1 DEF Init, OriginCopy
  <2>3. ~OriginCopy(t).computeNode /\ Len(replies[t]) = 0
    BY <2>2 DEF NoTransaction
  <2>4. QED
    BY <2>2, <2>3 DEF ExecutionOK, OnePlace, AnsweredOK, HolderOK, UnthrownOK
<1>2. Init => TypeOK /\ CopiesOK /\ OnceInv
  BY InitialInvariants
<1>3. /\ TypeOK /\ CopiesOK /\ OnceInv /\ ExecutionInv /\ [Next]_vars
      => (TypeOK /\ CopiesOK /\ OnceInv /\ ExecutionInv)'
  BY TypeOKStep, CopiesStep, OnceStep, ExecutionStep
<1>4. QED BY <1>1, <1>2, <1>3, PTL DEF Spec

\* In every behaviour, a client is sent one reply at most: however results,
\* exceptions, failed sends, reconnections, losses and the cleanup interleave.
THEOREM ClientAnsweredOnceCorrect == Spec => []ClientAnsweredOnce
<1>1. ExecutionInv => ClientAnsweredOnce
  <2> SUFFICES ASSUME ExecutionInv, NEW t \in Txs PROVE Len(replies[t]) <= 1
    BY DEF ClientAnsweredOnce
  <2>1. CASE replies[t] = <<>>
    <3>1. Len(replies[t]) = 0
      BY <2>1
    <3>2. QED BY <3>1
  <2>2. CASE replies[t] # <<>>
    <3>1. AnsweredOK(t)
      BY DEF ExecutionInv, ExecutionOK
    <3>2. Len(replies[t]) = 1
      BY <2>2, <3>1 DEF AnsweredOK
    <3>3. QED BY <3>2
  <2>3. QED BY <2>1, <2>2
<1>2. QED BY <1>1, ExecutionInvariant, PTL

\* As long as no execution has thrown, canCommit goes only to a Compute Node that
\* holds the transaction's state changes, also when the origin's copy was
\* erased and results came late.
THEOREM CommitReachesHolderCorrect == Spec => [](thrown = 0 => CommitReachesHolder)
<1>1. TypeOK /\ ExecutionInv => (thrown = 0 => CommitReachesHolder)
  <2> SUFFICES ASSUME TypeOK, ExecutionInv, thrown = 0,
                      NEW msg \in net, msg.type = "canCommit"
               PROVE  <<msg.to, msg.tx>> \in trs
    BY DEF CommitReachesHolder
  <2>1. msg.tx \in Txs
    BY DEF TypeOK, Messages
  <2>2. QED BY <2>1 DEF ExecutionInv, ExecutionOK, UnthrownOK
<1>2. QED BY <1>1, TypeCorrect, ExecutionInvariant, PTL

\* As long as no execution has thrown, a result that a client is sent carries
\* the output of its Compute Node.
THEOREM AnswerHasOutputCorrect == Spec => [](thrown = 0 => AnswerHasOutput)
<1>1. ExecutionInv => (thrown = 0 => AnswerHasOutput)
  BY DEF ExecutionInv, ExecutionOK, UnthrownOK, AnswerHasOutput
<1>2. QED BY <1>1, ExecutionInvariant, PTL
=============================================================================
