------------------------- MODULE BlockCommit_proofs -------------------------
(***************************************************************************)
(* Proofs about how the Storage Node commits blocks, for any blocks,       *)
(* numbers, transactions, masters and failures.                            *)
(***************************************************************************)
EXTENDS BlockCommit, WellFoundedInduction, TLAPS

-----------------------------------------------------------------------------
(* The inductive invariant.                                                 *)

Locked == pc \notin {"idle", "ended"}

\* The block that is committed stays on top of the queue, because nobody pushes
\* while the lock is held.
QueueOK ==
  /\ blocksToCommit \subseteq received /\ Announced \subseteq received
  /\ blocksToCommit \cap Announced = {}
  /\ Locked => /\ current \in blocksToCommit
               /\ \A b \in blocksToCommit : NumberOf[current] <= NumberOf[b]

\* The transactions that have been added of the block that is committed.
Added == IF pc = "transactions" THEN 1..(nextTx - 1) ELSE DOMAIN TxsOf[current]

\* The transactions are added in order, all of them before the block is linked, and a
\* block without an object is one whose put failed.
StoredOK ==
  /\ AnnouncedIsStored /\ nextTx >= 1
  /\ Locked => \A i \in DOMAIN TxsOf[current] : i \in Added => TxsOf[current][i] \in txTree
  /\ pc \in {"readRoot", "link", "announce"} /\ blockHash[current] = NoObject => failures > 0

\* Handlers work on announced blocks, one per answer, and an answer is in flight or
\* with its handler.
HandlersOK ==
  /\ answers \subseteq answered
  /\ \A p \in answered : p[2] \in Announced
  /\ \A h \in handlers : <<h.by, h.block>> \in answered \ answers /\ h.object # NoObject
  /\ \A g, h \in handlers : g.by = h.by /\ g.block = h.block => g = h

\* The answers whose verification may be in an object: those no handler is about to put.
Spent == {p \in answered \ answers :
            \A h \in handlers : h.at = "put" => p # <<h.by, h.block>>}

Proper(o, b, spent) ==
  o # NoObject => /\ o[1] = Producer[b]
                  /\ \A i, j \in 2..Len(o) : o[i] = o[j] => i = j
                  /\ \A i \in 2..Len(o) : <<o[i], b>> \in spent

\* Every copy of an object is proper, in the DHT and in the threads.
ProperOK ==
  /\ \A b \in Blocks : /\ Proper(blockHash[b], b, Spent) /\ Proper(root[b], b, Spent)
                       /\ Proper(rootRead[b], b, Spent)
  /\ \A h \in handlers : /\ Proper(h.object, h.block, Spent)
                         /\ \A b \in Blocks : Proper(h.rootRead[b], b, Spent)

CommitInv == TypeOK /\ QueueOK /\ StoredOK /\ HandlersOK /\ ProperOK

-----------------------------------------------------------------------------
(* The operators.                                                           *)

\* A set of naturals that is not empty has a least element.
LEMMA LeastNatural ==
  ASSUME NEW T, T \subseteq Nat, T # {} PROVE \E n \in T : \A m \in T : n <= m
<1>1. PICK n \in T : \A m \in T : ~ (<<m, n>> \in OpToRel(<, Nat))
  BY NatLessThanWellFounded, WFMin
<1>2. ASSUME NEW a \in Nat, NEW b \in Nat, a < b PROVE <<a, b>> \in OpToRel(<, Nat)
  BY <1>2 DEF OpToRel
<1>3. \A m \in T : ~(m < n)
  BY <1>1, <1>2, Zenon
<1>4. \A m \in T : n <= m
  BY <1>3
<1>5. QED BY <1>4

\* The top of the queue has the lowest number in it.
LEMMA TopIs ==
  ASSUME NEW q, q \subseteq Blocks, q # {}
  PROVE  Top(q) \in q /\ \A b \in q : NumberOf[Top(q)] <= NumberOf[b]
<1> DEFINE T == {NumberOf[b] : b \in q}
<1>1. T \subseteq Nat /\ T # {}
  BY BlocksAssumption
<1>2. PICK n \in T : \A m \in T : n <= m
  BY <1>1, LeastNatural
<1>3. PICK b \in q : n = NumberOf[b]
  BY <1>2
<1>4. \A c \in q : NumberOf[b] <= NumberOf[c]
  BY <1>2, <1>3
<1>5. QED BY <1>3, <1>4 DEF Top

\* The lowest number belongs to one block only.
LEMMA TopIsOne ==
  ASSUME NEW q, q \subseteq Blocks, NEW b \in q, \A c \in q : NumberOf[b] <= NumberOf[c]
  PROVE  Top(q) = b
<1>1. Top(q) \in q /\ NumberOf[Top(q)] <= NumberOf[b] /\ NumberOf[b] <= NumberOf[Top(q)]
  BY TopIs
<1>2. NumberOf[Top(q)] \in Nat /\ NumberOf[b] \in Nat
  BY <1>1, BlocksAssumption
<1>3. QED BY <1>1, <1>2, BlocksAssumption

\* A commit announces the block it appends, and no other.
LEMMA AnnouncedAppend ==
  ASSUME committed \in Seq(Blocks), NEW b \in Blocks, committed' = Append(committed, b)
  PROVE  Announced' = Announced \cup {b}
<1>1. /\ Len(committed') = Len(committed) + 1 /\ Len(committed) \in Nat
      /\ committed'[Len(committed) + 1] = b
      /\ \A i \in 1..Len(committed) : committed'[i] = committed[i]
  OBVIOUS
<1>2. QED BY <1>1 DEF Announced

\* While nothing is committed the same blocks are announced.
LEMMA AnnouncedSame == ASSUME committed' = committed PROVE Announced' = Announced
  BY DEF Announced

\* Verifications that are proper stay so when more have been spent.
LEMMA ProperGrows ==
  ASSUME NEW o, NEW b, NEW S, NEW T, S \subseteq T, Proper(o, b, S) PROVE Proper(o, b, T)
  BY DEF Proper

\* The producer's verification alone, and one more by a master that is in none.
LEMMA ProperProducer ==
  ASSUME NEW b \in Blocks, NEW S PROVE Proper(<<Producer[b]>>, b, S)
<1>1. Len(<<Producer[b]>>) = 1 /\ <<Producer[b]>>[1] = Producer[b]
  OBVIOUS
<1>2. QED BY <1>1 DEF Proper

\* One more, by a master whose verification of the block was not spent yet.
LEMMA ProperAppend ==
  ASSUME NEW o \in Objects, NEW b, NEW S, NEW T, o # NoObject, Proper(o, b, S), S \subseteq T,
         NEW m \in Masters, <<m, b>> \notin S, <<m, b>> \in T
  PROVE  Append(o, m) \in Objects /\ Append(o, m) # NoObject /\ Proper(Append(o, m), b, T)
<1> DEFINE p == Append(o, m)
           n == Len(o)
<1>1. /\ p \in Objects /\ n \in Nat /\ Len(p) = n + 1 /\ p[n + 1] = m
      /\ \A i \in 1..n : p[i] = o[i]
  BY DEF Objects
<1>2. n >= 1 /\ p # NoObject
  BY <1>1 DEF Objects, NoObject
<1> HIDE DEF p, n
<1>3. /\ o[1] = Producer[b] /\ \A i, j \in 2..n : o[i] = o[j] => i = j
      /\ \A i \in 2..n : <<o[i], b>> \in S
  BY DEF Proper, n
<1>4. \A i \in 2..n : o[i] # m
  BY <1>3
<1>5. p[1] = Producer[b]
  BY <1>1, <1>2, <1>3
<1>6. \A i, j \in 2..(n + 1) : p[i] = p[j] => i = j
  BY <1>1, <1>2, <1>3, <1>4
<1>7. \A i \in 2..(n + 1) : <<p[i], b>> \in T
  BY <1>1, <1>2, <1>3
<1>8. QED BY <1>1, <1>2, <1>5, <1>6, <1>7 DEF Proper, p

-----------------------------------------------------------------------------
(* Types.                                                                   *)

\* Every step keeps the types.
LEMMA TypeStep == TypeOK /\ StoredOK /\ QueueOK /\ [Next]_vars => TypeOK'
<1> SUFFICES ASSUME TypeOK, StoredOK, QueueOK, [Next]_vars PROVE TypeOK'
  OBVIOUS
<1> USE DEF TypeOK
<1>1. CASE \E b \in Blocks : closeBlock(b)
  BY <1>1 DEF closeBlock, commitVars
<1>2. CASE startCommit
  BY <1>2, TopIs DEF startCommit
<1>3. CASE addToTxTree
  <2>1. current \in Blocks
    BY <1>3 DEF addToTxTree, QueueOK, Locked
  <2>2. TxsOf[current] \in Seq(Txs)
    BY <2>1, TxsAssumption
  <2>3. CASE nextTx <= Len(TxsOf[current])
    <3>1. TxsOf[current][nextTx] \in Txs /\ nextTx + 1 \in Nat
      BY <2>2, <2>3 DEF StoredOK
    <3>2. QED BY <1>3, <2>3, <3>1 DEF addToTxTree
  <2>4. CASE ~(nextTx <= Len(TxsOf[current]))
    BY <1>3, <2>4 DEF addToTxTree
  <2>5. QED BY <2>3, <2>4
<1>4. \A b \in Blocks : <<Producer[b]>> \in Objects
  BY BlocksAssumption DEF Objects
<1>5. CASE putBlock
  <2>1. current \in Blocks
    BY <1>5 DEF putBlock, QueueOK, Locked
  <2>2. QED BY <1>4, <1>5, <2>1 DEF putBlock, Tree
<1>6. CASE readRoot
  BY <1>6 DEF readRoot
<1>7. CASE linkToRoot
  <2>1. current \in Blocks
    BY <1>7 DEF linkToRoot, QueueOK, Locked
  <2>2. QED BY <1>4, <1>7, <2>1 DEF linkToRoot, Tree
<1>8. EmptyTree \in Tree
  BY DEF EmptyTree, Tree, Objects, NoObject
<1>9. CASE announceBlock
  <2>1. current \in Blocks
    BY <1>9 DEF announceBlock, QueueOK, Locked
  <2>2. committed' \in Seq(Blocks)
    BY <1>9, <2>1 DEF announceBlock
  <2>3. QED BY <1>8, <1>9, <2>2 DEF announceBlock
<1>10. CASE commitThrows
  BY <1>10 DEF commitThrows
<1>11. ASSUME NEW m \in Masters, NEW b \in Blocks, answer(m, b) PROVE TypeOK'
  BY <1>11 DEF answer, commitVars
<1>12. ASSUME NEW m \in Masters, NEW b \in Blocks, verifyBlock(m, b) PROVE TypeOK'
  <2>1. [by |-> m, block |-> b, at |-> "put", object |-> blockHash[b], rootRead |-> EmptyTree] \in Handlers
    BY <1>8 DEF Handlers, Tree
  <2>2. handlers' \subseteq Handlers
    BY <1>12, <2>1 DEF verifyBlock
  <2>3. failures' \in Nat
    BY <1>12 DEF verifyBlock
  <2>4. QED BY <1>12, <2>2, <2>3 DEF verifyBlock, commitVars
<1>13. ASSUME NEW h \in handlers, putVerification(h) PROVE TypeOK'
  <2>1. verified(h) \in Objects /\ h \in Handlers /\ h.block \in Blocks
    BY DEF verified, Handlers, Objects
  <2>2. [h EXCEPT !.at = "readRoot", !.object = verified(h)] \in Handlers
    BY <2>1 DEF Handlers
  <2>3. handlers' \subseteq Handlers
    BY <1>13, <2>2 DEF putVerification, becomes
  <2>4. blockHash' \in Tree
    BY <1>13, <2>1 DEF putVerification, Tree
  <2>5. QED BY <1>13, <2>3, <2>4 DEF putVerification, commitVars
<1>14. ASSUME NEW h \in handlers, putNothing(h) PROVE TypeOK'
  <2>1. NoObject \in Objects /\ h.block \in Blocks
    BY DEF NoObject, Handlers, Objects
  <2>2. blockHash' \in Tree
    BY <1>14, <2>1 DEF putNothing, Tree
  <2>3. QED BY <1>14, <2>2 DEF putNothing, commitVars
<1>15. ASSUME NEW h \in handlers, readRootToVerify(h) PROVE TypeOK'
  <2>1. [h EXCEPT !.at = "link", !.rootRead = root] \in Handlers
    BY DEF Handlers
  <2>2. handlers' \subseteq Handlers
    BY <1>15, <2>1 DEF readRootToVerify, becomes
  <2>3. QED BY <1>15, <2>2 DEF readRootToVerify, commitVars
<1>16. ASSUME NEW h \in handlers, linkVerified(h) PROVE TypeOK'
  <2>1. h.rootRead \in Tree /\ h.object \in Objects /\ h.block \in Blocks
    BY DEF Handlers
  <2>2. root' \in Tree
    BY <1>16, <2>1 DEF linkVerified, Tree
  <2>3. QED BY <1>16, <2>2 DEF linkVerified, commitVars
<1>17. ASSUME NEW h \in handlers, linkThrows(h) PROVE TypeOK'
  BY <1>17 DEF linkThrows, commitVars
<1>18. CASE UNCHANGED vars
  BY <1>18 DEF vars
<1>19. QED
  BY <1>1, <1>2, <1>3, <1>5, <1>6, <1>7, <1>9, <1>10, <1>11, <1>12, <1>13, <1>14,
     <1>15, <1>16, <1>17, <1>18 DEF Next, Commit, Handler

-----------------------------------------------------------------------------
(* The parts of the invariant, step by step.                                *)

\* The steps of the masters and of the verifyBlock handlers.
Answering ==
  \/ \E m \in Masters, b \in Blocks : answer(m, b) \/ verifyBlock(m, b)
  \/ \E h \in handlers : Handler(h) \/ putNothing(h) \/ linkThrows(h)

\* They leave the commit thread and its queue alone.
LEMMA AnsweringLeaves ==
  Answering => UNCHANGED <<received, blocksToCommit, commitVars>>
  BY DEF Answering, Handler, answer, verifyBlock, putVerification, putNothing,
         readRootToVerify, linkVerified, linkThrows

\* Every step keeps the queue of blocks as QueueOK says.
LEMMA QueueStep == TypeOK /\ QueueOK /\ [Next]_vars => QueueOK'
<1> SUFFICES ASSUME TypeOK, QueueOK, [Next]_vars PROVE QueueOK'
  OBVIOUS
<1> USE DEF QueueOK, Locked
<1>1. CASE \E b \in Blocks : closeBlock(b)
  BY <1>1, AnnouncedSame DEF closeBlock, commitVars
<1>2. CASE startCommit
  BY <1>2, TopIs, AnnouncedSame DEF startCommit, TypeOK
<1>3. CASE addToTxTree \/ putBlock \/ readRoot \/ linkToRoot \/ commitThrows
  BY <1>3, AnnouncedSame DEF addToTxTree, putBlock, readRoot, linkToRoot, commitThrows
<1>4. CASE announceBlock
  <2>1. /\ current \in blocksToCommit /\ current \in Blocks
        /\ Top(blocksToCommit) = current
    BY <1>4, TopIsOne DEF announceBlock, TypeOK
  <2>2. PICK b \in Blocks : b = current
    BY <2>1
  <2>3. Announced' = Announced \cup {b}
    BY <1>4, <2>2, AnnouncedAppend DEF announceBlock, TypeOK
  <2>4. QED BY <1>4, <2>1, <2>2, <2>3 DEF announceBlock
<1>5. CASE Answering \/ UNCHANGED vars
  <2>1. UNCHANGED <<received, blocksToCommit, commitVars>>
    BY <1>5, AnsweringLeaves DEF vars, commitVars
  <2>2. QED BY <2>1, AnnouncedSame DEF commitVars
<1>6. QED BY <1>1, <1>2, <1>3, <1>4, <1>5 DEF Next, Commit, Answering

\* What a handler puts under a block's key is an object, unless a call failed, and
\* the number of failures only grows.
LEMMA AnsweringPuts ==
  ASSUME TypeOK, HandlersOK, Answering, NEW b \in Blocks
  PROVE  /\ failures' \in Nat /\ failures' >= failures
         /\ blockHash'[b] = NoObject => blockHash[b] = NoObject \/ failures' > 0
<1>1. ASSUME NEW m \in Masters, NEW c \in Blocks, answer(m, c) \/ verifyBlock(m, c)
      PROVE  blockHash' = blockHash /\ failures' \in Nat /\ failures' >= failures
  BY <1>1 DEF answer, verifyBlock, TypeOK
<1>2. ASSUME NEW h \in handlers, putVerification(h)
      PROVE  blockHash'[b] = NoObject => blockHash[b] = NoObject
  <2>1. h.object \in Seq(Masters) /\ h.by \in Masters
    BY DEF TypeOK, Handlers, Objects
  <2>2. verified(h) # NoObject
    BY <2>1 DEF verified, NoObject
  <2>3. QED BY <1>2, <2>2 DEF putVerification, TypeOK, Tree
<1>3. ASSUME NEW h \in handlers, putVerification(h) \/ readRootToVerify(h) \/ linkVerified(h)
      PROVE  failures' = failures
  BY <1>3 DEF putVerification, readRootToVerify, linkVerified
<1>4. ASSUME NEW h \in handlers, putNothing(h) \/ linkThrows(h)
      PROVE  failures' = failures + 1
  BY <1>4 DEF putNothing, linkThrows
<1>5. ASSUME NEW h \in handlers, readRootToVerify(h) \/ linkVerified(h) \/ linkThrows(h)
      PROVE  blockHash' = blockHash
  BY <1>5 DEF readRootToVerify, linkVerified, linkThrows
<1>6. CASE \E m \in Masters, c \in Blocks : answer(m, c) \/ verifyBlock(m, c)
  BY <1>1, <1>6
<1>7. CASE \E h \in handlers : Handler(h) \/ putNothing(h) \/ linkThrows(h)
  BY <1>2, <1>3, <1>4, <1>5, <1>7 DEF Handler, TypeOK
<1>8. QED BY <1>6, <1>7 DEF Answering

\* A block is stored before it is announced, whatever step is taken.
LEMMA StoredStep ==
  TypeOK /\ QueueOK /\ StoredOK /\ HandlersOK /\ [Next]_vars => StoredOK'
<1> SUFFICES ASSUME TypeOK, QueueOK, StoredOK, HandlersOK, [Next]_vars PROVE StoredOK'
  OBVIOUS
<1>0. Locked => current \in Blocks
  BY DEF QueueOK, TypeOK
<1>1. CASE (\E b \in Blocks : closeBlock(b)) \/ startCommit
  <2>1. /\ Announced' = Announced /\ blockHash' = blockHash /\ failures' = failures
        /\ txTree' = txTree /\ nextTx' >= 1
    BY <1>1, AnnouncedSame DEF closeBlock, startCommit, commitVars, StoredOK
  <2>2. CASE \E b \in Blocks : closeBlock(b)
    BY <2>1, <2>2 DEF closeBlock, commitVars, StoredOK, AnnouncedIsStored, Locked
  <2>3. CASE startCommit
    BY <2>1, <2>3 DEF startCommit, StoredOK, AnnouncedIsStored, Locked, Added
  <2>4. QED BY <1>1, <2>2, <2>3
<1>2. CASE addToTxTree
  <2>1. /\ Announced' = Announced /\ blockHash' = blockHash /\ failures' = failures
        /\ pc = "transactions" /\ current' = current
    BY <1>2, AnnouncedSame DEF addToTxTree
  <2>2. current \in Blocks /\ TxsOf[current] \in Seq(Txs)
    BY <1>0, <2>1, TxsAssumption DEF Locked
  <2>3. \A i \in DOMAIN TxsOf[current] : i < nextTx => TxsOf[current][i] \in txTree
    BY <2>1, <2>2 DEF StoredOK, Locked, Added, TypeOK
  <2>4. CASE nextTx <= Len(TxsOf[current])
    <3>1. txTree' = txTree \cup {TxsOf[current][nextTx]} /\ nextTx' = nextTx + 1 /\ pc' = pc
      BY <1>2, <2>4 DEF addToTxTree
    <3>2. \A i \in DOMAIN TxsOf[current] : i \in 1..(nextTx' - 1) => TxsOf[current][i] \in txTree'
      BY <2>2, <2>3, <3>1 DEF TypeOK
    <3>3. QED BY <2>1, <3>1, <3>2 DEF StoredOK, AnnouncedIsStored, Added, TypeOK
  <2>5. CASE ~(nextTx <= Len(TxsOf[current]))
    <3>1. txTree' = txTree /\ nextTx' = nextTx /\ pc' = "put"
      BY <1>2, <2>5 DEF addToTxTree
    <3>2. \A i \in DOMAIN TxsOf[current] : TxsOf[current][i] \in txTree
      BY <2>2, <2>3, <2>5 DEF TypeOK
    <3>3. QED BY <2>1, <3>1, <3>2 DEF StoredOK, AnnouncedIsStored
  <2>6. QED BY <2>4, <2>5
<1>3. CASE putBlock
  <2>1. current \in Blocks
    BY <1>0, <1>3 DEF putBlock, Locked
  <2>2. \A b \in Blocks : blockHash'[b] = IF b = current THEN <<Producer[current]>> ELSE blockHash[b]
    BY <1>3, <2>1 DEF putBlock, TypeOK, Tree
  <2>3. blockHash'[current] # NoObject /\ Announced \subseteq Blocks /\ Announced' = Announced
    BY <1>3, <2>1, <2>2, AnnouncedSame DEF putBlock, NoObject, QueueOK, TypeOK
  <2>4. QED
    BY <1>3, <2>1, <2>2, <2>3 DEF putBlock, StoredOK, AnnouncedIsStored, Locked, Added
<1>4. CASE readRoot \/ linkToRoot \/ commitThrows
  <2>1. /\ Announced' = Announced /\ blockHash' = blockHash /\ txTree' = txTree
        /\ current' = current /\ nextTx' = nextTx
    BY <1>4, AnnouncedSame DEF readRoot, linkToRoot, commitThrows
  <2>2. failures' = failures \/ (failures' = failures + 1 /\ pc' = "ended")
    BY <1>4 DEF readRoot, linkToRoot, commitThrows
  <2>3. pc' = "ended" \/ (pc' \in {"link", "announce"} /\ pc \in {"readRoot", "link"})
    BY <1>4 DEF readRoot, linkToRoot, commitThrows
  <2>4. QED
    BY <2>1, <2>2, <2>3 DEF StoredOK, AnnouncedIsStored, Locked, Added, TypeOK
<1>5. CASE announceBlock
  <2>1. current \in Blocks /\ pc = "announce"
    BY <1>0, <1>5 DEF announceBlock, Locked
  <2>2. PICK b \in Blocks : b = current
    BY <2>1
  <2>3. Announced' = Announced \cup {b}
    BY <1>5, <2>2, AnnouncedAppend DEF announceBlock, TypeOK
  <2>4. QED
    BY <1>5, <2>1, <2>2, <2>3 DEF announceBlock, StoredOK, AnnouncedIsStored, Locked, Added
<1>6. CASE Answering
  <2>1. /\ Announced' = Announced /\ txTree' = txTree /\ pc' = pc
        /\ current' = current /\ nextTx' = nextTx
    BY <1>6, AnsweringLeaves, AnnouncedSame DEF commitVars
  <2>2. ASSUME NEW b \in Blocks, blockHash[b] = NoObject => failures > 0, blockHash'[b] = NoObject
        PROVE  failures' > 0
    BY <1>6, <2>2, AnsweringPuts DEF TypeOK
  <2>3. \A b \in Announced : b \in Blocks
    BY DEF QueueOK, TypeOK
  <2>4. AnnouncedIsStored'
    BY <2>1, <2>2, <2>3 DEF StoredOK, AnnouncedIsStored
  <2>5. QED BY <1>0, <2>1, <2>2, <2>4 DEF StoredOK, Locked, Added
<1>7. CASE UNCHANGED vars
  BY <1>7 DEF vars, StoredOK, AnnouncedIsStored, Announced, Locked, Added
<1>8. QED
  BY <1>1, <1>2, <1>3, <1>4, <1>5, <1>6, <1>7 DEF Next, Commit, Answering

\* The steps of the commit thread and of closeBlock leave the handlers alone, and a
\* block that was announced stays so.
LEMMA CommitLeaves ==
  ASSUME TypeOK, QueueOK, (\E b \in Blocks : closeBlock(b)) \/ Commit \/ commitThrows
  PROVE  UNCHANGED <<answers, answered, handlers>> /\ Announced \subseteq Announced'
<1>1. CASE announceBlock
  <2>1. PICK b \in Blocks : b = current
    BY <1>1 DEF announceBlock, QueueOK, Locked, TypeOK
  <2>2. Announced' = Announced \cup {b}
    BY <1>1, <2>1, AnnouncedAppend DEF announceBlock, TypeOK
  <2>3. QED BY <1>1, <2>2 DEF announceBlock
<1>2. CASE \/ \E b \in Blocks : closeBlock(b)
           \/ startCommit \/ addToTxTree \/ putBlock \/ readRoot \/ linkToRoot \/ commitThrows
  BY <1>2, AnnouncedSame
  DEF closeBlock, commitVars, startCommit, addToTxTree, putBlock, readRoot, linkToRoot, commitThrows
<1>3. QED BY <1>1, <1>2 DEF Commit

\* A thread that goes on has the same answer to handle.
LEMMA Becomes ==
  ASSUME TypeOK, HandlersOK, NEW h \in handlers, NEW g \in Handlers,
         g.by = h.by, g.block = h.block, g.object # NoObject, becomes(h, g), 
         UNCHANGED <<answers, answered>>, Announced' = Announced
  PROVE  HandlersOK'
<1>1. handlers' = (handlers \ {h}) \cup {g}
  BY DEF becomes
<1>2. \A f \in handlers' : <<f.by, f.block>> \in answered \ answers /\ f.object # NoObject
  BY <1>1 DEF HandlersOK
<1>3. \A e, f \in handlers' : e.by = f.by /\ e.block = f.block => e = f
  BY <1>1 DEF HandlersOK
<1>4. QED BY <1>2, <1>3 DEF HandlersOK

\* What a handler stores is an object with at least its own verification.
LEMMA VerifiedIs ==
  ASSUME NEW h \in Handlers PROVE verified(h) # NoObject /\ verified(h) \in Objects
<1>1. h.object \in Seq(Masters) /\ h.by \in Masters
  BY DEF Handlers, Objects
<1>2. QED BY <1>1 DEF verified, NoObject, Objects

\* Every step leaves each answer in flight or with its one handler.
LEMMA HandlersStep == TypeOK /\ QueueOK /\ HandlersOK /\ [Next]_vars => HandlersOK'
<1> SUFFICES ASSUME TypeOK, QueueOK, HandlersOK, [Next]_vars PROVE HandlersOK'
  OBVIOUS
<1>1. CASE (\E b \in Blocks : closeBlock(b)) \/ Commit \/ commitThrows
  BY <1>1, CommitLeaves DEF HandlersOK
<1>2. ASSUME Answering PROVE Announced' = Announced
  BY <1>2, AnsweringLeaves, AnnouncedSame DEF commitVars
<1>3. ASSUME NEW m \in Masters, NEW b \in Blocks, answer(m, b) PROVE HandlersOK'
  <2>1. Announced' = Announced
    BY <1>2, <1>3 DEF Answering
  <2>2. /\ b \in Announced /\ <<m, b>> \notin answered /\ answered' = answered \cup {<<m, b>>}
        /\ answers' = answers \cup {<<m, b>>} /\ handlers' = handlers
    BY <1>3 DEF answer
  <2>3. <<m, b>>[2] = b
    OBVIOUS
  <2>4. QED BY <2>1, <2>2, <2>3 DEF HandlersOK
<1>4. ASSUME NEW m \in Masters, NEW b \in Blocks, verifyBlock(m, b) PROVE HandlersOK'
  <2>1. Announced' = Announced
    BY <1>2, <1>4 DEF Answering
  <2>2. /\ <<m, b>> \in answers /\ answers' = answers \ {<<m, b>>} /\ answered' = answered
    BY <1>4 DEF verifyBlock
  <2>3. CASE handlers' = handlers
    BY <2>1, <2>2, <2>3 DEF HandlersOK
  <2>4. CASE handlers' # handlers
    <3> DEFINE g == [by |-> m, block |-> b, at |-> "put", object |-> blockHash[b],
                     rootRead |-> EmptyTree]
    <3>1. handlers' = handlers \cup {g} /\ blockHash[b] # NoObject
      BY <1>4, <2>4 DEF verifyBlock
    <3>2. g.by = m /\ g.block = b /\ g.object # NoObject
      BY <3>1
    <3> HIDE DEF g
    <3>3. \A h \in handlers : ~(h.by = m /\ h.block = b)
      BY <2>2 DEF HandlersOK
    <3>4. <<m, b>> \in answered
      BY <2>2 DEF HandlersOK
    <3>5. \A f \in handlers' : <<f.by, f.block>> \in answered' \ answers' /\ f.object # NoObject
      BY <2>2, <3>1, <3>2, <3>4 DEF HandlersOK
    <3>6. \A e, f \in handlers' : e.by = f.by /\ e.block = f.block => e = f
      BY <3>1, <3>2, <3>3 DEF HandlersOK
    <3>7. QED BY <2>1, <2>2, <3>5, <3>6 DEF HandlersOK
  <2>5. QED BY <2>3, <2>4
<1>5. ASSUME NEW h \in handlers, putVerification(h) \/ readRootToVerify(h) PROVE HandlersOK'
  <2>1. Announced' = Announced
    BY <1>2, <1>5 DEF Answering, Handler
  <2>2. h \in Handlers /\ h.object # NoObject /\ UNCHANGED <<answers, answered>>
    BY <1>5 DEF TypeOK, HandlersOK, putVerification, readRootToVerify
  <2>3. CASE putVerification(h)
    <3> DEFINE g == [h EXCEPT !.at = "readRoot", !.object = verified(h)]
    <3>1. verified(h) # NoObject /\ verified(h) \in Objects
      BY <2>2, VerifiedIs
    <3>2. g \in Handlers /\ g.by = h.by /\ g.block = h.block /\ g.object = verified(h)
      BY <2>2, <3>1 DEF Handlers
    <3>3. becomes(h, g)
      BY <2>3 DEF putVerification
    <3> HIDE DEF g
    <3>4. QED BY <2>1, <2>2, <3>1, <3>2, <3>3, Becomes
  <2>4. CASE readRootToVerify(h)
    <3> DEFINE g == [h EXCEPT !.at = "link", !.rootRead = root]
    <3>1. g \in Handlers /\ g.by = h.by /\ g.block = h.block /\ g.object = h.object
      BY <2>2 DEF Handlers, TypeOK
    <3>2. becomes(h, g)
      BY <2>4 DEF readRootToVerify
    <3> HIDE DEF g
    <3>3. QED BY <2>1, <2>2, <3>1, <3>2, Becomes
  <2>5. QED BY <1>5, <2>3, <2>4
<1>6. ASSUME NEW h \in handlers, linkVerified(h) \/ putNothing(h) \/ linkThrows(h) PROVE HandlersOK'
  <2>1. Announced' = Announced
    BY <1>2, <1>6 DEF Answering, Handler
  <2>2. QED BY <1>6, <2>1 DEF linkVerified, putNothing, linkThrows, HandlersOK
<1>7. CASE UNCHANGED vars
  BY <1>7, AnnouncedSame DEF vars, HandlersOK
<1>8. QED BY <1>1, <1>3, <1>4, <1>5, <1>6, <1>7 DEF Next, Handler

\* An answer whose verification may be in an object is never handled again.
LEMMA SpentGrows ==
  ASSUME TypeOK, QueueOK, HandlersOK, [Next]_vars PROVE Spent \subseteq Spent'
<1> SUFFICES ASSUME NEW p \in Spent
             PROVE  /\ p \in answered' \ answers'
                    /\ \A h \in handlers' : h.at = "put" => p # <<h.by, h.block>>
  BY DEF Spent
<1>0. /\ p \in answered \ answers
      /\ \A h \in handlers : h.at = "put" => p # <<h.by, h.block>>
  BY DEF Spent
<1>1. CASE (\E b \in Blocks : closeBlock(b)) \/ Commit \/ commitThrows
  BY <1>0, <1>1, CommitLeaves
<1>2. ASSUME NEW m \in Masters, NEW b \in Blocks, answer(m, b)
      PROVE  /\ p \in answered' \ answers'
             /\ \A h \in handlers' : h.at = "put" => p # <<h.by, h.block>>
  BY <1>0, <1>2 DEF answer
<1>3. ASSUME NEW m \in Masters, NEW b \in Blocks, verifyBlock(m, b)
      PROVE  /\ p \in answered' \ answers'
             /\ \A h \in handlers' : h.at = "put" => p # <<h.by, h.block>>
  <2>1. /\ <<m, b>> \in answers /\ answers' = answers \ {<<m, b>>} /\ answered' = answered
    BY <1>3 DEF verifyBlock
  <2>2. \/ handlers' = handlers
        \/ handlers' = handlers \cup {[by |-> m, block |-> b, at |-> "put",
                                       object |-> blockHash[b], rootRead |-> EmptyTree]}
    BY <1>3 DEF verifyBlock
  <2>3. p # <<m, b>>
    BY <1>0, <2>1
  <2>4. QED BY <1>0, <2>1, <2>2, <2>3
<1>4. ASSUME NEW h \in handlers, putVerification(h) \/ readRootToVerify(h)
      PROVE  /\ p \in answered' \ answers'
             /\ \A f \in handlers' : f.at = "put" => p # <<f.by, f.block>>
  <2>1. /\ UNCHANGED <<answers, answered>> /\ h \in Handlers
        /\ \E g : g.at # "put" /\ handlers' = (handlers \ {h}) \cup {g}
    <3>1. h \in Handlers
      BY DEF TypeOK
    <3>2. [h EXCEPT !.at = "readRoot", !.object = verified(h)].at = "readRoot"
      BY <3>1 DEF Handlers
    <3>3. [h EXCEPT !.at = "link", !.rootRead = root].at = "link"
      BY <3>1 DEF Handlers
    <3>4. CASE putVerification(h)
      BY <3>1, <3>2, <3>4 DEF putVerification, becomes
    <3>5. CASE readRootToVerify(h)
      BY <3>1, <3>3, <3>5 DEF readRootToVerify, becomes
    <3>6. QED BY <1>4, <3>4, <3>5
  <2>2. QED BY <1>0, <2>1
<1>5. ASSUME NEW h \in handlers, linkVerified(h) \/ putNothing(h) \/ linkThrows(h)
      PROVE  /\ p \in answered' \ answers'
             /\ \A f \in handlers' : f.at = "put" => p # <<f.by, f.block>>
  BY <1>0, <1>5 DEF linkVerified, putNothing, linkThrows
<1>6. CASE UNCHANGED vars
  BY <1>0, <1>6 DEF vars
<1>7. QED BY <1>1, <1>2, <1>3, <1>4, <1>5, <1>6 DEF Next, Handler

\* No object is proper whoever has answered.
LEMMA ProperNothing == ASSUME NEW b, NEW S PROVE Proper(NoObject, b, S)
  BY DEF Proper

\* What was proper stays so while answers are spent.
LEMMA ProperStays ==
  ASSUME TypeOK, QueueOK, HandlersOK, ProperOK, [Next]_vars
  PROVE  /\ \A b \in Blocks : /\ Proper(blockHash[b], b, Spent') /\ Proper(root[b], b, Spent')
                              /\ Proper(rootRead[b], b, Spent')
         /\ \A h \in handlers : /\ Proper(h.object, h.block, Spent')
                                /\ \A b \in Blocks : Proper(h.rootRead[b], b, Spent')
  BY SpentGrows, ProperGrows, Zenon DEF ProperOK

\* The thread that puts its verification is the only one with that answer, so the
\* answer is in no object yet, and it is spent by the step.
LEMMA PutIsNew ==
  ASSUME TypeOK, HandlersOK, NEW h \in handlers, putVerification(h)
  PROVE  <<h.by, h.block>> \notin Spent /\ <<h.by, h.block>> \in Spent'
<1> DEFINE p == <<h.by, h.block>>
           g == [h EXCEPT !.at = "readRoot", !.object = verified(h)]
<1>1. h \in Handlers /\ h.at = "put" /\ p \in answered \ answers
  BY DEF TypeOK, HandlersOK, putVerification
<1>2. p \notin Spent
  BY <1>1 DEF Spent
<1>3. g.at = "readRoot" /\ handlers' = (handlers \ {h}) \cup {g}
  BY <1>1 DEF Handlers, putVerification, becomes
<1>4. answered' = answered /\ answers' = answers
  BY DEF putVerification
<1> HIDE DEF g
<1>5. \A f \in handlers' : f.at = "put" => f \in handlers /\ f # h
  BY <1>3
<1>6. \A f \in handlers' : f.at = "put" => ~(f.by = h.by /\ f.block = h.block)
  BY <1>5 DEF HandlersOK
<1>7. \A f \in handlers' : f.at = "put" => p # <<f.by, f.block>>
  BY <1>6
<1>8. QED BY <1>1, <1>2, <1>4, <1>7 DEF Spent

\* No step lets a master's verification be counted twice for a block.
LEMMA ProperStep ==
  TypeOK /\ QueueOK /\ HandlersOK /\ ProperOK /\ [Next]_vars => ProperOK'
<1> SUFFICES ASSUME TypeOK, QueueOK, HandlersOK, ProperOK, [Next]_vars PROVE ProperOK'
  OBVIOUS
<1> DEFINE OK(o, b) == Proper(o, b, Spent')
<1>0. /\ \A b \in Blocks : OK(blockHash[b], b) /\ OK(root[b], b) /\ OK(rootRead[b], b)
      /\ \A h \in handlers : OK(h.object, h.block) /\ \A b \in Blocks : OK(h.rootRead[b], b)
  BY ProperStays
<1>a. \A b \in Blocks : OK(<<Producer[b]>>, b) /\ OK(NoObject, b)
  BY ProperProducer, ProperNothing
<1> HIDE DEF OK
<1> SUFFICES /\ \A b \in Blocks : OK(blockHash'[b], b) /\ OK(root'[b], b) /\ OK(rootRead'[b], b)
             /\ \A h \in handlers' : /\ OK(h.object, h.block)
                                     /\ \A b \in Blocks : OK(h.rootRead[b], b)
  BY DEF ProperOK, OK
<1>b. Locked => current \in Blocks
  BY DEF QueueOK, TypeOK
<1>1. CASE (\E b \in Blocks : closeBlock(b)) \/ startCommit \/ addToTxTree \/ commitThrows
  <2>1. UNCHANGED <<blockHash, root, rootRead, handlers>>
    BY <1>1 DEF closeBlock, startCommit, addToTxTree, commitThrows, commitVars
  <2>2. QED BY <1>0, <2>1
<1>2. CASE putBlock
  <2>1. current \in Blocks /\ UNCHANGED <<root, rootRead, handlers>>
    BY <1>2, <1>b DEF putBlock, Locked
  <2>2. \A b \in Blocks : blockHash'[b] = IF b = current THEN <<Producer[b]>> ELSE blockHash[b]
    BY <1>2, <2>1 DEF putBlock, TypeOK, Tree
  <2>3. QED BY <1>0, <1>a, <2>1, <2>2
<1>3. CASE readRoot
  BY <1>0, <1>3 DEF readRoot
<1>4. CASE linkToRoot
  <2>1. current \in Blocks /\ UNCHANGED <<blockHash, rootRead, handlers>>
    BY <1>4, <1>b DEF linkToRoot, Locked
  <2>2. \A b \in Blocks : root'[b] = IF b = current THEN <<Producer[b]>> ELSE rootRead[b]
    BY <1>4, <2>1 DEF linkToRoot, TypeOK, Tree
  <2>3. QED BY <1>0, <1>a, <2>1, <2>2
<1>c. \A b \in Blocks : EmptyTree[b] = NoObject
  BY DEF EmptyTree
<1>5. CASE announceBlock
  BY <1>0, <1>a, <1>5, <1>c DEF announceBlock
<1>6. CASE \E m \in Masters, b \in Blocks : answer(m, b)
  BY <1>0, <1>6 DEF answer, commitVars
<1>7. CASE \E m \in Masters, b \in Blocks : verifyBlock(m, b)
  <2>1. PICK m \in Masters, b \in Blocks : verifyBlock(m, b)
    BY <1>7
  <2>2. UNCHANGED <<blockHash, root, rootRead>>
    BY <2>1 DEF verifyBlock, commitVars
  <2> DEFINE g == [by |-> m, block |-> b, at |-> "put", object |-> blockHash[b],
                   rootRead |-> EmptyTree]
  <2>3. handlers' \subseteq handlers \cup {g}
    BY <2>1 DEF verifyBlock
  <2>4. g.object = blockHash[b] /\ g.block = b /\ g.rootRead = EmptyTree
    OBVIOUS
  <2> HIDE DEF g
  <2>5. OK(g.object, g.block) /\ \A c \in Blocks : OK(g.rootRead[c], c)
    BY <1>0, <1>a, <1>c, <2>4
  <2>6. QED BY <1>0, <2>2, <2>3, <2>5
<1>8. ASSUME NEW h \in handlers, putVerification(h)
      PROVE  /\ \A b \in Blocks : OK(blockHash'[b], b) /\ OK(root'[b], b) /\ OK(rootRead'[b], b)
             /\ \A f \in handlers' : OK(f.object, f.block) /\ \A b \in Blocks : OK(f.rootRead[b], b)
  <2>1. h \in Handlers /\ h.block \in Blocks /\ h.by \in Masters /\ h.object \in Objects
    BY DEF TypeOK, Handlers
  <2>2. h.object # NoObject /\ Proper(h.object, h.block, Spent)
    BY DEF HandlersOK, ProperOK
  <2>3. OK(verified(h), h.block)
    BY <1>8, <2>1, <2>2, PutIsNew, SpentGrows, ProperAppend DEF verified, OK
  <2>4. UNCHANGED <<root, rootRead>>
    BY <1>8 DEF putVerification, commitVars
  <2>5. \A b \in Blocks : blockHash'[b] = IF b = h.block THEN verified(h) ELSE blockHash[b]
    BY <1>8, <2>1 DEF putVerification, TypeOK, Tree
  <2> DEFINE g == [h EXCEPT !.at = "readRoot", !.object = verified(h)]
  <2>6. handlers' = (handlers \ {h}) \cup {g}
    BY <1>8 DEF putVerification, becomes
  <2>7. g.object = verified(h) /\ g.block = h.block /\ g.rootRead = h.rootRead
    BY <2>1 DEF Handlers
  <2> HIDE DEF g
  <2>8. OK(g.object, g.block) /\ \A c \in Blocks : OK(g.rootRead[c], c)
    BY <1>0, <2>3, <2>7
  <2>9. QED BY <1>0, <2>3, <2>4, <2>5, <2>6, <2>8
<1>9. ASSUME NEW h \in handlers, readRootToVerify(h)
      PROVE  /\ \A b \in Blocks : OK(blockHash'[b], b) /\ OK(root'[b], b) /\ OK(rootRead'[b], b)
             /\ \A f \in handlers' : OK(f.object, f.block) /\ \A b \in Blocks : OK(f.rootRead[b], b)
  <2>1. h \in Handlers /\ UNCHANGED <<blockHash, root, rootRead>>
    BY <1>9 DEF TypeOK, readRootToVerify, commitVars
  <2> DEFINE g == [h EXCEPT !.at = "link", !.rootRead = root]
  <2>2. handlers' = (handlers \ {h}) \cup {g}
    BY <1>9 DEF readRootToVerify, becomes
  <2>3. g.object = h.object /\ g.block = h.block /\ g.rootRead = root
    BY <2>1 DEF Handlers
  <2> HIDE DEF g
  <2>4. OK(g.object, g.block) /\ \A c \in Blocks : OK(g.rootRead[c], c)
    BY <1>0, <2>3
  <2>5. QED BY <1>0, <2>1, <2>2, <2>4
<1>10. ASSUME NEW h \in handlers, putNothing(h)
       PROVE  /\ \A b \in Blocks : OK(blockHash'[b], b) /\ OK(root'[b], b) /\ OK(rootRead'[b], b)
              /\ \A f \in handlers' : OK(f.object, f.block) /\ \A b \in Blocks : OK(f.rootRead[b], b)
  <2>1. handlers' \subseteq handlers /\ UNCHANGED <<root, rootRead>>
    BY <1>10 DEF putNothing, commitVars
  <2>2. \A b \in Blocks : blockHash'[b] \in {NoObject, blockHash[b]}
    BY <1>10 DEF putNothing, TypeOK, Tree
  <2>3. QED BY <1>0, <1>a, <2>1, <2>2
<1>11. ASSUME NEW h \in handlers, linkVerified(h)
       PROVE  /\ \A b \in Blocks : OK(blockHash'[b], b) /\ OK(root'[b], b) /\ OK(rootRead'[b], b)
              /\ \A f \in handlers' : OK(f.object, f.block) /\ \A b \in Blocks : OK(f.rootRead[b], b)
  <2>1. handlers' \subseteq handlers /\ UNCHANGED <<blockHash, rootRead>>
    BY <1>11 DEF linkVerified, commitVars
  <2>2. h.rootRead \in Tree
    BY DEF TypeOK, Handlers
  <2>3. \A b \in Blocks : root'[b] = IF b = h.block THEN h.object ELSE h.rootRead[b]
    BY <1>11, <2>2 DEF linkVerified, Tree
  <2>4. QED BY <1>0, <2>1, <2>3
<1>12. CASE \E h \in handlers : linkThrows(h)
  BY <1>0, <1>12 DEF linkThrows, commitVars
<1>13. CASE UNCHANGED vars
  BY <1>0, <1>13 DEF vars
<1>14. QED
  BY <1>1, <1>2, <1>3, <1>4, <1>5, <1>6, <1>7, <1>8, <1>9, <1>10, <1>11, <1>12, <1>13
  DEF Next, Commit, Handler

-----------------------------------------------------------------------------
(* The theorems.                                                            *)

\* The node starts with the invariant, and maps to an empty log.
LEMMA CommitInit == Init => CommitInv /\ Promise!Init
<1> SUFFICES ASSUME Init PROVE CommitInv /\ Promise!Init
  OBVIOUS
<1> USE DEF Init
<1>1. EmptyTree \in Tree /\ \A b \in Blocks : EmptyTree[b] = NoObject
  BY DEF EmptyTree, Tree, Objects, NoObject
<1>2. TypeOK
  BY <1>1 DEF TypeOK
<1>3. Announced = {}
  BY DEF Announced
<1>4. QueueOK /\ StoredOK /\ HandlersOK
  BY <1>3 DEF QueueOK, StoredOK, HandlersOK, AnnouncedIsStored, Locked
<1>5. ProperOK
  BY <1>1, ProperNothing DEF ProperOK
<1>6. Promise!Init
  BY DEF Promise!Init
<1>7. QED BY <1>2, <1>4, <1>5, <1>6 DEF CommitInv

\* Every step keeps the whole invariant.
LEMMA CommitStep == CommitInv /\ [Next]_vars => CommitInv'
  BY TypeStep, QueueStep, StoredStep, HandlersStep, ProperStep DEF CommitInv

\* So it holds always.
LEMMA CommitInvariant == Spec => []CommitInv
<1>1. Init => CommitInv
  BY CommitInit
<1>2. QED BY <1>1, CommitStep, PTL DEF Spec

\* closeBlock accepts a block and announceBlock executes the one on top; no other
\* step changes the queue or the log.
LEMMA PromiseStep ==
  CommitInv /\ [Next]_vars => [Promise!Next]_<<blocksToCommit, committed>>
<1> SUFFICES ASSUME CommitInv, [Next]_vars PROVE [Promise!Next]_<<blocksToCommit, committed>>
  OBVIOUS
<1> USE DEF CommitInv
<1>1. Promise!Done = Announced
  BY DEF Promise!Done, Announced
<1>2. CASE \E b \in Blocks : closeBlock(b)
  <2>1. PICK b \in Blocks : closeBlock(b)
    BY <1>2
  <2>2. Promise!Accept(b)
    BY <1>1, <2>1 DEF Promise!Accept, closeBlock, commitVars, QueueOK
  <2>3. QED BY <2>2 DEF Promise!Next
<1>3. CASE announceBlock
  <2>1. PICK b \in Blocks : b = current
    BY <1>3 DEF announceBlock, QueueOK, Locked, TypeOK
  <2>2. b \in blocksToCommit /\ \A d \in blocksToCommit : NumberOf[b] <= NumberOf[d]
    BY <1>3, <2>1 DEF announceBlock, QueueOK, Locked
  <2>3. Top(blocksToCommit) = b
    BY <2>2, TopIsOne DEF TypeOK
  <2>4. blocksToCommit' = blocksToCommit \ {b} /\ committed' = Append(committed, b)
    BY <1>3, <2>1, <2>3 DEF announceBlock
  <2>5. Promise!Execute(b)
    BY <2>2, <2>4 DEF Promise!Execute
  <2>6. QED BY <2>5 DEF Promise!Next
<1>4. CASE startCommit \/ addToTxTree \/ putBlock \/ readRoot \/ linkToRoot \/ commitThrows
  BY <1>4 DEF startCommit, addToTxTree, putBlock, readRoot, linkToRoot, commitThrows
<1>5. CASE Answering \/ UNCHANGED vars
  BY <1>5, AnsweringLeaves DEF vars, commitVars
<1>6. QED BY <1>2, <1>3, <1>4, <1>5 DEF Next, Commit, Answering

\* The commit thread and closeBlock implement the abstract log: a block that was
\* received is committed once, and never before a lower number in the queue.
THEOREM CommitsInOrderCorrect == Spec => CommitsInOrder
<1>1. Init => Promise!Init
  BY CommitInit
<1>2. QED
  BY <1>1, CommitInvariant, PromiseStep, PTL DEF Spec, CommitsInOrder, Promise!Spec

\* A block the masters are asked to verify is stored with all its transactions,
\* unless a call of IPFS has failed.
THEOREM AnnouncedIsStoredCorrect == Spec => []AnnouncedIsStored
<1>1. CommitInv => AnnouncedIsStored
  BY DEF CommitInv, StoredOK
<1>2. QED BY <1>1, CommitInvariant, PTL

\* However the handlers of the masters' answers interleave and fail, a stored or linked
\* block has its producer's verification first, and an answer at most once.
THEOREM VerificationsAreProperCorrect == Spec => []VerificationsAreProper
<1>1. CommitInv => VerificationsAreProper
  <2>1. Spent \subseteq answered
    BY DEF Spent
  <2>2. QED BY <2>1 DEF CommitInv, ProperOK, Proper, VerificationsAreProper
<1>2. QED BY <1>1, CommitInvariant, PTL
=============================================================================
