---------------------------- MODULE BlockCommit ----------------------------
(***************************************************************************)
(* How the Storage Node commits blocks.  closeBlock handlers push the      *)
(* blocks they receive on a priority queue; the processBlocks thread       *)
(* commits the lowest number while it holds blockCommitMutex: transactions *)
(* into the transaction tree, the block object under its DHT key, a link   *)
(* from the root of the block tree, the announcement to master21, the pop. *)
(* Meanwhile every master's answer appends a verification to the stored    *)
(* block in a handler thread that takes no lock: it reads the object,      *)
(* writes it, reads the root and writes the root.                          *)
(*                                                                         *)
(* An object is stood for by its "v" list, the masters that signed it; the *)
(* empty list is the empty hash.  IPFS objects are named by their content, *)
(* so a DHT key and a link hold the object itself.                         *)
(*                                                                         *)
(* Source: StorageNode/StorageNode.cpp.                                    *)
(***************************************************************************)
EXTENDS Naturals, Sequences

CONSTANTS
  Blocks,       \* the blocks that block producers close
  NumberOf,     \* NumberOf[b]: its number, a different one for each
  Producer,     \* Producer[b]: the master that closed it
  TxsOf,        \* TxsOf[b]: the list of its transactions
  Masters,      \* the masters that are told about a committed block
  NoBlock,      \* the commit thread holds no block
  MaxFailures   \* bound on the calls of IPFS that fail

\* Blocks have different numbers, as BlockProduction shows while no loop falls
\* behind (OneBlockPerNumber).
ASSUME BlocksAssumption ==
  /\ NumberOf \in [Blocks -> Nat] /\ Producer \in [Blocks -> Masters]
  /\ \A b, c \in Blocks : NumberOf[b] = NumberOf[c] => b = c
  /\ DOMAIN TxsOf = Blocks /\ NoBlock \notin Blocks /\ MaxFailures \in Nat

Txs == UNION {{TxsOf[b][i] : i \in DOMAIN TxsOf[b]} : b \in Blocks}

ASSUME TxsAssumption == \A b \in Blocks : TxsOf[b] \in Seq(Txs)

VARIABLES
  received,        \* the blocks that closeBlock handlers have seen
  blocksToCommit,  \* the priority queue
  pc,              \* where processBlocks is; it has the lock unless "idle" or "ended"
  current,         \* the block it commits
  nextTx,          \* the transaction it adds next
  rootRead,        \* the root of the block tree it has read
  txTree,          \* the transactions linked from the transaction root
  blockHash,       \* per block, the object its DHT key leads to
  root,            \* per block, the object the block tree's root links to
  committed,       \* the blocks popped after their commit, in order
  answers,         \* verifyBlock answers of masters in flight
  handlers,        \* the threads of the verifyBlock handler
  answered,        \* the answers every master has sent
  failures         \* calls of IPFS that failed so far

vars == <<received, blocksToCommit, pc, current, nextTx, rootRead, txTree, blockHash,
          root, committed, answers, handlers, answered, failures>>

commitVars == <<pc, current, nextTx, rootRead, txTree, committed>>

-----------------------------------------------------------------------------
Objects == Seq(Masters)
NoObject == <<>>
Tree == [Blocks -> Objects]
EmptyTree == [b \in Blocks |-> NoObject]

Announced == {committed[i] : i \in 1..Len(committed)}

\* A handler thread: the answer it handles, its position and its copies.
Handlers == [by : Masters, block : Blocks, at : {"put", "readRoot", "link"},
             object : Objects, rootRead : Tree]

\* Types of the Storage Node's block state.
TypeOK ==
  /\ received \subseteq Blocks /\ blocksToCommit \subseteq Blocks
  /\ pc \in {"idle", "transactions", "put", "readRoot", "link", "announce", "ended"}
  /\ current \in Blocks \cup {NoBlock} /\ nextTx \in Nat
  /\ rootRead \in Tree /\ root \in Tree /\ blockHash \in Tree
  /\ txTree \subseteq Txs
  /\ committed \in Seq(Blocks)
  /\ answers \subseteq Masters \X Blocks /\ answered \subseteq Masters \X Blocks
  /\ handlers \subseteq Handlers
  /\ failures \in Nat

Init ==
  /\ received = {} /\ blocksToCommit = {} /\ pc = "idle" /\ current = NoBlock
  /\ nextTx = 1 /\ rootRead = EmptyTree /\ root = EmptyTree
  /\ txTree = {} /\ blockHash = EmptyTree
  /\ committed = <<>> /\ answers = {} /\ answered = {} /\ handlers = {}
  /\ failures = 0

-----------------------------------------------------------------------------
(* The processBlocks thread.                                                *)

\* OrderByBlockNumber: the block at the top of the queue.
Top(q) == CHOOSE b \in q : \A c \in q : NumberOf[b] <= NumberOf[c]

\* Mutant: the block is pushed without the lock.
closeBlock_NoLock(b) ==
  /\ b \notin received
  /\ received' = received \cup {b}
  /\ blocksToCommit' = blocksToCommit \cup {b}
  /\ UNCHANGED <<commitVars, blockHash, root, answers, handlers, answered, failures>>

\* The closeBlock handler waits for blockCommitMutex.
closeBlock(b) ==
  /\ b \notin received /\ pc \in {"idle", "ended"}
  /\ received' = received \cup {b}
  /\ blocksToCommit' = blocksToCommit \cup {b}
  /\ UNCHANGED <<commitVars, blockHash, root, answers, handlers, answered, failures>>

startCommit ==
  /\ pc = "idle" /\ blocksToCommit # {}
  /\ current' = Top(blocksToCommit)
  /\ nextTx' = 1
  /\ pc' = "transactions"
  /\ UNCHANGED <<received, blocksToCommit, rootRead, txTree, blockHash, root,
                 committed, answers, handlers, answered, failures>>

\* Mutant: the loop over the transactions stops one too early.
addToTxTree_SkipsLast ==
  /\ pc = "transactions"
  /\ IF nextTx < Len(TxsOf[current])
     THEN /\ txTree' = txTree \cup {TxsOf[current][nextTx]}
          /\ nextTx' = nextTx + 1
          /\ UNCHANGED pc
     ELSE pc' = "put" /\ UNCHANGED <<txTree, nextTx>>
  /\ UNCHANGED <<received, blocksToCommit, current, rootRead, blockHash, root,
                 committed, answers, handlers, answered, failures>>

\* The loop of addTransactions: this thread is the only one that writes the
\* transaction tree.
addToTxTree ==
  /\ pc = "transactions"
  /\ IF nextTx <= Len(TxsOf[current])
     THEN /\ txTree' = txTree \cup {TxsOf[current][nextTx]}
          /\ nextTx' = nextTx + 1
          /\ UNCHANGED pc
     ELSE pc' = "put" /\ UNCHANGED <<txTree, nextTx>>
  /\ UNCHANGED <<received, blocksToCommit, current, rootRead, blockHash, root,
                 committed, answers, handlers, answered, failures>>

\* The block object carries its producer's verification.
putBlock ==
  /\ pc = "put"
  /\ blockHash' = [blockHash EXCEPT ![current] = <<Producer[current]>>]
  /\ pc' = "readRoot"
  /\ UNCHANGED <<received, blocksToCommit, current, nextTx, rootRead, txTree, root,
                 committed, answers, handlers, answered, failures>>

\* linkToRoot: the root's hash is read from the DHT ...
readRoot ==
  /\ pc = "readRoot"
  /\ rootRead' = root
  /\ pc' = "link"
  /\ UNCHANGED <<received, blocksToCommit, current, nextTx, txTree, blockHash, root,
                 committed, answers, handlers, answered, failures>>

\* ... and the patched root is put in its place.
linkToRoot ==
  /\ pc = "link"
  /\ root' = [rootRead EXCEPT ![current] = <<Producer[current]>>]
  /\ pc' = "announce"
  /\ UNCHANGED <<received, blocksToCommit, current, nextTx, rootRead, txTree,
                 blockHash, committed, answers, handlers, answered, failures>>

\* Mutant: the thread ends after one block.
announceBlock_Once ==
  /\ pc = "announce"
  /\ committed' = Append(committed, current)
  /\ blocksToCommit' = blocksToCommit \ {Top(blocksToCommit)}
  /\ pc' = "ended" /\ current' = NoBlock /\ nextTx' = 1 /\ rootRead' = EmptyTree
  /\ UNCHANGED <<received, txTree, blockHash, root, answers, handlers, answered, failures>>

\* verifyBlock is sent to master21 and the top of the queue goes.
announceBlock ==
  /\ pc = "announce"
  /\ committed' = Append(committed, current)
  /\ blocksToCommit' = blocksToCommit \ {Top(blocksToCommit)}
  /\ pc' = "idle" /\ current' = NoBlock /\ nextTx' = 1 /\ rootRead' = EmptyTree
  /\ UNCHANGED <<received, txTree, blockHash, root, answers, handlers, answered, failures>>

\* A call of IPFS throws, or addObject returns the empty hash and the patch
\* that follows throws: nobody catches it, the thread ends and the lock is free.
commitThrows ==
  /\ pc \in {"transactions", "put", "link"} /\ failures < MaxFailures
  /\ failures' = failures + 1
  /\ pc' = "ended"
  /\ UNCHANGED <<received, blocksToCommit, current, nextTx, rootRead, txTree,
                 blockHash, root, committed, answers, handlers, answered>>

-----------------------------------------------------------------------------
(* The masters' answers and the verifyBlock handler.                        *)

\* A master answers an announcement once, or not at all.
answer(m, b) ==
  /\ b \in Announced /\ <<m, b>> \notin answered
  /\ answered' = answered \cup {<<m, b>>}
  /\ answers' = answers \cup {<<m, b>>}
  /\ UNCHANGED <<received, blocksToCommit, commitVars, blockHash, root, handlers, failures>>

\* The object is fetched; an empty hash or a failed fetch leads nowhere.
verifyBlock(m, b) ==
  /\ <<m, b>> \in answers
  /\ answers' = answers \ {<<m, b>>}
  /\ \/ /\ blockHash[b] # NoObject
        /\ handlers' = handlers \cup {[by |-> m, block |-> b, at |-> "put",
                                       object |-> blockHash[b], rootRead |-> EmptyTree]}
        /\ UNCHANGED failures
     \/ /\ blockHash[b] = NoObject
        /\ UNCHANGED <<handlers, failures>>
     \/ /\ failures < MaxFailures /\ failures' = failures + 1
        /\ UNCHANGED handlers
  /\ UNCHANGED <<received, blocksToCommit, commitVars, blockHash, root, answered>>

\* Thread h goes on as g.
becomes(h, g) == handlers' = (handlers \ {h}) \cup {g}

\* Mutant: the verifications are replaced, not extended.
verified_Replaces(h) == <<h.by>>

\* object_json["v"].push_back(block)
verified(h) == Append(h.object, h.by)

putVerification(h) ==
  /\ h.at = "put"
  /\ blockHash' = [blockHash EXCEPT ![h.block] = verified(h)]
  /\ becomes(h, [h EXCEPT !.at = "readRoot", !.object = verified(h)])
  /\ UNCHANGED <<received, blocksToCommit, commitVars, root, answers, answered, failures>>

\* addObject swallows the exception and returns the empty hash, which is put
\* under the block's key before linkToRoot throws.
putNothing(h) ==
  /\ h.at = "put" /\ failures < MaxFailures
  /\ failures' = failures + 1
  /\ blockHash' = [blockHash EXCEPT ![h.block] = NoObject]
  /\ handlers' = handlers \ {h}
  /\ UNCHANGED <<received, blocksToCommit, commitVars, root, answers, answered>>

readRootToVerify(h) ==
  /\ h.at = "readRoot"
  /\ becomes(h, [h EXCEPT !.at = "link", !.rootRead = root])
  /\ UNCHANGED <<received, blocksToCommit, commitVars, blockHash, root, answers,
                 answered, failures>>

linkVerified(h) ==
  /\ h.at = "link"
  /\ handlers' = handlers \ {h}
  /\ root' = [h.rootRead EXCEPT ![h.block] = h.object]
  /\ UNCHANGED <<received, blocksToCommit, commitVars, blockHash, answers, answered,
                 failures>>

linkThrows(h) ==
  /\ h.at = "link" /\ failures < MaxFailures
  /\ failures' = failures + 1
  /\ handlers' = handlers \ {h}
  /\ UNCHANGED <<received, blocksToCommit, commitVars, blockHash, root, answers, answered>>

Commit == startCommit \/ addToTxTree \/ putBlock \/ readRoot \/ linkToRoot \/ announceBlock

Handler(h) == putVerification(h) \/ readRootToVerify(h) \/ linkVerified(h)

Next ==
  \/ \E b \in Blocks : closeBlock(b)
  \/ Commit \/ commitThrows
  \/ \E m \in Masters, b \in Blocks : answer(m, b) \/ verifyBlock(m, b)
  \/ \E h \in handlers : Handler(h) \/ putNothing(h) \/ linkThrows(h)

Spec == Init /\ [][Next]_vars

\* processBlocks polls its queue all the time.
FairSpec == Spec /\ WF_vars(Commit)

-----------------------------------------------------------------------------
(* Properties.                                                              *)

\* A block is committed once, and never before a lower number that has been
\* received: the lock is held from top to pop.
Promise == INSTANCE CommandLog WITH
  Commands <- Blocks, KeyOf <- [b \in Blocks |-> "blocks"], Timestamp <- NumberOf,
  accepted <- blocksToCommit, log <- committed

CommitsInOrder == Promise!Spec

\* A block the masters are asked to verify can be read, unless a call of IPFS
\* failed under one of its handlers, and all its transactions were added.
AnnouncedIsStored ==
  \A b \in Announced : /\ blockHash[b] = NoObject => failures > 0
                       /\ \A i \in DOMAIN TxsOf[b] : TxsOf[b][i] \in txTree

\* However the handlers interleave or fail, a block that can be read or is linked has
\* its producer's verification first, and no answer in it twice.
VerificationsAreProper ==
  \A b \in Blocks : \A o \in {blockHash[b], root[b]} :
    o # NoObject => /\ o[1] = Producer[b]
                    /\ \A i, j \in 2..Len(o) : o[i] = o[j] => i = j
                    /\ \A i \in 2..Len(o) : <<o[i], b>> \in answered

\* A block that was received is committed at some time, whatever the masters'
\* answers do meanwhile, unless a failed call has ended the thread
\* ("Processes the blocks received by master node and commits to the IPFS",
\* StorageNode.cpp:1195).
BlockIsCommitted ==
  \A b \in Blocks : b \in received ~> b \in Announced \/ (pc = "ended" /\ failures > 0)
=============================================================================
