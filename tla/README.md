# A TLA+ model of the Decentralized Cloud block chain

This project models the nodes of the Sparkster Decentralized Cloud (Master
Node, Compute & Verifier Node, Storage Node), checks the models with TLC on
small instances, and proves all their safety properties but those of queries with
TLAPS for every instance. File and line references are to
`src/`; `PROJECT.json` maps every definition to the lines it models.

## 1. The system

A client sends a request over a web socket to one master node (the origin).
The masters of `m21`, elected every hour, verify the resulting transaction:
each hands the code to a verifier of its own choice, and each counts the result
hashes that all verifiers gossip to the channel `master21`. The origin's
verifier is the Compute Node: it keeps the state changes and sends the output.
A master whose copy is verified queues it for its block; the origin also answers
the client and tells the Compute Node to commit, which sends the state changes
to the Storage Node. Every second each master closes a block; the block producer
of that second sends its block to the Storage Node, which stores it in IPFS
and announces it, and the masters answer with their verifications.

Nodes exchange messages through OpenDHT: the body is put under a nonce, the
nonce is announced, and every message is handled in a thread of its own. There
is no order between messages, and a message can be lost.

| Part | State | Operations | Interacts with | What is hard |
|---|---|---|---|---|
| Transaction verification (`MasterNodeLib.cpp`, `MasterNode/main.cpp`, `transaction.cpp`) | `transactions`, `queueOut`, verifier and storage node registry | `processCodePacket`, `processIncomingTransaction`, `verifyTransaction`, `checkVerification`, the exception handler, `cleanupTransactionsMap` | clients, verifiers, other masters | results before the notification, clients that leave, exceptions that race results, cleanup under late results |
| Open voting (`MasterNodeLib.cpp`) | `randomNumbers`, `blockProducers`, `inVotingPhase`, `subscribedTo21` | the main loop's opening and closing of the interval, `registerVote` | other masters | two critical sections with a signature check between them, clocks that differ |
| Block production (`MasterNodeLib.cpp`, `BlockUtil.cpp`, `MasterNode/main.cpp`) | `blocks`, `nextBlockNumber`, `previousHash`, DHT keys `genesisStamp` and `hash` | `timeToCloseBlock`, `getBlock`, the `verifyBlock` handler | Storage Node, DHT | masters that boot at different times, a second that passes too early, judging by a later clock |
| Compute Node (`ComputeNode/main.cpp`, `JsProcessor.cpp`) | `rds`, `trs`, `dds`, one mutex and condition variable for all threads | `processRequest`, `executeJsCode`, `fetchDocument`, `updateDocumentMap`, `processStateChangeCmds` | masters, Storage Node | wake-ups, scripts that throw |
| State change queues (`StorageNode.cpp`, `Command.h`) | `stateChangeQueueMap`, a priority queue and a worker per key | `onStateChange`, `processStateUpdates` | Compute Nodes | top, execute, pop with the lock released in between; removal of an idle queue |
| Block commit (`StorageNode.cpp`) | the priority queue of blocks, the roots and objects in IPFS and the DHT | `closeBlock`, `processBlocks`, `addTransactions`, `linkToRoot`, `verifyBlock` | masters, IPFS | read-modify-write without a lock, failures of IPFS in the middle of a commit |
| Queries (`StorageNode.cpp`) | none of its own | infix to postfix to tree, binary search, comparisons, union and intersection | clients, Compute Nodes | precedence, boundaries of ranges, unsigned indices |
| Document store (`StorageNode.cpp`) | DHT entries of functions, templates and documents; a root per tree of functions, of templates, and of the documents of a template | `addChildNode`, `updateChildNode`, `deleteObject`, `createOrDeleteDocument`, `updateOrDeleteDocument`, `linkToRoot` | state change queues, clients, IPFS, DHT | several reads and writes per command without a lock, any of which may fail; the client is told in the middle |
| Messaging (`functions.cpp`) | `processedMessages`, `appStartupTime`, `dataHandlers` | `gossip`, `sendMessageWithRetry`, `dataHandler`, `processIncomingData` | everything | retries, duplicates, bodies that are not there, nodes that restart |
| Node registry (`functions.cpp`, `MasterNodeLib.cpp`) | `masterNodes`, `verifierNodes`, `storageNodes`, `verifierKeys`, `storageKeys`, the storage nodes in use | connection requests, `addNode`, `syncNodes`, `getBlockStorageNode`, `getStateChangeStorageNode`, `storageurl` | all nodes, DHT | reconnections, masters that boot and stop, agreement through a DHT key |
| Web socket server (`webSocketServer.cpp`) | `m_connections` | `onOpen`, `onMessage`, `onClose`, `send` | clients, message threads | connections that overlap, answers that race a close |

What makes each part correct: a transaction is queued once by every master that
verified it, and its client is answered once; all masters elect the same
producers; one block per number, in order, containing what was verified; a
command is executed once, in timestamp order; what a client was told is stored can
be found, and what was deleted stays deleted; a stored block is found again with
proper verifications; a query finds the documents it means; a message is handled
once by each node it is for; masters know the same nodes.

## 2. Modules

| Module | Models | Abstract specification |
|---|---|---|
| `TxVerification` | transaction verification on all masters, with verifiers, clients and network as environment | |
| `OpenVoting` | two rounds or more of the hourly election | |
| `BlockProduction` | the one-second rounds of all masters, and the judging of announced blocks | |
| `ComputeNode` | one Compute & Verifier Node with the threads of its requests | |
| `StateChangeQueue` | the queues of one Storage Node | `CommandLog` |
| `DocumentStore` | the state change commands, executed step by step by the workers of `StateChangeQueue`, which it extends | `CommandLog`, through the queues |
| `BlockCommit` | the commit thread and the `verifyBlock` handlers of one Storage Node | `CommandLog` |
| `FilterExpression` | the two conversions of a filter expression, token by token | the tree the expression was written from |
| `DocumentSearch` | a whole query: it extends `FilterExpression` and evaluates the tree | the set of documents it means |
| `Messaging` | messages between nodes that stop and start | |
| `WebSocketServer` | the connections of one node and the threads of its requests | |
| `NodeRegistry` | what all masters know of the other nodes | |
| `M_proofs` | the theorems about `M` (section 5), for `M` one of `TxVerification`, `OpenVoting`, `BlockProduction`, `ComputeNode`, `DocumentStore` (with `StateChangeQueue`), `BlockCommit`, `Messaging`; `RegistryAndServer_proofs` is about `NodeRegistry` and `WebSocketServer` | |

`CommandLog` says what a queue of the Storage Node promises: what was accepted is
executed once, and of the things accepted under one key the one with the lowest
timestamp goes first. `StateChangeQueue` (key: tenant and entity) and
`BlockCommit` (one key; the timestamp is the block number) are both shown to
implement it by refinement mappings. The first one is checked in `DocumentStore`,
where an execution takes many steps and other queues run in between: the last
step of a command is the queue's `executeStateChangeCommand`. The MC modules give
constants their values.

How the modules fit together: `TxVerification`, `OpenVoting`, `BlockProduction` and
`ComputeNode` take from `Messaging` that a message is handled at most once, from
`NodeRegistry` that a master comes to know the verifiers and storage nodes, and from
`WebSocketServer` that an answer reaches a client or throws. `DocumentStore` takes from
`DocumentSearch` which documents a filter matches.

Each action is one critical section, or one stretch of a handler between points
where another thread can be observed. In `TxVerification` a handler is a single
action where it holds `transactionsMutex` throughout; `processCodePacket` is
two, because it releases the lock before `sendToVerifier`. In `StateChangeQueue`,
`DocumentStore` and `BlockCommit` every access to a shared store is a step of its own.
`DocumentStore` keeps an object as the set of the commands that made it what it is
(an update merges into what it read), the empty set being the empty hash, and folds
the levels of a data tree (index, value, documents) into the links of the index `id`;
the patches of one document run on hashes nobody else has, and one `dhtPut` publishes
them. `WebSocketServer` splits `send` where `getDataFromKey` returns the handle.

Abstractions that all modules share:

- Signatures verify exactly when they were made for the message; a hash is the
  tuple of what it is computed from, or, for results, the result itself.
- The DHT is a register that returns what was last put, in `DocumentStore` and
  `BlockCommit`. In the code puts are not awaited, each gets a fresh id, and a get takes
  the last of the values it finds (`functions.cpp:308-322`), so an older root can be read;
  the properties of those modules are about what the Storage Node's threads do to each
  other on a DHT that keeps up. `NodeRegistry` lets a key hold several values: there
  masters put different ones under one key, and which one a get returns is the question.
- `BlockProduction`: masters boot in different seconds, but before the election the model
  follows. Two calls are joined with their neighbours: `dhtGet("hash")` with the `dhtPut`
  (`BlockUtil.cpp:24,48-51`), between which another master may put. Left out are the block
  of a producer that knows no block storage node, which is dropped
  (`MasterNodeLib.cpp:197-198`, `MasterNode/main.cpp:161-163`), and what the exception
  handler pushes on `queueOut` (`MasterNode/main.cpp:82,94`). None of these puts a block or a number
  there that the model does not have.
- `BlockCommit` assumes that blocks have different numbers (`BlocksAssumption`).
  `BlockProduction` gives that (`OneBlockPerNumber`) only while `overruns = 0`: a loop that
  falls behind numbers a block like an earlier one (`BlockUtil.cpp:20`), and the second
  commit then overwrites the DHT key of the first (`StorageNode.cpp:1011`).
- Messages are a set; one is delivered once, in any order, or lost. That a
  message is not handled twice is what `Messaging` checks.
- In `TxVerification` one model value stands for "enough storage nodes are
  registered"; `NodeRegistry` has the nodes themselves.
- `currentTimestamp` is a counter. `TxVerification` needs only "older than the
  lifetime"; `BlockProduction` counts seconds.
- Torn containers (data races on the structure of a map or a vector) are left
  out (`stateChangeQueueMap.at` in a new worker, `dds` in `updateDocumentMap`,
  `m_connections.erase` in `onClose`, `randomNumbers` in the main loop). Spurious wake-ups of
  `cv.wait` are left out as well: they are not guaranteed to happen.
- `stateChangeResponse` messages that a master forwards to a client are not
  counted among the replies to a request.

## 3. Runs

| Run | What it shows | Bounds |
|---|---|---|
| `tx_verify` | a verified copy is queued (`VerifiedIsQueued`), once (`QueuedOnce`); the client's answer has an output (`AnswerHasOutput`); `canCommit` reaches a node that holds the state changes (`CommitReachesHolder`) | 3 masters of m21, threshold 2 (the least for which masters can disagree about being complete), a fourth master outside m21 with a client of its own, a verifier that registers late, 1 lost message, 1 step of the cleanup's clock |
| `tx_exceptions` | one reply per client (`ClientAnsweredOnce`), and that every request is answered (`RequestIsAnswered`) and queued everywhere (`RequestIsQueuedEverywhere`), when one execution throws and the client leaves and returns | 3 masters, 1 transaction, 1 exception, 1 disconnection |
| `voting` | at most one vote per sender whatever is late or lost (`OneVotePerSender`); with timely votes the election is agreed, has no stale votes, and the channel matches it | 3 nodes for 2 seats, 2 rounds, 1 node that boots in voting time, at most `MaxUntimely` untimely events |
| `blocks` | numbers follow genesis, one sent block per number, and a validated block equals the validator's own (`ValidatedMeansSame`) | 2 masters that boot in different seconds, 4 seconds, 1 overrun, a `blocks` map that is emptied at 2 |
| `commit` | commits implement `CommandLog` (`CommitsInOrder`), announced blocks are stored, verifications are proper, every block is committed | 2 blocks (one with two transactions), 2 masters, 1 failure of IPFS anywhere |
| `compute` | one outcome per request, only computed state changes are applied, requests that fetch nothing end (`RequestIsAnswered`) | 3 requests of 2 transactions, two that fetch documents |
| `query` | from the text to the answer: the tree is the one meant (`TreeIsMeant`); answers are exact for present values, but for the documents equal to the value of `>` and `>=` (`PresentIsExact`); a filter of equalities never finds a document it does not mean, and finds all it means if it has no `\|`, or if its ids exist and no value is below all others (`EqualityIsExact`) | up to 4 documents with 3 values; all single comparisons, pairs with all operators, up to 4 nested comparisons, with needed or full parentheses |
| `documents` | index and DHT entry of a document agree (`IndexMatchesEntries`), deleted documents stay so (`DeletedStaysDeleted`), no update is taken back (`UpdatesAreKept`), what was answered becomes usable (`AnsweredIsUsable`); the queues implement `CommandLog` (`KeepsPromise`) and every command is executed (`CommandIsExecuted`), also one that comes while the worker removes its queue | sessions of up to 4 of 10 commands on up to 5 queues, equal and different timestamps, arrival in timestamp order per key, 1 command that meets a failure at each of its steps |
| `messages` | a message is handled at most once by a node (`HandledOnce`), is never lost on its way while fewer than three announcements failed (`MessageIsOnItsWay`), and is handled when the node and the body were there (`MessageIsHandled`) | 2 nodes, 2 failed announcements, 2 stops, 3 seconds, a body that lives 1 second, a restart that takes 1 |
| `websocket` | no entry outlives its connection (`NoStaleEntry`), a client that stays is answered (`RequestIsAnswered`) | 2 clients, 3 connections, 1 request, 1 client that opens a connection too early |
| `registry` | an index below the size of a map picks a node of that map, and any of them while no key is in the vector twice (`PickIsKnown`), masters use the same storage node (`StorageNodeAgreed`), a role's index finds a key (`ChosenIsFound`), what a master has to learn is known or on its way (`OwedIsOnItsWay`), a master that boots learns what the others know (`BootedMasterLearns`) | 2 masters, 2 verifiers, 2 storage nodes, 2 connection requests (of one node or of two), 1 stop, 1 early `storageurl`; the two roles of storage nodes share no state but the maps, so that one is enough, and the one for state changes has the higher index |

One run is expected to fail: it checks a sentence of the repository's own comments, and
TLC finds the steps after which it does not hold. Section 6 quotes the sentence.

| Run | **Violated** | Bounds |
|---|---|---|
| `block_tx_dropped` | `DrainedIsCommitted`: a transaction all masters drained is in no block that was sent | 2 masters, 1 transaction |

Nine other disagreements of section 6 have a configuration of their own, each for one
sentence of the text or comments. They are not among the runs of `PROJECT.json`;
`tlc -config <name>.cfg <module>` shows the counterexample within seconds.

| Configuration | Module | **Violated** | Bounds |
|---|---|---|---|
| `tx_lost_output` | `MCTxVerification` | `QueuedHasOutput`: the notification replaces an output that came before it by the empty one | as `tx_verify`, with 3 masters, 1 transaction, nothing lost |
| `voting_ties` | `MCOpenVoting` | `AgreedElection`, when two votes have the same number | as `voting`, with all votes timely |
| `voting_alone` | `MCOpenVoting` | `NotElectedByItself`: one node alone, in its second round | 1 node, 2 rounds |
| `compute_wakeup` | `MCComputeNode` | `DocumentIsTaken`: the wake-up is lost between test and sleep | as `compute` |
| `query_bounds` | `MCDocumentSearch` | `BoundsAreExact`: `>=` and `>` at the value itself | as `query` |
| `query_union` | `MCDocumentSearch` | `UnionHasBothSides`: a missing id takes the other side of `\|` with it | as `query` |
| `queue_order` | `MCDocumentStore` | `PoppedIsExecuted`, when commands arrive out of order | as `documents`, with `InOrder = FALSE` and no failure |
| `messages_restart` | `MCMessaging` | `HandledOnce`, when a restart takes no time | as `messages`, with `RestartTime = 0` |
| `registry_pick` | `NodeRegistry` | `AnyVerifierIsPicked`: after a verifier connected twice | 2 masters, 2 verifiers, 3 connection requests |

Runs switch deadlock checking off: the environment of each model is bounded
(requests, seconds, rounds, commands), and when it has stopped the nodes just wait.

The bounds are chosen so that each race of the hazards list fits: a race takes two
threads and at most one failure, and the third master, vote or command is the
bystander that must agree with them. Symmetry is used only in `tx_verify` (the
masters that are not origins are interchangeable, and no liveness is checked).

Properties that the code only keeps under a condition on the state carry it themselves,
so that one run covers both cases: `untimely = 0`, `overruns = 0`,
`closed > 0`, `failures > 0`, `failed`, `passedBy`, `overlapped`, `raced`. Conditions on
the constants are the instance's in a run and hypotheses of the theorem, and stand in the
comment of the property: distinct numbers and nobody alone in a round (`AgreedElection`,
`ChannelMatchesElection`; `VotesAreCurrent` needs the latter), `InOrder = TRUE` (`KeepsPromise`,
`CommandIsExecuted`), `RestartTime >= 1` (`HandledOnce`); the configurations `voting_ties`,
`voting_alone`, `queue_order` and `messages_restart` are the instances without them. Section 6 says
what happens otherwise. The safety properties of `documents` were also checked once with
any five of seven commands (7.6 million states), and `registry` with both roles up to
2.6 million states; those are too large for a run.

Every property has a mutant: an operator next to the definition it replaces,
marked "Mutant", that a plausible mistake in the code would amount to.

## 4. Fairness

Only steps the code takes on its own are fair. `TxVerification`: every received
message is handled in its own thread, `processCodePacket` continues, and
verifiers execute what they get (weak fairness); clients, losses, exceptions,
cleanup, clock and registration owe nothing. `StateChangeQueue` and
`BlockCommit`: the worker and commit threads poll in endless loops (weak
fairness). `ComputeNode`: threads that can run do; acquiring the mutex, which
other threads take again and again, is strongly fair, as a mutex that does not
starve its waiters gives. `DocumentStore`: each worker, in every step of a command.
`Messaging`: OpenDHT finishes the puts it was given and delivers what was announced,
and the threads of a node run; nothing makes a node send, stop or start.
`WebSocketServer`: the server notices a connection that was closed, and threads run.
`NodeRegistry`: messages are handled and `addNode` threads go on; storage nodes are
picked and nodes boot when they do. No fairness is assumed for failures.

## 5. Proofs

Each proof module proves theorems about its modules for any values of their constants (any sets
of nodes, transactions, commands, blocks, connections; any bounds, rounds and
seconds), from the named assumptions of the modules, which TLC evaluates on every run, and
from the hypotheses that stand in the theorem. No invariant below is inductive as it
stands; each proof names the strengthening, shows that the initial states have it
and that every action keeps it, part by part.

`TxVerification_proofs`
- `TypeCorrect`: `Spec => []TypeOK`, one step per action, from lemmas about the
  constructors, `toJson`/`fromJson`, `verifyHash`, `sendToVerifier` and
  `checkVerification`.
- `VerifiedIsQueuedCorrect`. A step must know that a copy with `computeNode` set is
  the origin's, that an answered copy is in the block and that a missing key is
  the default Transaction; `CopiesOK` adds that, per copy.
- `QueuedOnceCorrect`. The danger is the cleanup: it erases the copy and with it
  `inBlock`, and late results build a new one. `OnceInv` says why that copy cannot
  become verified: a copy is full only through the origin's constructor or through
  its one `txNotification`, which is consumed then (`NotesOK`, `FullOK`); so a queued
  transaction is "spent": its copy is in the block, or is not full with no
  notification on its way (`EntriesSpent`).
- `ClientAnsweredOnceCorrect`, `CommitReachesHolderCorrect`,
  `AnswerHasOutputCorrect`. `ExecutionInv`: what the origin's execution leads to is
  in one place at a time (a code delivery, the verifier, an output or an exception
  on its way: `OnePlace`), so after a reply nothing is left that could cause a second
  one (`AnsweredOK`). The last two theorems hold while nothing was thrown
  (`thrown = 0`); section 6 has the reason.

`OpenVoting_proofs`
- `OneVotePerSenderCorrect`, for votes that may be late or lost, if
  `Cardinality(Nodes) + 1 < SignatureLength`: `addVote` skips its second look when the
  list is as long as a signature, so the proof counts. All votes of others have
  different senders, and a node has at most two of its own (`OwnOK`).
- `OneSeatEachCorrect`, `VotesAreCurrentCorrect`, `AgreedElectionCorrect`,
  `ChannelMatchesElectionCorrect`, all about `untimely = 0`. `VotingInv` ties clock,
  round and phase of a loop together (`PhaseOK`). `TimelyOK` follows each vote: when a
  node opens a round all others are in that round and before its end (`SyncOK`), a vote
  is for the round its receiver holds votes of (`NetOK`, `CheckingOK`, `VotesOK`), and
  each one cast is held, at the check or on its way (`ArrivedOK`). So a node that closes
  holds exactly the votes of the participants and elects the first of a sorted list of
  them (`ElectedOK`). The last two need that there is one such list: at the first place
  where two differ, each would have the lower vote (`OneElection`).
  Hypotheses: `NobodyAlone` (no round has exactly one participant) and, for the last
  two, `NumbersDiffer`. The code guarantees neither; section 6 says what it does
  without them, and TLC refutes `AgreedElection` and `VotesAreCurrent` for two nodes
  one of which boots in voting time. The instance of `voting` satisfies both.

`BlockProduction_proofs`
- `NumberIsSecondsSinceGenesisCorrect`, `OneBlockPerNumberCorrect`: while
  `overruns = 0` a master's next number belongs to the second after its last round
  (`NextOK`), and masters that find no genesis stamp in the same second put the same
  one (`StampOK`).
- `ValidatedMeansSameCorrect`, whatever the clocks: equal hashes are hashes of equal
  contents (`HashOK`), and what is announced was sent by its producer (`NetOK`).

`ComputeNode_proofs`
- `OneOutcomeCorrect`, `OnlyComputedIsAppliedCorrect` (`ComputeInv`): a thread that is woken
  by mistake cannot end a request again, and state changes are kept only for what
  was computed here.

`DocumentStore_proofs`
- `KeepsPromiseCorrect`: the queues implement `CommandLog` (`InOrder => ...`). `QueueInv`:
  what is on top when a command is taken is on top when it is popped (`TopsOK`), and
  only the command to be popped has been executed (`OnceOK`). Without `InOrder` it is
  false (section 6).
- `StoreKeepsPromise`: so does the store, whose commands take many steps.
- `DeletedStaysDeletedCorrect`, `IndexMatchesEntriesCorrect`, `UpdatesAreKeptCorrect`, if
  `KeyOf = keyOf`, the key the code computes. All writers of a data tree but
  `deleteTemplate` share a queue, so what a worker read is what is there or what
  `deleteTemplate` left; `TreeInv` says this for the root, the worker's copy of
  it and the object it is about to link, with what failures change.
- `TargetsAssumption` was added to the module: a command names an object of the kind
  its operation is about.

`BlockCommit_proofs`
- `CommitsInOrderCorrect`: `Spec` implements `CommandLog`; the block being committed stays
  on top because nobody pushes while the lock is held (`QueueOK`).
- `AnnouncedIsStoredCorrect` (`StoredOK`: transactions are added in order, and an object
  that is missing means a failure).
- `VerificationsAreProperCorrect`. Objects are read, changed and written back by several
  handlers; `ProperOK` says of every copy, also those in the threads, that its
  verifications come from different answers no handler has still to put.

`Messaging_proofs`
- `HandledOnceCorrect`, if `RestartTime >= 1`: a node that forgot a message started,
  or will start, after it was sent (`OverOK`).

- `MessageIsOnItsWayCorrect`, the safety half of `MessageIsHandled`. `WayInv`: the
  announcement number `k` is under way only after `k - 1` failures (`RetriesOK`), so it
  is not given up before the third; a pair of node and message that is not passed by
  has a node that was ready since the message was sent, and handled it if it saw it
  (`ThereOK`), so none of the filters drops it.

`RegistryAndServer_proofs`, on the registry
- `PickIsKnownCorrect`. `RegistryInv` adds that maps and vectors hold the same keys, but for
  the empty one (`KeysMatchNodes`; duplicate pushes keep the set of keys what it is), what
  the messages carry (nodes, in finite sets) and that who is about to put has chosen
  (`PutOK`). The rest is counting: a vector is at least as long as it has keys, and
  exactly as long when none is in it twice; an index past it gives the empty key, which is
  then the one key the map has more.
- `StorageNodeAgreedCorrect`, `ChosenIsFoundCorrect`. `ChoiceInv`: in a role nobody raced
  for, at most one master is about to put (`OnlyPut`), and the choices made are the value
  in the DHT, or that of the one about to put it (`Settled`), unless the empty key is
  there. `ChosenIsFound` counts: the vector has at least as many entries as the map has
  nodes (but for the empty key), so the index, which is below that, is in it.
- `OwedIsOnItsWayCorrect`, the safety half of `BootedMasterLearns`. `OwedInv`: both masters
  are up, and the one that knew the node still does, so the `syncNodes` it is about to
  send has it; a master that stops owes nothing and is owed nothing.

`RegistryAndServer_proofs`, on the server
- `NoStaleEntryCorrect`, for any number of connections that overlap (`ServerInv`).
- `AnswerIsOnItsWayCorrect`, the safety half of `RequestIsAnswered`: no thread gives up on
  a client that keeps its connection. `AnswerInv`: a client
  that did not overlap has one connection that is not closed (`OneUnclosed`), which is
  the one filed once it greeted (`FiledOK`); so a thread that looks the client up finds
  the handle its request came over, and the send goes to an open connection
  (`AskedOK`).

Only model-checked:
- liveness, which is out of the prover's reach: `RequestIsAnswered`,
  `RequestIsQueuedEverywhere`, `CommandIsExecuted`, `BlockIsCommitted`, `AnsweredIsUsable`,
  `MessageIsHandled`, `BootedMasterLearns`;
- `TreeIsMeant`, `PresentIsExact`, `EqualityIsExact`: what the recursive operators of
  `FilterExpression` and `DocumentSearch` compute takes induction over data.

`MessageIsOnItsWay`, `OwedIsOnItsWay` and `AnswerIsOnItsWay` are what a lost message, request or answer would
break first; what stays with TLC of their liveness is that the steps left to do are taken.
The type invariant of each module is part of its inductive invariant and so holds wherever
a theorem does. `TypeCorrect`, `OneSeatEach` (timely votes have senders that are
different) and `AnswerIsOnItsWay` are theorems that no run repeats; TLC agreed with each
before it was proved.

## 6. Disagreements between the code and what is said about it

Ten have a run or a configuration of section 3, named in brackets. The others were found with TLC in the
same models, by stating the quoted sentence as an invariant; conditions of the
properties, or their absence, reflect them.

Transactions
- `transaction.cpp:152,159`: a notification that arrives after results overwrites
  hash and output with the origin's empty ones, while the count and
  `m_receivedOutput` stay. A block then holds a verified transaction without
  output ("the rest of the transaction will get filled in",
  `MasterNodeLib.cpp:429`) [`tx_lost_output.cfg`], and with nondeterministic code two masters can
  verify different hashes ("two thirds of m21 must agree", `README.md:45`).
- `MasterNode/main.cpp:82,94`: the exception handler queues without looking at
  `inBlock` ("so we don't add this transaction twice", `MasterNodeLib.cpp:466`).
  `QueuedOnce` is therefore about entries queued as verified.
- `MasterNode/main.cpp:70`: `setOutput("")` counts as a received output; if telling
  the client then throws, a later result answers the client with empty data ("the
  function output must have been received", `MasterNodeLib.cpp:448`).
  `AnswerHasOutput` is checked without exceptions.

Voting
- `MasterNodeLib.cpp:118`: equal sums are ordered by arrival, so nodes can
  disagree about the list ("every Master Node is able to tell straight away who should
  close the block", `README.md:86`) [`voting_ties.cfg`].
- `MasterNodeLib.cpp:294`: a vote whose signature is being checked while the
  interval closes counts in the next round (`README.md:79`).
- `MasterNodeLib.cpp:130`: the votes are cleared only after an election; a lone
  vote stays and makes two with the node's next one ("we don't want this node to
  vote itself in", `MasterNodeLib.cpp:116`) [`voting_alone.cfg`]. With timely votes too: `NobodyAlone` is a
  hypothesis of the theorems.

Blocks
- `MasterNodeLib.cpp:203`: a master that is not the producer drains its queue into a block
  it does not send; a transaction verified in different seconds can be in no block
  ("the transactions that should be committed to the next block", `:14`)
  [`block_tx_dropped`].
- `BlockUtil.cpp:24`: the first hash a master chains to is whatever any master put
  last in the DHT, so masters compute different hashes (`README.md:69`).
- `BlockUtil.cpp:20`: numbers are incremented per block; a loop that misses a second
  is one behind for ever (`BlockUtil.cpp:7-9`).
- `MasterNode/main.cpp:168`: the producer is looked up for the time of the
  announcement, not of the closing (`README.md:86`).
- `MasterNode/main.cpp:172`: the verdict is added to the JSON after it was encoded: a
  rejected block is answered like a validated one (`README.md:70`).

Storage
- `StorageNode.cpp:841`: `linkToRoot` writes back the root it read: a committed block
  can be unlinked by a `verifyBlock` handler ("Links the given object", `:823`).
- `StorageNode.cpp:1318`: two handlers append to the same object: a verification is
  lost (`README.md:45`); and a failed `addObject` returns the empty hash, which
  replaces the block's ("update DHT with new block hash", `:1317`).
- `StorageNode.cpp:1202`: an exception of IPFS ends the commit thread for good (`:1195`).

- `StorageNode.cpp:1190`: `pop()` removes whatever is on top after the execution: a command
  with a smaller timestamp that arrived meanwhile leaves the queue unexecuted ("Process all
  pending status updates", `:1148`) [`queue_order.cfg`].

Document store
- `StorageNode.cpp:831,841,855`: `linkToRoot` and `unLinkToRoot` write back the root they
  read; the add, update and delete queues of one tree lose each other's links, and a
  `dhtGet` that fails looks like a missing root, whose replacement has one link only.
- `StorageNode.cpp:795`: a document's worker that read the data root before
  `deleteTemplate` cleared it (`:944`) puts it back.
- `StorageNode.cpp:747,878`: clients are told before the index leads to the document, and
  before the template has a data tree: `addDocument` sent at once can get
  `MSG_TEMPLATE_NOT_FOUND`. When the client is gone, `send` throws, and the document is
  stored but never indexed.
- `StorageNode.cpp:739,747`: a text that is no JSON is answered with an exception and, being
  stored all the same, with its id.
- `StorageNode.cpp:697,705,911`: the empty string a search returns is not `empty()`: indexing
  it throws; an update of an id that is not linked throws in `map.at`. Nobody is told.

Messaging
- `functions.cpp:442`: a message sent in the very second a node started again passes the
  age filter, and the duplicate filter was lost: it is handled twice ("in case we
  get a repeated message", `:17`) [`messages_restart.cfg`].
- `functions.cpp:450,482`: a message that arrives before `registerDataHandlers` is marked as
  seen and handled by nobody; a Storage Node subscribes before (`StorageNode.cpp:1266`).
- `functions.cpp:206,250`: the body is not waited for; who fetches it too early drops the
  message, and nothing tries again.

Node registry and web sockets
- `MasterNodeLib.cpp:499,353`: two masters that find the DHT key empty choose for
  themselves and keep their choice.
- `functions.cpp:377,382`: reconnections and `syncNodes` push keys again, so that an index
  below the size of the map does not reach the last nodes ("Used to select a random
  verifier", `:15`; "select a random verifier node", `README.md:64`) [`registry_pick.cfg`],
  and both roles can fall on one storage node.
- `MasterNode/main.cpp:124`: indices start at 1, so the first storage node is never given
  out; with one storage node the range is empty, and the look-up of the empty key adds
  it to the map, from where `syncNodes` spreads it.
- `webSocketServer.cpp:31`: a client that connects again before the old connection closed
  is not filed; when the old one closes, its entry goes and its requests are dropped.

Compute Node
- `ComputeNode/main.cpp:142`: `updateDocumentMap` changes `dds` and notifies without the
  mutex of `cv.wait`: the wake-up between test and sleep is lost ("Wait until receive
  notification", `:168`) [`compute_wakeup.cfg`].
- `ComputeNode/main.cpp:93,41`: a request whose script throws or whose function is
  missing stays in memory ("erase data from local memory", `:89`).

Queries
- `StorageNode.cpp:184`: quotes are cut off numbers too (`:102`).
- `StorageNode.cpp:267`: a value below all others drives the unsigned index below 0
  (`README.md:109`).
- `StorageNode.cpp:619`: a missing id yields a JSON string, which is not `empty()`; the
  union throws and the other side is lost ("Remove duplicates from the both the result
  sets and return result set", `:618`) [`query_union.cfg`].
- `StorageNode.cpp:399,386`: `>` keeps the last equal document, `>=` only the last
  of them (`:394`, `:383`; "anyone whose age is greater than or equal to thirty years",
  `examples.md:238`, of a filter with `>=`) [`query_bounds.cfg`].
- `StorageNode.cpp:365`: comparisons with absent values find nothing (`:361`).
- `StorageNode.cpp:499,508`: a comparison of `id` other than `=` looks among the links of the
  index, of which there is one, and finds nothing; with an operand that sorts before
  that link it tries to read it as a document and throws.

## 7. Not modelled

Cryptography, logging, command line, JSON and IPFS client libraries; V8 and the
scripts (a script fetches or not, returns or throws); `IncomingMessage` and the
`Block` class of the Storage Node, which no code uses; `gossip.cpp`, the protocol the
build does not select; the handlers that only look something up
(`stateChangeResponse`, `fetchFunction`, `fetchTemplate`); `masternodes.dat` and the
transaction ids that `linkToRoot` puts in the DHT, which nobody reads. A client
announces one key per connection.

Of the nodes' own code the map covers about 95% of `MasterNodeLib.cpp`, 80% of
`StorageNode.cpp`, `BlockUtil.cpp` and `webSocketServer.cpp`, and a good half of the two
other `main.cpp`. Most of the repository by lines is code of others (`shared/`: JSON,
GnuTLS, OpenDHT, Ed25519, and `wingetopts.cpp`), of which no behaviour is claimed.

## 8. Plan

Order: the most important behaviour first. Done: verification, elections, blocks,
queues, the document store, commits, the Compute Node, whole queries, messaging, the
node registry, the web socket server; the theorems of section 5, which cover every
safety property of the runs but those of the queries.

Next: the operators of queries that can be stated without recursion (the binary search
keeps its boundaries).
