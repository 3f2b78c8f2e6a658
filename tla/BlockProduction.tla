-------------------------- MODULE BlockProduction --------------------------
(***************************************************************************)
(* How master nodes close blocks.  Every second each master turns what it  *)
(* has queued into a block of its own, numbered from the genesis timestamp *)
(* in the DHT and chained to its previous block; only the block producer   *)
(* of that second sends its block to the Storage Node.  When the Storage   *)
(* Node announces a committed block, every master compares it with the     *)
(* block it closed itself under that number.                               *)
(*                                                                         *)
(* Sources: MasterNodeLib/MasterNodeLib.cpp (runLoop, timeToCloseBlock),   *)
(* MasterNodeLib/BlockUtil.cpp, MasterNode/main.cpp (verifyBlock).  The    *)
(* queue is filled as in TxVerification; the election is that of           *)
(* OpenVoting, here agreed upon; committing is detailed in BlockCommit.    *)
(***************************************************************************)
EXTENDS Naturals, Sequences, FiniteSets

CONSTANTS
  Masters,       \* master nodes
  Producers,     \* the elected ones, in the order of their numbers
  ElectionTime,  \* when blockProducers is filled
  Txs,           \* transactions
  TxTime,        \* TxTime[t]: the timestamp its origin gave it
  MaxSkew,       \* by how much the origin's clock may be ahead
  MaxBlocks,     \* size at which the blocks map is emptied (200)
  MaxOverruns,   \* bound on the seconds that pass before every loop did its round
  NoStamp,       \* no genesisStamp in the DHT
  MaxTime        \* bound on the clock

ASSUME MastersAssumption == Producers \in Seq(Masters) /\ Len(Producers) >= 2
ASSUME TimesAssumption == /\ ElectionTime \in Nat /\ MaxTime \in Nat /\ MaxSkew \in Nat
                          /\ MaxBlocks \in Nat /\ MaxOverruns \in Nat
                          /\ TxTime \in [Txs -> Nat] /\ NoStamp \notin Nat

VARIABLES
  now,              \* currentTimestamp; the clocks of the masters agree
  running,          \* the masters that have booted
  lastRound,        \* per master, lastRoundTimestamp
  closing,          \* per master, timeToCloseBlock is between drain and block
  drained,          \* per master, tempvect: the transactions of that block
  seenStamp,        \* per master, what dhtGet("genesisStamp") returned then
  queueOut,         \* per master, the transactions verified and not drained
  verified,         \* per master, the transactions it has verified
  nextBlockNumber,  \* per master
  previousHash,     \* per master
  blocks,           \* per master, its blocks map: the blocks not judged yet
  genesisStamp,     \* in the DHT
  dhtHash,          \* in the DHT under "hash"
  closed,           \* every block closed so far, by whom, and whether it was sent
  uncommitted,      \* blocks sent to the Storage Node and not committed yet
  net,              \* verifyBlock messages in flight, one per receiver
  judged,           \* the verifyBlock answers the masters sent
  overruns          \* the seconds that passed before every loop did its round

vars == <<now, running, lastRound, closing, drained, seenStamp, queueOut, verified,
          nextBlockNumber, previousHash, blocks, genesisStamp, dhtHash, closed,
          uncommitted, net, judged, overruns>>

roundVars == <<lastRound, closing, drained, seenStamp>>
blockVars == <<nextBlockNumber, previousHash, blocks, genesisStamp, dhtHash, closed>>

-----------------------------------------------------------------------------
M21 == {Producers[i] : i \in 1..Len(Producers)}

blockProducers == IF now >= ElectionTime THEN Producers ELSE <<>>

getSecondsPastHour(ts) == ts % 3600

\* The member of blockProducers whose turn it is at time ts.
getBlockProducerFor(ts) == blockProducers[(getSecondsPastHour(ts) % Len(blockProducers)) + 1]

isBlockProducer(m) == Len(blockProducers) >= 2 /\ getBlockProducerFor(now) = m

\* A hash is what it is computed from; <<>> is the empty string.
NoHash == <<>>
ZeroHash == <<0>>
calculateBlockHash(number, previous, data, time) == <<number, previous, time, data>>

\* compareTransactions: the orders std::sort may give, by timestamp.
Sorted(txs) ==
  LET idx == 1..Cardinality(txs)
  IN {s \in [idx -> txs] : \A i, j \in idx : i < j => s[i] # s[j] /\ TxTime[s[i]] <= TxTime[s[j]]}

Data == UNION {Sorted(txs) : txs \in SUBSET Txs}

\* Types of the state; a hash is left untyped.
TypeOK ==
  /\ now \in Nat /\ running \subseteq Masters
  /\ lastRound \in [Masters -> Nat] /\ closing \in [Masters -> BOOLEAN]
  /\ drained \in [Masters -> Data]
  /\ seenStamp \in [Masters -> Nat \cup {NoStamp}]
  /\ queueOut \in [Masters -> SUBSET Txs] /\ verified \in [Masters -> SUBSET Txs]
  /\ nextBlockNumber \in [Masters -> Nat]
  /\ genesisStamp \in Nat \cup {NoStamp}
  /\ \A m \in Masters : blocks[m] \subseteq closed
  /\ \A b \in closed : /\ b.by \in Masters /\ b.number \in Nat /\ b.time \in Nat
                       /\ b.data \in Data /\ b.sent \in BOOLEAN
  /\ uncommitted \subseteq closed

Init ==
  /\ now = 0 /\ running = {}
  /\ lastRound = [m \in Masters |-> 0] /\ closing = [m \in Masters |-> FALSE]
  /\ drained = [m \in Masters |-> <<>>] /\ seenStamp = [m \in Masters |-> NoStamp]
  /\ queueOut = [m \in Masters |-> {}] /\ verified = [m \in Masters |-> {}]
  /\ nextBlockNumber = [m \in Masters |-> 0]
  /\ previousHash = [m \in Masters |-> NoHash]
  /\ blocks = [m \in Masters |-> {}]
  /\ genesisStamp = NoStamp /\ dhtHash = NoHash
  /\ closed = {} /\ uncommitted = {} /\ net = {} /\ judged = {} /\ overruns = 0

-----------------------------------------------------------------------------
\* main: a master that is to vote boots before the election.
boot(m) ==
  /\ m \notin running /\ now < ElectionTime
  /\ running' = running \cup {m}
  /\ lastRound' = [lastRound EXCEPT ![m] = now]
  /\ UNCHANGED <<now, closing, drained, seenStamp, queueOut, verified, blockVars,
                 uncommitted, net, judged,
                 overruns>>

\* A transaction reaches verification on a master of m21 (checkVerification).
queueTransaction(m, t) ==
  /\ m \in M21 /\ now >= ElectionTime /\ now + MaxSkew >= TxTime[t]
  /\ t \notin verified[m]
  /\ verified' = [verified EXCEPT ![m] = @ \cup {t}]
  /\ queueOut' = [queueOut EXCEPT ![m] = @ \cup {t}]
  /\ UNCHANGED <<now, running, roundVars, blockVars, uncommitted, net, judged,
                 overruns>>

Due(m) == m \in running /\ ~closing[m] /\ now - lastRound[m] >= 1

\* timeToCloseBlock, the critical section: the transactions whose time has
\* come leave the queue.  Then getNextBlockNumber asks the DHT.
drainQueue(m) ==
  LET ready == {t \in queueOut[m] : TxTime[t] <= now}
  IN /\ Due(m)
     /\ lastRound' = [lastRound EXCEPT ![m] = now]
     /\ closing' = [closing EXCEPT ![m] = TRUE]
     /\ \E s \in Sorted(ready) : drained' = [drained EXCEPT ![m] = s]
     /\ queueOut' = [queueOut EXCEPT ![m] = @ \ ready]
     /\ seenStamp' = [seenStamp EXCEPT ![m] = genesisStamp]
     /\ UNCHANGED <<now, running, verified, blockVars, uncommitted, net, judged,
                 overruns>>

\* Mutant: a master that joins starts one block too far.
getNextBlockNumber_OneAhead(m) ==
  IF nextBlockNumber[m] # 0 THEN nextBlockNumber[m]
  ELSE IF seenStamp[m] = NoStamp THEN 0 ELSE now - seenStamp[m] + 1

\* The master that finds no genesisStamp is the first one.
isFirst(m) == nextBlockNumber[m] = 0 /\ seenStamp[m] = NoStamp

getNextBlockNumber(m) ==
  IF nextBlockNumber[m] # 0 THEN nextBlockNumber[m]
  ELSE IF isFirst(m) THEN 0 ELSE now - seenStamp[m]

getPreviousHash(m) ==
  IF previousHash[m] # NoHash THEN previousHash[m]
  ELSE IF dhtHash = NoHash THEN ZeroHash ELSE dhtHash

\* Mutant: every elected master sends its block.
isSent_Always(m) == Len(blockProducers) >= 2

\* The block producer sends; a Storage Node is taken to be registered.
isSent(m) == isBlockProducer(m)

\* BlockUtil::getBlock.
getBlock(m) ==
  LET number == getNextBlockNumber(m)
      previous == getPreviousHash(m)
  IN [by |-> m, number |-> number, previousHash |-> previous, time |-> now,
      data |-> drained[m], sent |-> isSent(m),
      hash |-> calculateBlockHash(number, previous, drained[m], now)]

\* The map insertion: a number that is there already is kept, and a master
\* that is not the producer empties a map that has grown too large first.
inserted(m, block) ==
  LET kept == IF ~block.sent /\ Cardinality(blocks[m]) > MaxBlocks THEN {} ELSE blocks[m]
  IN IF \E b \in kept : b.number = block.number THEN kept ELSE kept \cup {block}

\* The rest of timeToCloseBlock.
timeToCloseBlock(m) ==
  LET block == getBlock(m)
  IN /\ closing[m]
     /\ closing' = [closing EXCEPT ![m] = FALSE]
     /\ drained' = [drained EXCEPT ![m] = <<>>]
     /\ genesisStamp' = IF isFirst(m) THEN now ELSE genesisStamp
     /\ nextBlockNumber' = [nextBlockNumber EXCEPT ![m] = block.number + 1]
     /\ previousHash' = [previousHash EXCEPT ![m] = block.hash]
     /\ dhtHash' = block.hash
     /\ blocks' = [blocks EXCEPT ![m] = inserted(m, block)]
     /\ closed' = closed \cup {block}
     /\ uncommitted' = IF block.sent THEN uncommitted \cup {block} ELSE uncommitted
     /\ UNCHANGED <<now, running, lastRound, seenStamp, queueOut, verified, net, judged,
                    overruns>>

\* The Storage Node commits a block and announces its number, its producer's
\* key and signature; "tm" is the time of that message.  closedAt is not in it.
commitBlock(b) ==
  /\ b \in uncommitted
  /\ uncommitted' = uncommitted \ {b}
  /\ net' = net \cup {[to |-> m, number |-> b.number, producer |-> b.by,
                       signed |-> b.hash, tm |-> now, closedAt |-> b.time] : m \in M21}
  /\ UNCHANGED <<now, running, roundVars, queueOut, verified, blockVars, judged, overruns>>

\* Every entry of blockProducers holds the voter's public key, but a master's
\* own entry holds its id: it never matches the key of a block.
MayProduce(m, msg) ==
  getBlockProducerFor(msg.tm) = msg.producer /\ msg.producer # m

\* Mutant: the signature is not checked.
SignatureVerifies_Always(own, msg) == TRUE

\* verifyX509Signature(block.getHash(), s, publicKey): s signs the
\* producer's hash.
SignatureVerifies(own, msg) == own.hash = msg.signed

\* The verifyBlock handler.  The verdict is put in j["s"] after j was dumped:
\* every judged block is answered with the same data.
verifyBlock(m, msg) ==
  /\ msg.to = m
  /\ net' = net \ {msg}
  /\ \/ /\ \A b \in blocks[m] : b.number # msg.number
        /\ UNCHANGED <<judged, blocks>>
     \/ \E own \in blocks[m] :
          /\ own.number = msg.number
          /\ judged' = judged \cup
               {[by |-> m, number |-> msg.number, own |-> own, signed |-> msg.signed,
                 producer |-> msg.producer, closedAt |-> msg.closedAt,
                 mayProduce |-> MayProduce(m, msg),
                 verdict |-> MayProduce(m, msg) /\ SignatureVerifies(own, msg)]}
          /\ blocks' = [blocks EXCEPT ![m] = @ \ {own}]
  /\ UNCHANGED <<now, running, roundVars, queueOut, verified, nextBlockNumber,
                 previousHash, genesisStamp, dhtHash, closed, uncommitted, overruns>>

\* A second passes.  A master that is elected has booted by then.
tick ==
  /\ now < MaxTime
  /\ now + 1 = ElectionTime => M21 \subseteq running
  /\ IF \A m \in running : ~closing[m] /\ ~Due(m)
     THEN UNCHANGED overruns
     ELSE overruns < MaxOverruns /\ overruns' = overruns + 1
  /\ now' = now + 1
  /\ UNCHANGED <<running, roundVars, queueOut, verified, blockVars, uncommitted,
                 net, judged>>

Next ==
  \/ \E m \in Masters : boot(m) \/ drainQueue(m) \/ timeToCloseBlock(m)
  \/ \E m \in Masters, t \in Txs : queueTransaction(m, t)
  \/ \E b \in uncommitted : commitBlock(b)
  \/ \E m \in Masters, msg \in net : verifyBlock(m, msg)
  \/ tick

Spec == Init /\ [][Next]_vars

-----------------------------------------------------------------------------
(* Properties.                                                              *)

\* While every loop keeps up with the seconds, masters that boot in different
\* seconds before an election continue each other's numbering: the number of a block is its age
\* since genesis ("all a master node needs is the genesis timestamp",
\* BlockUtil.cpp:8).
NumberIsSecondsSinceGenesis ==
  overruns = 0 => \A b \in closed : b.number = b.time - genesisStamp

\* And no two blocks that are sent to the Storage Node have the same number.
OneBlockPerNumber ==
  overruns = 0 =>
    \A b, c \in closed : b.sent /\ c.sent /\ b.number = c.number => b = c

\* A master that finds a block valid holds the same block: the transactions
\* its producer committed, in the same order, on the same history.
ValidatedMeansSame ==
  \A j \in judged :
    j.verdict => \E b \in closed : /\ b.by = j.producer /\ b.sent /\ b.number = j.number
                                   /\ b.data = j.own.data
                                   /\ b.previousHash = j.own.previousHash

\* (violated) What every master has taken out of its queue is in a block that
\* was sent: queueOut holds "the transactions that should be committed to the
\* next block" (MasterNodeLib.cpp:14).
DrainedIsCommitted ==
  \A t \in Txs :
    (\A m \in M21 : t \in verified[m] \ queueOut[m] /\ ~closing[m]) =>
      \E b \in closed : b.sent /\ \E i \in 1..Len(b.data) : b.data[i] = t
=============================================================================
