----------------------- MODULE BlockProduction_proofs -----------------------
(***************************************************************************)
(* Proofs about how master nodes close and judge blocks, for any masters,  *)
(* producers, transactions and clock.                                      *)
(***************************************************************************)
EXTENDS BlockProduction, FiniteSetTheorems, TLAPS

-----------------------------------------------------------------------------
(* What every block is, whatever the clocks do.                             *)

\* A block was closed by a master and has the hash of what is in it; the maps hold
\* blocks that were closed, and what is on its way was sent.
HashOK ==
  /\ blocks \in [Masters -> SUBSET closed] /\ uncommitted \subseteq closed
  /\ \A b \in closed : b.hash = calculateBlockHash(b.number, b.previousHash, b.data, b.time)
  /\ \A b \in uncommitted : b.sent

\* What the Storage Node announces is a block that was sent to it.
NetOK ==
  \A msg \in net : \E b \in closed :
    b.by = msg.producer /\ b.sent /\ b.number = msg.number /\ b.hash = msg.signed

JudgeInv == HashOK /\ NetOK /\ ValidatedMeansSame

-----------------------------------------------------------------------------
(* What holds of the numbers while every loop keeps up with the seconds.    *)

\* Every loop has done its round in this second or in the last one, and in this one
\* if it is closing its block.
RoundsOK ==
  \A m \in Masters :
    /\ m \in running => lastRound[m] + 1 >= now
    /\ closing[m] => m \in running /\ lastRound[m] = now
    /\ nextBlockNumber[m] # 0 => m \in running

\* The stamp is in the DHT as soon as a block is closed; masters that look for it in the
\* same second and find nothing will put the same.
StampOK ==
  /\ genesisStamp = NoStamp => closed = {}
  /\ \A m \in Masters : closing[m] /\ nextBlockNumber[m] = 0 =>
       \/ seenStamp[m] # NoStamp /\ seenStamp[m] = genesisStamp
       \/ seenStamp[m] = NoStamp /\ genesisStamp \in {NoStamp, now}

\* The next number of a master is the one of the second after its last round.
NextOK ==
  \A m \in Masters : nextBlockNumber[m] # 0 =>
    /\ genesisStamp # NoStamp
    /\ nextBlockNumber[m] + genesisStamp = IF closing[m] THEN now ELSE lastRound[m] + 1

\* A master closes one block in a second, and sends it if the second is its turn.
ClosedOK ==
  \A b \in closed :
    /\ b.by \in running /\ b.time <= lastRound[b.by] /\ b.number + genesisStamp = b.time
    /\ closing[b.by] => b.time < now
    /\ b.sent => b.by = Producers[((b.time % 3600) % Len(Producers)) + 1]
    /\ \A c \in closed : c.by = b.by /\ c.time = b.time => c = b

TimelyOK == RoundsOK /\ StampOK /\ NextOK /\ ClosedOK

\* No stamp is from the future, whether or not the loops keep up.
ClockOK ==
  /\ overruns \in Nat
  /\ genesisStamp # NoStamp => genesisStamp <= now
  /\ \A m \in Masters : /\ lastRound[m] <= now
                        /\ seenStamp[m] # NoStamp => seenStamp[m] <= now

ProductionInv == TypeOK /\ ClockOK /\ JudgeInv /\ (overruns = 0 => TimelyOK)

-----------------------------------------------------------------------------
(* The operators.                                                           *)

\* The block that a master closes.
LEMMA BlockIs ==
  ASSUME NEW m
  PROVE  /\ getBlock(m).by = m /\ getBlock(m).number = getNextBlockNumber(m)
         /\ getBlock(m).previousHash = getPreviousHash(m) /\ getBlock(m).time = now
         /\ getBlock(m).data = drained[m] /\ getBlock(m).sent = isSent(m)
         /\ getBlock(m).hash = calculateBlockHash(getBlock(m).number, getBlock(m).previousHash,
                                                  getBlock(m).data, getBlock(m).time)
  BY DEF getBlock

\* The number of the next block is a natural number.
LEMMA NumberIs ==
  ASSUME TypeOK, ClockOK, NEW m \in Masters PROVE getNextBlockNumber(m) \in Nat
<1>1. nextBlockNumber[m] \in Nat /\ now \in Nat /\ seenStamp[m] \in Nat \cup {NoStamp}
  BY DEF TypeOK
<1>2. CASE nextBlockNumber[m] # 0
  BY <1>1, <1>2 DEF getNextBlockNumber
<1>3. CASE nextBlockNumber[m] = 0 /\ seenStamp[m] = NoStamp
  BY <1>3 DEF getNextBlockNumber, isFirst
<1>4. CASE nextBlockNumber[m] = 0 /\ seenStamp[m] # NoStamp
  <2>1. getNextBlockNumber(m) = now - seenStamp[m]
    BY <1>4 DEF getNextBlockNumber, isFirst
  <2>2. seenStamp[m] \in Nat /\ seenStamp[m] <= now
    BY <1>1, <1>4 DEF ClockOK
  <2>3. QED BY <1>1, <2>1, <2>2
<1>5. QED BY <1>2, <1>3, <1>4

\* A block is sent by the producer of its second.
LEMMA SentIs ==
  ASSUME NEW m, isSent(m) PROVE m = Producers[((now % 3600) % Len(Producers)) + 1]
<1>1. Len(blockProducers) >= 2 /\ getBlockProducerFor(now) = m
  BY DEF isSent, isBlockProducer
<1>2. blockProducers = Producers
  BY <1>1 DEF blockProducers
<1>3. QED BY <1>1, <1>2 DEF getBlockProducerFor, getSecondsPastHour

\* A block may be empty.
LEMMA EmptyData == <<>> \in Data
<1>1. Cardinality({}) = 0
  BY FS_EmptySet
<1>2. <<>> \in Sorted({})
  BY <1>1 DEF Sorted
<1>3. QED BY <1>2 DEF Data

\* Filing a block adds that block at most.
LEMMA InsertedIs ==
  ASSUME NEW m, NEW block PROVE inserted(m, block) \subseteq blocks[m] \cup {block}
  BY DEF inserted

-----------------------------------------------------------------------------
(* Types and clocks.                                                        *)

\* Every step keeps the types.
LEMMA TypeStep == TypeOK /\ ClockOK /\ HashOK /\ [Next]_vars => TypeOK'
<1> SUFFICES ASSUME TypeOK, ClockOK, HashOK, [Next]_vars PROVE TypeOK'
  OBVIOUS
<1> USE DEF TypeOK
<1>1. ASSUME NEW m \in Masters, boot(m) PROVE TypeOK'
  BY <1>1 DEF boot, blockVars
<1>2. ASSUME NEW m \in Masters, drainQueue(m) PROVE TypeOK'
  <2> DEFINE ready == {t \in queueOut[m] : TxTime[t] <= now}
  <2>1. PICK s \in Sorted(ready) : drained' = [drained EXCEPT ![m] = s]
    BY <1>2 DEF drainQueue
  <2>2. s \in Data
    BY <2>1 DEF Data
  <2>3. drained' \in [Masters -> Data]
    BY <2>1, <2>2
  <2>4. queueOut' \in [Masters -> SUBSET Txs]
    BY <1>2 DEF drainQueue
  <2>5. QED BY <1>2, <2>3, <2>4 DEF drainQueue, blockVars
<1>3. ASSUME NEW m \in Masters, timeToCloseBlock(m) PROVE TypeOK'
  <2> DEFINE block == getBlock(m)
  <2>1. block.by = m /\ block.number \in Nat /\ block.time = now /\ block.data = drained[m]
    BY BlockIs, NumberIs
  <2>2. block.sent \in BOOLEAN
    BY BlockIs DEF isSent, isBlockProducer
  <2>3. /\ nextBlockNumber' = [nextBlockNumber EXCEPT ![m] = block.number + 1]
        /\ blocks' = [blocks EXCEPT ![m] = inserted(m, block)]
        /\ closed' = closed \cup {block} /\ uncommitted' \subseteq uncommitted \cup {block}
        /\ uncommitted' \subseteq closed'
        /\ drained' = [drained EXCEPT ![m] = <<>>] /\ genesisStamp' \in {now, genesisStamp}
        /\ closing' = [closing EXCEPT ![m] = FALSE]
        /\ UNCHANGED <<now, running, lastRound, seenStamp, queueOut, verified>>
    BY <1>3 DEF timeToCloseBlock
  <2>4. inserted(m, block) \subseteq blocks[m] \cup {block}
    BY InsertedIs
  <2> HIDE DEF block
  <2>5. \A k \in Masters : blocks'[k] \subseteq closed'
    BY <2>3, <2>4 DEF HashOK
  <2>6. nextBlockNumber' \in [Masters -> Nat]
    BY <2>1, <2>3
  <2>7. \A b \in closed' : /\ b.by \in Masters /\ b.number \in Nat /\ b.time \in Nat
                           /\ b.data \in Data /\ b.sent \in BOOLEAN
    BY <2>1, <2>2, <2>3
  <2>8. drained' \in [Masters -> Data]
    BY <2>3, EmptyData
  <2>9. QED BY <2>3, <2>5, <2>6, <2>7, <2>8
<1>4. ASSUME NEW m \in Masters, NEW t \in Txs, queueTransaction(m, t) PROVE TypeOK'
  BY <1>4 DEF queueTransaction, roundVars, blockVars
<1>5. ASSUME NEW b \in uncommitted, commitBlock(b) PROVE TypeOK'
  BY <1>5 DEF commitBlock, roundVars, blockVars
<1>6. ASSUME NEW m \in Masters, NEW msg \in net, verifyBlock(m, msg) PROVE TypeOK'
  <2>1. \A k \in Masters : blocks'[k] \subseteq blocks[k]
    BY <1>6 DEF verifyBlock, HashOK
  <2>2. QED BY <1>6, <2>1 DEF verifyBlock, roundVars
<1>7. CASE tick
  BY <1>7 DEF tick, roundVars, blockVars
<1>8. CASE UNCHANGED vars
  BY <1>8 DEF vars
<1>9. QED BY <1>1, <1>2, <1>3, <1>4, <1>5, <1>6, <1>7, <1>8 DEF Next

\* No step makes a stamp from the future.
LEMMA ClockStep == TypeOK /\ ClockOK /\ [Next]_vars => ClockOK'
<1> SUFFICES ASSUME TypeOK, ClockOK, [Next]_vars PROVE ClockOK'
  OBVIOUS
<1>0. /\ now \in Nat /\ lastRound \in [Masters -> Nat]
      /\ seenStamp \in [Masters -> Nat \cup {NoStamp}] /\ genesisStamp \in Nat \cup {NoStamp}
  BY DEF TypeOK
<1> USE DEF ClockOK
<1>1. ASSUME NEW m \in Masters, boot(m) PROVE ClockOK'
  BY <1>0, <1>1 DEF boot, blockVars
<1>2. ASSUME NEW m \in Masters, drainQueue(m) PROVE ClockOK'
  BY <1>0, <1>2 DEF drainQueue, blockVars
<1>3. ASSUME NEW m \in Masters, timeToCloseBlock(m) PROVE ClockOK'
  BY <1>0, <1>3 DEF timeToCloseBlock
<1>4. CASE tick
  <2>1. now' = now + 1 /\ overruns' \in {overruns, overruns + 1}
        /\ UNCHANGED <<lastRound, seenStamp, genesisStamp>>
    BY <1>4 DEF tick, roundVars, blockVars
  <2>2. QED BY <1>0, <2>1
<1>5. CASE \/ \E m \in Masters, t \in Txs : queueTransaction(m, t)
           \/ \E b \in uncommitted : commitBlock(b)
           \/ \E m \in Masters, msg \in net : verifyBlock(m, msg)
           \/ UNCHANGED vars
  BY <1>5 DEF queueTransaction, commitBlock, verifyBlock, roundVars, blockVars, vars
<1>6. QED BY <1>1, <1>2, <1>3, <1>4, <1>5 DEF Next

-----------------------------------------------------------------------------
(* Judging.                                                                 *)

\* Blocks that were closed are never lost from the record.
LEMMA ClosedGrows == [Next]_vars => closed \subseteq closed'
  BY DEF Next, boot, drainQueue, timeToCloseBlock, queueTransaction, commitBlock, verifyBlock,
     tick, blockVars, vars

\* Every step leaves only closed blocks in the maps, each with the hash of what is in it.
LEMMA HashStep == TypeOK /\ HashOK /\ [Next]_vars => HashOK'
<1> SUFFICES ASSUME TypeOK, HashOK, [Next]_vars PROVE HashOK'
  OBVIOUS
<1>1. ASSUME NEW m \in Masters, timeToCloseBlock(m) PROVE HashOK'
  <2> DEFINE block == getBlock(m)
  <2>1. block.hash = calculateBlockHash(block.number, block.previousHash, block.data, block.time)
    BY BlockIs
  <2>2. /\ blocks' = [blocks EXCEPT ![m] = inserted(m, block)] /\ closed' = closed \cup {block}
        /\ uncommitted' = IF block.sent THEN uncommitted \cup {block} ELSE uncommitted
    BY <1>1 DEF timeToCloseBlock
  <2>3. inserted(m, block) \subseteq blocks[m] \cup {block}
    BY InsertedIs
  <2> HIDE DEF block
  <2>4. blocks' \in [Masters -> SUBSET closed']
    <3>1. inserted(m, block) \subseteq closed' /\ \A k \in Masters : blocks[k] \subseteq closed'
      BY <2>2, <2>3 DEF HashOK
    <3>2. QED BY <2>2, <3>1 DEF HashOK
  <2>5. uncommitted' \subseteq closed' /\ \A b \in uncommitted' : b.sent
    BY <2>2 DEF HashOK
  <2>6. QED BY <2>1, <2>2, <2>4, <2>5 DEF HashOK
<1>2. ASSUME NEW m \in Masters, NEW msg \in net, verifyBlock(m, msg) PROVE HashOK'
  <2>1. closed' = closed /\ uncommitted' = uncommitted
    BY <1>2 DEF verifyBlock
  <2>2. blocks' \in [Masters -> SUBSET closed]
    BY <1>2 DEF verifyBlock, HashOK
  <2>3. QED BY <2>1, <2>2 DEF HashOK
<1>3. CASE \E b \in uncommitted : commitBlock(b)
  BY <1>3 DEF commitBlock, blockVars, HashOK
<1>4. CASE \/ \E m \in Masters : boot(m) \/ drainQueue(m)
           \/ \E m \in Masters, t \in Txs : queueTransaction(m, t)
           \/ tick \/ UNCHANGED vars
  <2>1. UNCHANGED <<blocks, closed, uncommitted>>
    BY <1>4 DEF boot, drainQueue, queueTransaction, tick, blockVars, vars
  <2>2. QED BY <2>1 DEF HashOK
<1>5. QED BY <1>1, <1>2, <1>3, <1>4 DEF Next

\* Every announcement stays that of a block that was closed and sent.
LEMMA NetStep == TypeOK /\ HashOK /\ NetOK /\ [Next]_vars => NetOK'
<1> SUFFICES ASSUME TypeOK, HashOK, NetOK, [Next]_vars, NEW msg \in net'
             PROVE  \E b \in closed' : /\ b.by = msg.producer /\ b.sent
                                       /\ b.number = msg.number /\ b.hash = msg.signed
  BY DEF NetOK
<1>1. CASE msg \in net
  BY <1>1, ClosedGrows DEF NetOK
<1>2. CASE msg \notin net
  <2>1. \E b \in uncommitted : commitBlock(b)
    BY <1>2 DEF Next, boot, drainQueue, timeToCloseBlock, queueTransaction, verifyBlock, tick, vars
  <2>2. PICK b \in uncommitted : commitBlock(b)
    BY <2>1
  <2>3. PICK m \in M21 : msg = [to |-> m, number |-> b.number, producer |-> b.by,
                                signed |-> b.hash, tm |-> now, closedAt |-> b.time]
    BY <1>2, <2>2 DEF commitBlock
  <2>4. b \in closed /\ b.sent
    BY DEF HashOK
  <2>5. b.by = msg.producer /\ b.number = msg.number /\ b.hash = msg.signed
    BY <2>3
  <2>6. QED BY <2>4, <2>5, ClosedGrows
<1>3. QED BY <1>1, <1>2

\* A judgement that finds a block valid compared hashes, and a hash determines the
\* number, the history and the transactions.
LEMMA JudgedStep == TypeOK /\ JudgeInv /\ [Next]_vars => ValidatedMeansSame'
<1> SUFFICES ASSUME TypeOK, JudgeInv, [Next]_vars, NEW j \in judged', j.verdict
             PROVE  \E b \in closed' : /\ b.by = j.producer /\ b.sent /\ b.number = j.number
                                       /\ b.data = j.own.data
                                       /\ b.previousHash = j.own.previousHash
  BY DEF ValidatedMeansSame
<1>1. CASE j \in judged
  BY <1>1, ClosedGrows DEF JudgeInv, ValidatedMeansSame
<1>2. CASE j \notin judged
  <2>1. \E m \in Masters, msg \in net : verifyBlock(m, msg)
    BY <1>2 DEF Next, boot, drainQueue, timeToCloseBlock, queueTransaction, commitBlock, tick, vars
  <2>2. PICK m \in Masters, msg \in net : verifyBlock(m, msg)
    BY <2>1
  <2>3. PICK own \in blocks[m] :
          judged' = judged \cup
               {[by |-> m, number |-> msg.number, own |-> own, signed |-> msg.signed,
                 producer |-> msg.producer, closedAt |-> msg.closedAt,
                 mayProduce |-> MayProduce(m, msg),
                 verdict |-> MayProduce(m, msg) /\ SignatureVerifies(own, msg)]}
    BY <1>2, <2>2 DEF verifyBlock
  <2>4. j = [by |-> m, number |-> msg.number, own |-> own, signed |-> msg.signed,
             producer |-> msg.producer, closedAt |-> msg.closedAt,
             mayProduce |-> MayProduce(m, msg),
             verdict |-> MayProduce(m, msg) /\ SignatureVerifies(own, msg)]
    BY <1>2, <2>3
  <2>5. /\ j.producer = msg.producer /\ j.number = msg.number /\ j.own = own
        /\ own.hash = msg.signed
    BY <2>4 DEF SignatureVerifies
  <2>6. PICK b \in closed : /\ b.by = msg.producer /\ b.sent /\ b.number = msg.number
                            /\ b.hash = msg.signed
    BY DEF JudgeInv, NetOK
  <2>7. own \in closed
    BY DEF JudgeInv, HashOK
  <2>8. calculateBlockHash(own.number, own.previousHash, own.data, own.time)
          = calculateBlockHash(b.number, b.previousHash, b.data, b.time)
    BY <2>5, <2>6, <2>7 DEF JudgeInv, HashOK
  <2>9. own.data = b.data /\ own.previousHash = b.previousHash
    BY <2>8 DEF calculateBlockHash
  <2>10. QED BY <2>5, <2>6, <2>9, ClosedGrows
<1>3. QED BY <1>1, <1>2

-----------------------------------------------------------------------------
(* Numbering, while every loop keeps up.                                    *)

timelyVars == <<now, running, lastRound, closing, seenStamp, nextBlockNumber, genesisStamp, closed>>

\* A step that leaves numbers, stamps and rounds alone keeps the numbering.
LEMMA TimelyStays == TimelyOK /\ UNCHANGED timelyVars => TimelyOK'
  BY DEF TimelyOK, RoundsOK, StampOK, NextOK, ClosedOK, timelyVars

\* Types of what the numbering is about.
Typed ==
  /\ now \in Nat /\ lastRound \in [Masters -> Nat] /\ closing \in [Masters -> BOOLEAN]
  /\ seenStamp \in [Masters -> Nat \cup {NoStamp}] /\ genesisStamp \in Nat \cup {NoStamp}
  /\ nextBlockNumber \in [Masters -> Nat]
  /\ \A b \in closed : b.by \in Masters /\ b.number \in Nat /\ b.time \in Nat

\* A master that boots has closed nothing.
LEMMA BootStep ==
  ASSUME Typed, ClockOK, TimelyOK, NEW m \in Masters, boot(m) PROVE TimelyOK'
<1>1. /\ m \notin running /\ running' = running \cup {m}
      /\ \A k \in Masters : lastRound'[k] = IF k = m THEN now ELSE lastRound[k]
      /\ UNCHANGED <<now, closing, seenStamp, nextBlockNumber, genesisStamp, closed>>
  BY DEF boot, blockVars, Typed
<1>2. ~closing[m] /\ nextBlockNumber[m] = 0
  BY <1>1 DEF TimelyOK, RoundsOK
<1>3. RoundsOK'
  BY <1>1, <1>2 DEF TimelyOK, RoundsOK, Typed
<1>4. StampOK'
  BY <1>1 DEF TimelyOK, StampOK
<1>5. NextOK'
  BY <1>1, <1>2 DEF TimelyOK, NextOK
<1>6. \A b \in closed : b.by # m
  BY <1>1 DEF TimelyOK, ClosedOK
<1>7. ClosedOK'
  BY <1>1, <1>6 DEF TimelyOK, ClosedOK, Typed
<1>8. QED BY <1>3, <1>4, <1>5, <1>7 DEF TimelyOK

\* The loop that drains the queue keeps the numbering.
LEMMA DrainStep ==
  ASSUME Typed, ClockOK, TimelyOK, NEW m \in Masters, drainQueue(m) PROVE TimelyOK'
<1>1. /\ m \in running /\ ~closing[m] /\ now - lastRound[m] >= 1
      /\ \A k \in Masters : /\ lastRound'[k] = IF k = m THEN now ELSE lastRound[k]
                            /\ seenStamp'[k] = IF k = m THEN genesisStamp ELSE seenStamp[k]
      /\ UNCHANGED <<now, running, nextBlockNumber, genesisStamp, closed>>
  BY DEF drainQueue, Due, blockVars, Typed
<1>a. closing'[m] /\ \A k \in Masters : k # m => closing'[k] = closing[k]
  BY DEF drainQueue, Typed
<1>2. lastRound[m] + 1 = now
  BY <1>1 DEF TimelyOK, RoundsOK, Typed
<1>3. RoundsOK'
  BY <1>1, <1>a DEF TimelyOK, RoundsOK, Typed
<1>4. StampOK'
  BY <1>1, <1>a DEF TimelyOK, StampOK
<1>5. NextOK'
  BY <1>1, <1>2, <1>a DEF TimelyOK, NextOK, Typed
<1>6. ClosedOK'
  <2>1. \A b \in closed : b.by = m => b.time < now
    BY <1>2 DEF TimelyOK, ClosedOK, Typed
  <2>2. \A b \in closed : closing'[b.by] => b.time < now
    BY <1>a, <2>1 DEF TimelyOK, ClosedOK, Typed
  <2>3. \A b \in closed : b.time <= lastRound'[b.by]
    BY <1>1, <2>1 DEF TimelyOK, ClosedOK, Typed
  <2>4. QED BY <1>1, <2>2, <2>3 DEF TimelyOK, ClosedOK
<1>7. QED BY <1>3, <1>4, <1>5, <1>6 DEF TimelyOK

\* The number of the block a master closes is its age, and the stamp is in the DHT then.
LEMMA CloseNumber ==
  ASSUME Typed, ClockOK, TimelyOK, NEW m \in Masters, timeToCloseBlock(m)
  PROVE  /\ getNextBlockNumber(m) \in Nat /\ genesisStamp' \in Nat
         /\ getNextBlockNumber(m) + genesisStamp' = now
         /\ genesisStamp # NoStamp => genesisStamp' = genesisStamp
         /\ genesisStamp = NoStamp => genesisStamp' = now
<1>1. closing[m] /\ genesisStamp' = IF isFirst(m) THEN now ELSE genesisStamp
  BY DEF timeToCloseBlock
<1>2. NoStamp \notin Nat
  BY TimesAssumption
<1>3. CASE nextBlockNumber[m] # 0
  <2>1. genesisStamp # NoStamp /\ nextBlockNumber[m] + genesisStamp = now
    BY <1>1, <1>3 DEF TimelyOK, NextOK
  <2>2. genesisStamp' = genesisStamp /\ getNextBlockNumber(m) = nextBlockNumber[m]
    BY <1>1, <1>3 DEF isFirst, getNextBlockNumber
  <2>3. QED BY <2>1, <2>2 DEF Typed
<1>4. CASE nextBlockNumber[m] = 0 /\ seenStamp[m] = NoStamp
  <2>1. genesisStamp \in {NoStamp, now}
    BY <1>1, <1>4 DEF TimelyOK, StampOK
  <2>2. genesisStamp' = now /\ getNextBlockNumber(m) = 0
    BY <1>1, <1>4 DEF isFirst, getNextBlockNumber
  <2>3. QED BY <2>1, <2>2 DEF Typed
<1>5. CASE nextBlockNumber[m] = 0 /\ seenStamp[m] # NoStamp
  <2>1. seenStamp[m] = genesisStamp /\ genesisStamp <= now
    BY <1>1, <1>5 DEF TimelyOK, StampOK, ClockOK
  <2>2. genesisStamp' = genesisStamp /\ getNextBlockNumber(m) = now - seenStamp[m]
    BY <1>1, <1>5 DEF isFirst, getNextBlockNumber
  <2>3. QED BY <1>2, <1>5, <2>1, <2>2 DEF Typed
<1>6. QED BY <1>3, <1>4, <1>5 DEF Typed

\* The loop that closes a block keeps the numbering.
LEMMA CloseStep ==
  ASSUME Typed, ClockOK, TimelyOK, NEW m \in Masters, timeToCloseBlock(m) PROVE TimelyOK'
<1> DEFINE block == getBlock(m)
           number == getNextBlockNumber(m)
<1>1. /\ block.by = m /\ block.number = number /\ block.time = now
      /\ block.sent => m = Producers[((now % 3600) % Len(Producers)) + 1]
  BY BlockIs, SentIs
<1>2. /\ closing[m] /\ closed' = closed \cup {block}
      /\ nextBlockNumber'[m] = block.number + 1
      /\ \A k \in Masters : k # m => nextBlockNumber'[k] = nextBlockNumber[k]
      /\ ~closing'[m] /\ \A k \in Masters : k # m => closing'[k] = closing[k]
      /\ UNCHANGED <<now, running, lastRound, seenStamp>>
  BY DEF timeToCloseBlock, Typed
<1>3. /\ number \in Nat /\ genesisStamp' \in Nat /\ number + genesisStamp' = now
      /\ genesisStamp # NoStamp => genesisStamp' = genesisStamp
      /\ genesisStamp = NoStamp => genesisStamp' = now
  BY CloseNumber
<1>4. NoStamp \notin Nat
  BY TimesAssumption
<1> HIDE DEF block, number
<1>5. m \in running /\ lastRound[m] = now
  BY <1>2 DEF TimelyOK, RoundsOK
<1>6. RoundsOK'
  BY <1>2, <1>5 DEF TimelyOK, RoundsOK, Typed
<1>7. StampOK'
  <2>1. ASSUME NEW k \in Masters, closing'[k], nextBlockNumber'[k] = 0
        PROVE  \/ seenStamp'[k] # NoStamp /\ seenStamp'[k] = genesisStamp'
               \/ seenStamp'[k] = NoStamp /\ genesisStamp' \in {NoStamp, now'}
    BY <1>2, <1>3, <2>1 DEF TimelyOK, StampOK
  <2>2. QED BY <1>3, <1>4, <2>1 DEF StampOK
<1>8. NextOK'
  <2>1. ASSUME NEW k \in Masters, nextBlockNumber'[k] # 0
        PROVE  nextBlockNumber'[k] + genesisStamp' = IF closing'[k] THEN now' ELSE lastRound'[k] + 1
    <3>1. CASE k = m
      <4>1. nextBlockNumber'[k] = number + 1 /\ ~closing'[k] /\ lastRound'[k] = now
        BY <1>1, <1>2, <1>5, <3>1
      <4>2. number + 1 + genesisStamp' = now + 1
        BY <1>3
      <4>3. QED BY <4>1, <4>2
    <3>2. CASE k # m
      <4>1. nextBlockNumber'[k] = nextBlockNumber[k] /\ closing'[k] = closing[k]
        BY <1>2, <3>2
      <4>2. genesisStamp' = genesisStamp
        BY <1>3, <2>1, <4>1 DEF TimelyOK, NextOK
      <4>3. QED BY <1>2, <2>1, <4>1, <4>2 DEF TimelyOK, NextOK
    <3>3. QED BY <3>1, <3>2
  <2>2. QED BY <1>3, <1>4, <2>1 DEF NextOK
<1>9. ClosedOK'
  <2>1. closed # {} => genesisStamp' = genesisStamp
    BY <1>3 DEF TimelyOK, StampOK
  <2>2. ASSUME NEW b \in closed
        PROVE  /\ b.by \in running /\ b.time <= lastRound[b.by] /\ b.number + genesisStamp' = b.time
               /\ closing'[b.by] => b.time < now
               /\ b.by = m => b.time < now
               /\ b.sent => b.by = Producers[((b.time % 3600) % Len(Producers)) + 1]
    <3>1. b.by \in Masters /\ genesisStamp' = genesisStamp
      BY <2>1 DEF Typed
    <3>2. /\ b.by \in running /\ b.time <= lastRound[b.by] /\ b.number + genesisStamp' = b.time
          /\ closing[b.by] => b.time < now
          /\ b.sent => b.by = Producers[((b.time % 3600) % Len(Producers)) + 1]
      BY <3>1 DEF TimelyOK, ClosedOK
    <3>3. closing'[b.by] => b.time < now
      BY <1>2, <3>1, <3>2
    <3>4. b.by = m => b.time < now
      BY <1>2, <3>2
    <3>5. QED BY <3>2, <3>3, <3>4
  <2>3. \A b, c \in closed : c.by = b.by /\ c.time = b.time => c = b
    BY DEF TimelyOK, ClosedOK
  <2>4. \A b \in closed : ~(b.by = block.by /\ b.time = block.time)
    BY <1>1, <2>2 DEF Typed
  <2>5. \A b, c \in closed' : c.by = b.by /\ c.time = b.time => c = b
    BY <1>2, <2>3, <2>4
  <2>6. /\ block.by \in running /\ block.time <= lastRound[block.by]
        /\ block.number + genesisStamp' = block.time
        /\ closing'[block.by] => block.time < now
        /\ block.sent => block.by = Producers[((block.time % 3600) % Len(Producers)) + 1]
    <3>1. block.by = m /\ block.time = now /\ block.number = number
      BY <1>1
    <3>2. block.by \in running /\ block.time <= lastRound[block.by]
      BY <1>5, <3>1 DEF Typed
    <3>3. block.number + genesisStamp' = block.time
      BY <1>3, <3>1
    <3>4. closing'[block.by] => block.time < now
      BY <1>2, <3>1
    <3>5. block.sent => block.by = Producers[((block.time % 3600) % Len(Producers)) + 1]
      BY <1>1, <3>1
    <3>6. QED BY <3>2, <3>3, <3>4, <3>5
  <2>7. QED BY <1>2, <2>2, <2>5, <2>6 DEF ClosedOK
<1>10. QED BY <1>6, <1>7, <1>8, <1>9 DEF TimelyOK

\* The second passes when every loop has done its round.
LEMMA TickStep ==
  ASSUME Typed, ClockOK, TimelyOK, tick, overruns = 0, overruns' = 0 PROVE TimelyOK'
<1>1. /\ now' = now + 1
      /\ UNCHANGED <<running, lastRound, closing, seenStamp, nextBlockNumber, genesisStamp, closed>>
  BY DEF tick, roundVars, blockVars
<1>2. \A m \in running : ~closing[m] /\ ~Due(m)
  BY DEF tick
<1>3. \A m \in Masters : ~closing[m]
  BY <1>2 DEF TimelyOK, RoundsOK
<1>4. \A m \in Masters : m \in running => lastRound[m] = now
  BY <1>2 DEF Due, ClockOK, Typed
<1>5. RoundsOK'
  BY <1>1, <1>3, <1>4 DEF TimelyOK, RoundsOK, Typed
<1>6. StampOK' /\ NextOK'
  BY <1>1, <1>3 DEF TimelyOK, StampOK, NextOK
<1>7. ClosedOK'
  <2>1. \A b \in closed : ~closing[b.by]
    BY <1>3 DEF Typed
  <2>2. QED BY <1>1, <2>1 DEF TimelyOK, ClosedOK
<1>8. QED BY <1>5, <1>6, <1>7 DEF TimelyOK

\* Every step keeps the numbering while the loops keep up.
LEMMA TimelyStep ==
  TypeOK /\ ClockOK /\ (overruns = 0 => TimelyOK) /\ [Next]_vars => (overruns' = 0 => TimelyOK')
<1> SUFFICES ASSUME TypeOK, ClockOK, overruns = 0 => TimelyOK, [Next]_vars, overruns' = 0
             PROVE  TimelyOK'
  OBVIOUS
<1>1. overruns' \in {overruns, overruns + 1}
  BY DEF Next, boot, drainQueue, timeToCloseBlock, queueTransaction, commitBlock, verifyBlock,
     tick, vars
<1>2. overruns = 0 /\ TimelyOK
  BY <1>1 DEF ClockOK
<1>3. Typed
  BY DEF TypeOK, Typed
<1>4. CASE \E m \in Masters : boot(m)
  BY <1>2, <1>3, <1>4, BootStep
<1>5. CASE \E m \in Masters : drainQueue(m)
  BY <1>2, <1>3, <1>5, DrainStep
<1>6. CASE \E m \in Masters : timeToCloseBlock(m)
  BY <1>2, <1>3, <1>6, CloseStep
<1>7. CASE tick
  BY <1>2, <1>3, <1>7, TickStep
<1>8. CASE \/ \E m \in Masters, t \in Txs : queueTransaction(m, t)
           \/ \E b \in uncommitted : commitBlock(b)
           \/ \E m \in Masters, msg \in net : verifyBlock(m, msg)
           \/ UNCHANGED vars
  <2>1. UNCHANGED timelyVars
    BY <1>8 DEF queueTransaction, commitBlock, verifyBlock, roundVars, blockVars, vars, timelyVars
  <2>2. QED BY <1>2, <2>1, TimelyStays
<1>9. QED BY <1>4, <1>5, <1>6, <1>7, <1>8 DEF Next

-----------------------------------------------------------------------------
(* The theorems.                                                            *)

\* So the invariant holds always.
LEMMA ProductionInvariant == Spec => []ProductionInv
<1>1. Init => ProductionInv
  <2> SUFFICES ASSUME Init PROVE ProductionInv
    OBVIOUS
  <2>1. TypeOK
    BY EmptyData DEF Init, TypeOK
  <2>2. ClockOK
    BY DEF Init, ClockOK
  <2>3. HashOK /\ NetOK /\ ValidatedMeansSame
    BY DEF Init, HashOK, NetOK, ValidatedMeansSame
  <2>4. TimelyOK
    BY DEF Init, TimelyOK, RoundsOK, StampOK, NextOK, ClosedOK
  <2>5. QED BY <2>1, <2>2, <2>3, <2>4 DEF ProductionInv, JudgeInv
<1>2. ProductionInv /\ [Next]_vars => ProductionInv'
  BY TypeStep, ClockStep, HashStep, NetStep, JudgedStep, TimelyStep DEF ProductionInv, JudgeInv
<1>3. QED BY <1>1, <1>2, PTL DEF Spec

\* While every loop keeps up with the seconds, the number of a block is its age since
\* genesis, whenever its master booted and whoever put the stamp.
THEOREM NumberIsSecondsSinceGenesisCorrect == Spec => []NumberIsSecondsSinceGenesis
<1>1. ProductionInv => NumberIsSecondsSinceGenesis
  <2> SUFFICES ASSUME ProductionInv, overruns = 0, NEW b \in closed
               PROVE  b.number = b.time - genesisStamp
    BY DEF NumberIsSecondsSinceGenesis
  <2>1. b.number + genesisStamp = b.time /\ genesisStamp # NoStamp
    BY DEF ProductionInv, TimelyOK, ClosedOK, StampOK
  <2>2. b.number \in Nat /\ b.time \in Nat /\ genesisStamp \in Nat
    BY <2>1 DEF ProductionInv, TypeOK
  <2>3. QED BY <2>1, <2>2
<1>2. QED BY <1>1, ProductionInvariant, PTL

\* And no two blocks that are sent to the Storage Node have the same number: the same
\* number is the same second, and the second has one producer.
THEOREM OneBlockPerNumberCorrect == Spec => []OneBlockPerNumber
<1>1. ProductionInv => OneBlockPerNumber
  <2> SUFFICES ASSUME ProductionInv, overruns = 0, NEW b \in closed, NEW c \in closed,
                      b.sent, c.sent, b.number = c.number
               PROVE  b = c
    BY DEF OneBlockPerNumber
  <2>1. b.time = c.time
    BY DEF ProductionInv, TimelyOK, ClosedOK
  <2>2. b.by = c.by
    BY <2>1 DEF ProductionInv, TimelyOK, ClosedOK
  <2>3. QED BY <2>1, <2>2 DEF ProductionInv, TimelyOK, ClosedOK
<1>2. QED BY <1>1, ProductionInvariant, PTL

\* A master that finds a block valid holds the transactions and the history of the
\* block that the producer sent, whatever the clocks, the queues and the order in which
\* blocks are committed and judged.
THEOREM ValidatedMeansSameCorrect == Spec => []ValidatedMeansSame
<1>1. ProductionInv => ValidatedMeansSame
  BY DEF ProductionInv, JudgeInv
<1>2. QED BY <1>1, ProductionInvariant, PTL
=============================================================================
