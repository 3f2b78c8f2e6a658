----------------------------- MODULE OpenVoting -----------------------------
(***************************************************************************)
(* The hourly election of the master nodes m21.  When a node's clock       *)
(* enters the voting interval its main loop signs the agreed timestamp,    *)
(* files its own vote and gossips it; votes of others are registered by    *)
(* handler threads in two critical sections with the signature check in    *)
(* between; when the interval has passed the main loop sorts the votes,    *)
(* takes the TotalMasterNodes lowest numbers as the block producers of the *)
(* next hour, clears the votes and joins or leaves the channel master21.   *)
(*                                                                         *)
(* Sources: MasterNodeLib/MasterNodeLib.cpp, MasterNodeLib.h (Voter).      *)
(***************************************************************************)
EXTENDS Naturals, Sequences, FiniteSets

CONSTANTS
  Nodes,             \* master nodes
  Number,            \* Number[n][r]: the number n's signature of round r sums to
  TotalMasterNodes,  \* TOTAL_MASTER_NODES
  SignatureLength,   \* how many characters a signature has
  LateNodes,         \* the nodes that boot during the first voting interval
  MaxRound,          \* bound on the rounds
  MaxUntimely        \* bound on the votes lost and the intervals that pass too early

ASSUME NumberAssumption == Number \in [Nodes -> [1..MaxRound -> Nat]]
ASSUME SizeAssumption == /\ TotalMasterNodes \in Nat \ {0} /\ MaxRound \in Nat \ {0}
                         /\ SignatureLength \in Nat
ASSUME LateAssumption == LateNodes \subseteq Nodes /\ MaxUntimely \in Nat

VARIABLES
  clock,            \* per node, the interval of local time: 2r - 1 is the
                    \* voting interval of round r, 2r the rest of the hour after it
  round,            \* nextVotingTimestampStr, as the round it belongs to
  inVotingPhase,    \* per node
  ignore,           \* per node, ignoreThisVotingRound
  randomNumbers,    \* per node, the votes registered so far
  checking,         \* per node, registerVote threads past the signature check
  closing,          \* per node, the main loop is between election and clear
  blockProducers,   \* per node, the keys elected last
  subscribedTo21,   \* per node
  net,              \* votes in flight, one per receiver
  untimely          \* how often a vote was lost or the clock outran it

vars == <<clock, round, inVotingPhase, ignore, randomNumbers, checking, closing,
          blockProducers, subscribedTo21, net, untimely>>

\* A Voter: the voter's key, its number, and the round its signature is for.
Voter(n, r) == [key |-> n, number |-> Number[n][r], round |-> r]

Voters == [key : Nodes, number : Nat, round : 1..MaxRound]

\* Types of the election's state.
TypeOK ==
  /\ clock \in [Nodes -> 0..2 * MaxRound]
  /\ round \in [Nodes -> 1..MaxRound + 1]
  /\ inVotingPhase \in [Nodes -> BOOLEAN]
  /\ ignore \in [Nodes -> BOOLEAN]
  /\ randomNumbers \in [Nodes -> Seq(Voters)]
  /\ checking \in [Nodes -> SUBSET Voters]
  /\ closing \in [Nodes -> BOOLEAN]
  /\ blockProducers \in [Nodes -> Seq(Voters)]
  /\ subscribedTo21 \in [Nodes -> BOOLEAN]
  /\ net \subseteq [to : Nodes, vote : Voters]
  /\ untimely \in 0..MaxUntimely

-----------------------------------------------------------------------------
inVotingTime(n) == clock[n] % 2 = 1

\* A node that boots in voting time ignores that round (main).
Init ==
  /\ clock = [n \in Nodes |-> IF n \in LateNodes THEN 1 ELSE 0]
  /\ round = [n \in Nodes |-> 1]
  /\ inVotingPhase = [n \in Nodes |-> FALSE]
  /\ ignore = [n \in Nodes |-> inVotingTime(n)]
  /\ randomNumbers = [n \in Nodes |-> <<>>]
  /\ checking = [n \in Nodes |-> {}]
  /\ closing = [n \in Nodes |-> FALSE]
  /\ blockProducers = [n \in Nodes |-> <<>>]
  /\ subscribedTo21 = [n \in Nodes |-> FALSE]
  /\ net = {}
  /\ untimely = 0

canParticipateInVoting(n) == ~ignore[n]

\* The first loop iteration in voting time.
openVoting(n) ==
  /\ inVotingTime(n) /\ ~inVotingPhase[n]
  /\ inVotingPhase' = [inVotingPhase EXCEPT ![n] = TRUE]
  /\ IF canParticipateInVoting(n)
     THEN /\ randomNumbers' = [randomNumbers EXCEPT ![n] = Append(@, Voter(n, round[n]))]
          /\ net' = net \cup {[to |-> m, vote |-> Voter(n, round[n])] : m \in Nodes \ {n}}
     ELSE UNCHANGED <<randomNumbers, net>>
  /\ UNCHANGED <<clock, round, ignore, checking, closing, blockProducers,
                 subscribedTo21, untimely>>

\* Some vote of the node with this key is in the list.
HasVoteOf(votes, key) == \E i \in 1..Len(votes) : votes[i].key = key

\* registerVote up to the signature check: the signature must be one of the
\* timestamp this node expects.
registerVote(n, msg) ==
  /\ msg \in net /\ msg.to = n
  /\ net' = net \ {msg}
  /\ checking' = IF /\ canParticipateInVoting(n)
                    /\ ~HasVoteOf(randomNumbers[n], msg.vote.key)
                    /\ msg.vote.round = round[n]
                 THEN [checking EXCEPT ![n] = @ \cup {msg.vote}]
                 ELSE checking
  /\ UNCHANGED <<clock, round, inVotingPhase, ignore, randomNumbers, closing,
                 blockProducers, subscribedTo21, untimely>>

\* Mutant: the sender is not looked for again.
addVote_NoRecheck(n, vote) ==
  /\ vote \in checking[n]
  /\ checking' = [checking EXCEPT ![n] = @ \ {vote}]
  /\ randomNumbers' = [randomNumbers EXCEPT ![n] = Append(@, vote)]
  /\ UNCHANGED <<clock, round, inVotingPhase, ignore, closing, blockProducers,
                 subscribedTo21, net, untimely>>

\* The second critical section of registerVote.  The size it compares with is
\* that of the signature: an inner n hides the number of votes read before.
addVote(n, vote) ==
  /\ vote \in checking[n]
  /\ checking' = [checking EXCEPT ![n] = @ \ {vote}]
  /\ randomNumbers' = IF /\ Len(randomNumbers[n]) # SignatureLength
                         /\ HasVoteOf(randomNumbers[n], vote.key)
                      THEN randomNumbers
                      ELSE [randomNumbers EXCEPT ![n] = Append(@, vote)]
  /\ UNCHANGED <<clock, round, inVotingPhase, ignore, closing, blockProducers,
                 subscribedTo21, net, untimely>>

\* Mutant: the votes stay in the order in which they came.
Sorted_ByArrival(votes) == {votes}

\* std::sort on the numbers: any order of equal numbers.
Sorted(votes) ==
  LET idx == 1..Len(votes)
      orders == {p \in [idx -> idx] :
                   /\ \A i, j \in idx : i < j => p[i] # p[j]
                   /\ \A i, j \in idx : i < j => votes[p[i]].number <= votes[p[j]].number}
  IN {[i \in idx |-> votes[p[i]]] : p \in orders}

\* The first TotalMasterNodes of a list.
Lowest(votes) ==
  SubSeq(votes, 1, IF Len(votes) < TotalMasterNodes THEN Len(votes) ELSE TotalMasterNodes)

\* The first loop iteration after voting time, up to the clearing of the
\* votes: this part does not take randomNumbersMutex.
closeVoting(n) ==
  /\ ~inVotingTime(n) /\ inVotingPhase[n] /\ ~closing[n]
  /\ closing' = [closing EXCEPT ![n] = TRUE]
  /\ round' = [round EXCEPT ![n] = @ + 1]
  /\ IF Len(randomNumbers[n]) > 1
     THEN \E s \in Sorted(randomNumbers[n]) :
            blockProducers' = [blockProducers EXCEPT ![n] = Lowest(s)]
     ELSE blockProducers' = [blockProducers EXCEPT ![n] = <<>>]
  /\ UNCHANGED <<clock, inVotingPhase, ignore, randomNumbers, checking,
                 subscribedTo21, net, untimely>>

\* Mutant: the votes are not cleared after an election.
finishVoting_NoClear(n) ==
  /\ closing[n]
  /\ closing' = [closing EXCEPT ![n] = FALSE]
  /\ inVotingPhase' = [inVotingPhase EXCEPT ![n] = FALSE]
  /\ subscribedTo21' = [subscribedTo21 EXCEPT ![n] = HasVoteOf(blockProducers[n], n)]
  /\ ignore' = [ignore EXCEPT ![n] = FALSE]
  /\ UNCHANGED <<clock, round, randomNumbers, checking, blockProducers, net,
                 untimely>>

\* Mutant: a node that loses its seat stays on the channel.
finishVoting_NoUnsubscribe(n) ==
  /\ closing[n]
  /\ closing' = [closing EXCEPT ![n] = FALSE]
  /\ inVotingPhase' = [inVotingPhase EXCEPT ![n] = FALSE]
  /\ randomNumbers' = [randomNumbers EXCEPT ![n] = IF blockProducers[n] # <<>>
                                                   THEN <<>> ELSE @]
  /\ subscribedTo21' = [subscribedTo21 EXCEPT ![n] = @ \/ HasVoteOf(blockProducers[n], n)]
  /\ ignore' = [ignore EXCEPT ![n] = FALSE]
  /\ UNCHANGED <<clock, round, checking, blockProducers, net,
                 untimely>>

\* The rest of that iteration.  The votes are cleared only when there were
\* enough of them for an election.
finishVoting(n) ==
  /\ closing[n]
  /\ closing' = [closing EXCEPT ![n] = FALSE]
  /\ inVotingPhase' = [inVotingPhase EXCEPT ![n] = FALSE]
  /\ randomNumbers' = [randomNumbers EXCEPT ![n] = IF blockProducers[n] # <<>>
                                                   THEN <<>> ELSE @]
  /\ subscribedTo21' = [subscribedTo21 EXCEPT ![n] = HasVoteOf(blockProducers[n], n)]
  /\ ignore' = [ignore EXCEPT ![n] = FALSE]
  /\ UNCHANGED <<clock, round, checking, blockProducers, net,
                 untimely>>

\* Local time passes.  Clocks are at most one interval apart, and the main
\* loop, which polls all the time, sees every interval.
LoopIsUpToDate(n) == inVotingPhase[n] = inVotingTime(n) /\ ~closing[n]

VotesRegistered(n) == checking[n] = {} /\ \A msg \in net : msg.to # n

\* Every loop has seen the interval, and no vote for n outlasts voting time.
Timely(n) == /\ \A m \in Nodes : LoopIsUpToDate(m)
             /\ inVotingTime(n) => VotesRegistered(n)

advanceClock(n) ==
  /\ clock[n] < 2 * MaxRound
  /\ LoopIsUpToDate(n)
  /\ \A m \in Nodes : clock[n] <= clock[m]
  /\ IF Timely(n) THEN UNCHANGED untimely
     ELSE untimely < MaxUntimely /\ untimely' = untimely + 1
  /\ clock' = [clock EXCEPT ![n] = @ + 1]
  /\ UNCHANGED <<round, inVotingPhase, ignore, randomNumbers, checking, closing,
                 blockProducers, subscribedTo21, net>>

\* The message never arrives, or its body has expired in the DHT.
loseVote(msg) ==
  /\ msg \in net /\ untimely < MaxUntimely
  /\ net' = net \ {msg}
  /\ untimely' = untimely + 1
  /\ UNCHANGED <<clock, round, inVotingPhase, ignore, randomNumbers, checking,
                 closing, blockProducers, subscribedTo21>>

Next ==
  \/ \E n \in Nodes : \/ openVoting(n)
                      \/ closeVoting(n)
                      \/ finishVoting(n)
                      \/ advanceClock(n)
                      \/ \E msg \in net : registerVote(n, msg)
                      \/ \E vote \in checking[n] : addVote(n, vote)
  \/ \E msg \in net : loseVote(msg)

Spec == Init /\ [][Next]_vars

-----------------------------------------------------------------------------
(* Properties.                                                              *)

Keys(list) == [i \in 1..Len(list) |-> list[i].key]

\* The nodes that cast a vote in round r.
Participants(r) == IF r = 1 THEN Nodes \ LateNodes ELSE Nodes

HasClosed(n, r) == round[n] = r + 1 /\ n \in Participants(r)

\* When votes are timely and no two of a round sum to the same number, any two
\* nodes that took part in a round elect the same master nodes in the same order, so each of them can tell who closes a
\* block ("every Master Node is able to tell straight away who should close
\* the block", README.md:86).
AgreedElection ==
  \A n, m \in Nodes, r \in 1..MaxRound :
    untimely = 0 /\ HasClosed(n, r) /\ HasClosed(m, r) =>
      Keys(blockProducers[n]) = Keys(blockProducers[m])

\* When votes are timely and two nodes or more take part in every round, every
\* vote of an election was signed for that round.
VotesAreCurrent ==
  \A n \in Nodes : \A i \in 1..Len(blockProducers[n]) :
    untimely = 0 => blockProducers[n][i].round = round[n] - 1

\* No node elects itself with its own votes alone ("we don't want this node to vote
\* itself in", MasterNodeLib.cpp:116).
NotElectedByItself ==
  \A n \in Nodes :
    blockProducers[n] # <<>> => \E i \in 1..Len(blockProducers[n]) : blockProducers[n][i].key # n

\* Under the same conditions, the nodes on the channel master21 are the ones
\* everybody elected.
ChannelMatchesElection ==
  /\ untimely = 0
  /\ \E r \in 1..MaxRound : \A n \in Nodes : HasClosed(n, r) /\ ~closing[n]
  => \A n, m \in Nodes : subscribedTo21[m] <=> HasVoteOf(blockProducers[n], m)

\* However late, lost or reordered the votes, a node never holds two votes of
\* the same sender: registerVote looks for the sender again once it has
\* checked the signature.
OneVotePerSender ==
  \A n \in Nodes : \A i, j \in 1..Len(randomNumbers[n]) :
    /\ randomNumbers[n][i].key = randomNumbers[n][j].key
    /\ randomNumbers[n][i].key # n
    => i = j
=============================================================================
