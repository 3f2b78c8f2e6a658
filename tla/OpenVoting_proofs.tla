------------------------- MODULE OpenVoting_proofs -------------------------
(***************************************************************************)
(* Proofs about the hourly election, for any nodes, numbers, late nodes    *)
(* and number of rounds.                                                   *)
(***************************************************************************)
EXTENDS OpenVoting, FiniteSetTheorems, WellFoundedInduction, TLAPS

-----------------------------------------------------------------------------
(* The inductive invariant: what holds however late or lost the votes are.  *)

\* A node's round follows from its clock and from how far its main loop is.
PhaseOK ==
  \A n \in Nodes :
    /\ inVotingTime(n) => clock[n] + 1 = 2 * round[n] /\ ~closing[n]
    /\ ~inVotingTime(n) /\ inVotingPhase[n] /\ ~closing[n] => clock[n] = 2 * round[n]
    /\ ~inVotingTime(n) /\ (closing[n] \/ ~inVotingPhase[n]) => clock[n] + 2 = 2 * round[n]
    /\ closing[n] => inVotingPhase[n] /\ round[n] > 1
    /\ \A m \in Nodes : clock[n] <= clock[m] + 1

\* The round whose votes a node holds.
Holding(n) == IF closing[n] THEN round[n] - 1 ELSE round[n]

\* A node sits out the round it booted in, and no other.
IgnoreOK == \A n \in Nodes : ignore[n] <=> n \notin Participants(Holding(n))

\* No node is sent its own vote.
SenderOK ==
  /\ \A msg \in net : msg.vote.key # msg.to
  /\ \A n \in Nodes : \A v \in checking[n] : v.key # n

\* A node that is not closing is on the channel if it elected itself.
ChannelOK ==
  \A n \in Nodes : ~closing[n] => (subscribedTo21[n] <=> HasVoteOf(blockProducers[n], n))

\* A node holds at most two votes of its own: one that no election followed, and the
\* one of the round that is open.
Own(n) == {i \in 1..Len(randomNumbers[n]) : randomNumbers[n][i].key = n}

OwnOK ==
  \A n \in Nodes :
    /\ \A i, j, k \in Own(n) : i = j \/ i = k \/ j = k
    /\ ~inVotingPhase[n] \/ (closing[n] /\ blockProducers[n] = <<>>) =>
         \A i, j \in Own(n) : i = j

VotingInv == TypeOK /\ PhaseOK /\ IgnoreOK /\ SenderOK /\ ChannelOK /\ OwnOK

-----------------------------------------------------------------------------
(* What holds while the votes are timely.                                   *)

\* A loop whose clock is behind has seen its interval.
SyncOK == \A n, m \in Nodes : clock[m] < clock[n] => LoopIsUpToDate(m)

\* Node k has cast its vote of round r.
Opened(k, r) == round[k] > r \/ (round[k] = r /\ inVotingPhase[k] /\ ~closing[k])

\* v is a vote of round r that was cast.
Cast(v, r) == v.key \in Participants(r) /\ v = Voter(v.key, r) /\ Opened(v.key, r)

\* Node n is still to leave the voting time of its round.
Before(n) == ~closing[n] /\ clock[n] < 2 * round[n]

\* A vote on its way or at the signature check is one of the round that its receiver
\* holds votes of, and the only copy.
NetOK ==
  \A msg \in net :
    /\ Cast(msg.vote, round[msg.to]) /\ Before(msg.to)
    /\ msg.vote \notin checking[msg.to]
    /\ ~HasVoteOf(randomNumbers[msg.to], msg.vote.key)

\* The same of a vote past the signature check, at a node that takes part.
CheckingOK ==
  \A n \in Nodes : \A v \in checking[n] :
    /\ Cast(v, round[n]) /\ Before(n) /\ ~ignore[n]
    /\ ~HasVoteOf(randomNumbers[n], v.key)

\* The votes a node holds are cast in the round it holds votes of, one of each sender; a
\* node that sits out, or that held no election, holds none.
VotesOK ==
  \A n \in Nodes :
    /\ \A i \in 1..Len(randomNumbers[n]) : Cast(randomNumbers[n][i], Holding(n))
    /\ \A i, j \in 1..Len(randomNumbers[n]) :
         randomNumbers[n][i].key = randomNumbers[n][j].key => i = j
    /\ ignore[n] => randomNumbers[n] = <<>>
    /\ closing[n] /\ blockProducers[n] = <<>> => randomNumbers[n] = <<>>

\* And every vote that was cast is held, at the check or on its way.
ArrivedOK ==
  \A n, k \in Nodes :
    ~ignore[n] /\ k \in Participants(Holding(n)) /\ Opened(k, Holding(n)) =>
      \/ HasVoteOf(randomNumbers[n], k)
      \/ Voter(k, Holding(n)) \in checking[n]
      \/ [to |-> n, vote |-> Voter(k, Holding(n))] \in net

\* The orders in which the votes of round r may be sorted.
Ballots(r) == {Voter(k, r) : k \in Participants(r)}

Elections(r) ==
  {s \in Seq(Voters) :
     /\ {s[i] : i \in 1..Len(s)} = Ballots(r)
     /\ \A i, j \in 1..Len(s) : s[i] = s[j] => i = j
     /\ \A i, j \in 1..Len(s) : i < j => s[i].number <= s[j].number}

\* A node elected the lowest votes of the round it closed last.
ElectedOK ==
  \A n \in Nodes :
    IF round[n] > 1 /\ n \in Participants(round[n] - 1)
    THEN \E s \in Elections(round[n] - 1) : blockProducers[n] = Lowest(s)
    ELSE blockProducers[n] = <<>>

TimelyOK == SyncOK /\ NetOK /\ CheckingOK /\ VotesOK /\ ArrivedOK /\ ElectedOK

\* No round has exactly one participant: a node that were alone in a round would hold
\* no election, and its vote would stay for the next.
NobodyAlone == \A r \in 1..MaxRound, n \in Nodes : Participants(r) # {n}

ElectionInv == VotingInv /\ (untimely = 0 => TimelyOK)

-----------------------------------------------------------------------------
(* Lists of votes.                                                          *)

\* A set of naturals that is not empty has a least element.
LEMMA LeastNatural ==
  ASSUME NEW T, T \subseteq Nat, T # {} PROVE \E n \in T : \A m \in T : n <= m
<1>1. PICK n \in T : \A m \in T : ~ (<<m, n>> \in OpToRel(<, Nat))
  BY NatLessThanWellFounded, WFMin
<1>2. ASSUME NEW a \in Nat, NEW b \in Nat, a < b PROVE <<a, b>> \in OpToRel(<, Nat)
  BY <1>2 DEF OpToRel
<1>3. \A m \in T : ~(m < n)
  BY <1>1, <1>2, Zenon
<1>4. \A m \in T : n <= m
  BY <1>3
<1>5. QED BY <1>4

\* A vote that is appended is held then, and so are the others.
LEMMA HasAppend ==
  ASSUME NEW s \in Seq(Voters), NEW v \in Voters
  PROVE  /\ Append(s, v) \in Seq(Voters) /\ Len(Append(s, v)) = Len(s) + 1 /\ Len(s) \in Nat
         /\ Append(s, v)[Len(s) + 1] = v /\ \A i \in 1..Len(s) : Append(s, v)[i] = s[i]
         /\ \A k : HasVoteOf(Append(s, v), k) <=> HasVoteOf(s, k) \/ k = v.key
<1>1. /\ Append(s, v) \in Seq(Voters) /\ Len(Append(s, v)) = Len(s) + 1 /\ Len(s) \in Nat
      /\ Append(s, v)[Len(s) + 1] = v /\ \A i \in 1..Len(s) : Append(s, v)[i] = s[i]
  OBVIOUS
<1>2. ASSUME NEW k PROVE HasVoteOf(Append(s, v), k) <=> HasVoteOf(s, k) \/ k = v.key
  <2>1. CASE HasVoteOf(s, k)
    <3>1. PICK i \in 1..Len(s) : s[i].key = k
      BY <2>1 DEF HasVoteOf
    <3>2. i \in 1..Len(Append(s, v)) /\ Append(s, v)[i].key = k
      BY <1>1, <3>1
    <3>3. QED BY <2>1, <3>2 DEF HasVoteOf
  <2>2. CASE k = v.key
    <3>1. Len(s) + 1 \in 1..Len(Append(s, v))
      BY <1>1
    <3>2. QED BY <1>1, <2>2, <3>1 DEF HasVoteOf
  <2>3. CASE ~HasVoteOf(s, k) /\ k # v.key
    <3>1. \A i \in 1..Len(Append(s, v)) : i \in 1..Len(s) \/ i = Len(s) + 1
      BY <1>1
    <3>2. QED BY <1>1, <2>3, <3>1 DEF HasVoteOf
  <2>4. QED BY <2>1, <2>2, <2>3
<1>3. QED BY <1>1, <1>2

\* An empty list holds no vote.
LEMMA HasNothing == \A k : ~HasVoteOf(<<>>, k)
  BY DEF HasVoteOf

\* Sorting keeps the length of a list.
LEMMA SortedType ==
  ASSUME NEW v \in Seq(Voters), NEW s \in Sorted(v)
  PROVE  s \in Seq(Voters) /\ Len(s) = Len(v)
<1>1. PICK p \in [1..Len(v) -> 1..Len(v)] : s = [i \in 1..Len(v) |-> v[p[i]]]
  BY DEF Sorted
<1>2. Len(v) \in Nat /\ \A i \in 1..Len(v) : v[i] \in Voters
  OBVIOUS
<1>3. QED BY <1>1, <1>2

\* An order of a list: the same votes, each as often, by their numbers.
LEMMA SortedIs ==
  ASSUME NEW v \in Seq(Voters), NEW s \in Sorted(v),
         \A i, j \in 1..Len(v) : v[i] = v[j] => i = j
  PROVE  /\ s \in Seq(Voters) /\ Len(s) = Len(v)
         /\ {s[i] : i \in 1..Len(s)} = {v[i] : i \in 1..Len(v)}
         /\ \A i, j \in 1..Len(s) : s[i] = s[j] => i = j
         /\ \A i, j \in 1..Len(s) : i < j => s[i].number <= s[j].number
<1> DEFINE idx == 1..Len(v)
<1>1. PICK p \in [idx -> idx] :
        /\ \A i, j \in idx : i < j => p[i] # p[j]
        /\ \A i, j \in idx : i < j => v[p[i]].number <= v[p[j]].number
        /\ s = [i \in idx |-> v[p[i]]]
  BY DEF Sorted
<1>2. Len(v) \in Nat /\ \A i \in idx : v[i] \in Voters
  OBVIOUS
<1>3. \A i, j \in idx : p[i] = p[j] => i = j
  BY <1>1, <1>2
<1>4. p \in Injection(idx, idx)
  BY <1>1, <1>3 DEF Injection, IsInjective
<1>5. IsFiniteSet(idx)
  BY <1>2, FS_Interval
<1>6. p \in Surjection(idx, idx)
  BY <1>4, <1>5, FS_Injection
<1>7. \A j \in idx : \E i \in idx : p[i] = j
  BY <1>6 DEF Surjection
<1>8. s \in Seq(Voters) /\ Len(s) = Len(v)
  BY SortedType
<1>9. \A i \in idx : s[i] = v[p[i]] /\ p[i] \in idx
  BY <1>1
<1>10. {s[i] : i \in 1..Len(s)} = {v[i] : i \in 1..Len(v)}
  <2>1. \A i \in 1..Len(s) : \E j \in idx : s[i] = v[j]
    BY <1>8, <1>9
  <2>2. \A j \in idx : \E i \in 1..Len(s) : v[j] = s[i]
    BY <1>7, <1>8, <1>9
  <2>3. {s[i] : i \in 1..Len(s)} \subseteq {v[i] : i \in 1..Len(v)}
    BY <2>1
  <2>4. {v[i] : i \in 1..Len(v)} \subseteq {s[i] : i \in 1..Len(s)}
    BY <2>2
  <2>5. QED BY <2>3, <2>4
<1>11. \A i, j \in 1..Len(s) : s[i] = s[j] => i = j
  BY <1>3, <1>8, <1>9
<1>12. \A i, j \in 1..Len(s) : i < j => s[i].number <= s[j].number
  BY <1>1, <1>8, <1>9
<1>13. QED BY <1>8, <1>10, <1>11, <1>12

\* What is elected of a list is its beginning.
LEMMA LowestIs ==
  ASSUME NEW s \in Seq(Voters)
  PROVE  /\ Lowest(s) \in Seq(Voters) /\ Len(Lowest(s)) \in Nat /\ Len(Lowest(s)) <= Len(s)
         /\ \A i \in 1..Len(Lowest(s)) : i \in 1..Len(s) /\ Lowest(s)[i] = s[i]
         /\ Len(s) > 0 => Lowest(s) # <<>>
<1> DEFINE l == IF Len(s) < TotalMasterNodes THEN Len(s) ELSE TotalMasterNodes
<1>1. Len(s) \in Nat /\ TotalMasterNodes \in Nat /\ TotalMasterNodes > 0
  BY SizeAssumption
<1>2. l \in Nat /\ l <= Len(s) /\ (Len(s) > 0 => l > 0) /\ Lowest(s) = SubSeq(s, 1, l)
  BY <1>1 DEF Lowest
<1> HIDE DEF l
<1>3. /\ Lowest(s) \in Seq(Voters) /\ Len(Lowest(s)) = l
      /\ \A i \in 1..l : Lowest(s)[i] = s[i]
  BY <1>1, <1>2
<1>4. l > 0 => Lowest(s) # <<>>
  BY <1>2, <1>3
<1>5. QED BY <1>1, <1>2, <1>3, <1>4

\* When the numbers of a round differ there is one order of its votes: at the first
\* place where two orders differ, each would have the lower vote.
LEMMA OneElection ==
  ASSUME NEW r \in 1..MaxRound, NEW s \in Elections(r), NEW t \in Elections(r),
         \A n, m \in Nodes : Number[n][r] = Number[m][r] => n = m
  PROVE  s = t
<1> DEFINE Unlike(i) == \/ i \in 1..Len(s) /\ i \notin 1..Len(t)
                        \/ i \in 1..Len(t) /\ i \notin 1..Len(s)
                        \/ i \in 1..Len(s) /\ i \in 1..Len(t) /\ s[i] # t[i]
           Differ == {i \in Nat \ {0} : Unlike(i)}
<1>0. s \in Seq(Voters) /\ t \in Seq(Voters) /\ Len(s) \in Nat /\ Len(t) \in Nat
  BY DEF Elections
<1>1. ASSUME NEW a \in Elections(r)
      PROVE  /\ \A i, j \in 1..Len(a) : a[i] = a[j] => i = j
             /\ \A i, j \in 1..Len(a) : i < j => a[i].number <= a[j].number
             /\ \A i \in 1..Len(a) : a[i] \in Ballots(r)
             /\ \A v \in Ballots(r) : \E i \in 1..Len(a) : v = a[i]
  BY DEF Elections
<1>a. ASSUME NEW v \in Ballots(r)
      PROVE  \E k \in Nodes : v = Voter(k, r) /\ v.number = Number[k][r] /\ Number[k][r] \in Nat
  <2>1. PICK k \in Nodes : v = Voter(k, r)
    BY DEF Ballots, Participants
  <2>2. v.number = Number[k][r]
    BY <2>1 DEF Voter
  <2>3. QED BY <2>1, <2>2, NumberAssumption
<1>2. \A v, w \in Ballots(r) : v.number = w.number => v = w
  BY <1>a
<1>b. \A v \in Ballots(r) : v.number \in Nat
  BY <1>a
<1>c. ASSUME NEW j \in Nat \ {0}, j \notin Differ
      PROVE  /\ j \in 1..Len(s) <=> j \in 1..Len(t)
             /\ j \in 1..Len(s) => s[j] = t[j]
  <2> HIDE DEF Unlike
  <2>1. ~Unlike(j)
    BY <1>c
  <2>2. QED BY <2>1 DEF Unlike
\* Up to place i both are the same; the vote at place i of a is further on in b.
<1>3. ASSUME NEW a \in Elections(r), NEW b \in Elections(r), NEW i \in 1..Len(a),
             Len(a) \in Nat, Len(b) \in Nat,
             \A j \in 1..(i - 1) : j \in 1..Len(b) /\ a[j] = b[j],
             i \notin 1..Len(b) \/ a[i] # b[i]
      PROVE  \E j \in 1..Len(b) : j > i /\ b[j] = a[i]
  <2>0. a[i] \in Ballots(r)
    BY <1>1
  <2>1. PICK j \in 1..Len(b) : b[j] = a[i]
    BY <1>1, <2>0
  <2>2. ~(j \in 1..(i - 1))
    <3>1. SUFFICES ASSUME j \in 1..(i - 1) PROVE FALSE
      OBVIOUS
    <3>2. a[j] = a[i] /\ j \in 1..Len(a) /\ j # i
      BY <1>3, <2>1, <3>1
    <3>3. QED BY <1>1, <3>2
  <2>3. j # i
    BY <1>3, <2>1
  <2>4. QED BY <2>1, <2>2, <2>3
<1>4. Differ = {}
  <2>1. SUFFICES ASSUME Differ # {} PROVE FALSE
    OBVIOUS
  <2>2. PICK i \in Differ : \A j \in Differ : i <= j
    BY <2>1, LeastNatural
  <2>3. \A j \in 1..(i - 1) : j \notin Differ /\ j \in Nat \ {0}
    BY <2>2
  <2>4. \A j \in 1..(i - 1) : j \in 1..Len(s) \/ j \in 1..Len(t)
    BY <1>0, <2>2
  <2>5. \A j \in 1..(i - 1) : j \in 1..Len(s) /\ j \in 1..Len(t) /\ s[j] = t[j]
    BY <1>c, <2>3, <2>4
  <2>6. CASE i \in 1..Len(s) /\ i \notin 1..Len(t)
    <3>1. \E j \in 1..Len(t) : j > i
      BY <1>0, <1>3, <2>5, <2>6
    <3>2. QED BY <1>0, <2>6, <3>1
  <2>7. CASE i \in 1..Len(t) /\ i \notin 1..Len(s)
    <3>1. \E j \in 1..Len(s) : j > i
      BY <1>0, <1>3, <2>5, <2>7
    <3>2. QED BY <1>0, <2>7, <3>1
  <2>8. CASE i \in 1..Len(s) /\ i \in 1..Len(t) /\ s[i] # t[i]
    <3>1. PICK j \in 1..Len(t) : j > i /\ t[j] = s[i]
      BY <1>0, <1>3, <2>5, <2>8
    <3>2. PICK k \in 1..Len(s) : k > i /\ s[k] = t[i]
      BY <1>0, <1>3, <2>5, <2>8
    <3>3. t[i].number <= t[j].number /\ s[i].number <= s[k].number
      BY <1>1, <2>8, <3>1, <3>2
    <3>4. s[i] \in Ballots(r) /\ t[i] \in Ballots(r)
      BY <1>1, <2>8
    <3>5. s[i].number = t[i].number
      BY <1>b, <3>1, <3>2, <3>3, <3>4
    <3>6. QED BY <1>2, <2>8, <3>4, <3>5
  <2>9. QED BY <2>2, <2>6, <2>7, <2>8
<1>5. \A i \in Nat \ {0} : i \in 1..Len(s) <=> i \in 1..Len(t)
  BY <1>4, <1>c
<1>6. Len(s) = Len(t)
  <2>1. CASE Len(s) < Len(t)
    BY <1>0, <1>5, <2>1
  <2>2. CASE Len(t) < Len(s)
    BY <1>0, <1>5, <2>2
  <2>3. QED BY <1>0, <2>1, <2>2
<1>7. \A i \in 1..Len(s) : s[i] = t[i]
  BY <1>0, <1>4, <1>6, <1>c
<1> HIDE DEF Differ
<1>8. QED BY <1>0, <1>6, <1>7

-----------------------------------------------------------------------------
(* Types, and the rounds of the main loops.                                 *)

\* The vote of a node in a round.
LEMMA VoterIs ==
  ASSUME NEW n \in Nodes, NEW r \in 1..MaxRound
  PROVE  /\ Voter(n, r) \in Voters /\ Voter(n, r).key = n /\ Voter(n, r).round = r
         /\ Voter(n, r).number = Number[n][r]
  BY NumberAssumption DEF Voter, Voters

\* Clocks and rounds are natural numbers within their bounds.
LEMMA ClockIs ==
  ASSUME TypeOK, NEW n \in Nodes
  PROVE  /\ clock[n] \in Nat /\ clock[n] <= 2 * MaxRound /\ round[n] \in Nat
         /\ round[n] >= 1 /\ round[n] <= MaxRound + 1 /\ MaxRound \in Nat
  BY SizeAssumption DEF TypeOK

\* In voting time, and until the voting is closed, a node is in one of the rounds.
LEMMA RoundIs ==
  ASSUME TypeOK, PhaseOK, NEW n \in Nodes, inVotingTime(n) \/ (inVotingPhase[n] /\ ~closing[n])
  PROVE  round[n] \in 1..MaxRound
  BY ClockIs DEF PhaseOK

\* Every step keeps the types.
LEMMA TypeStep == TypeOK /\ PhaseOK /\ [Next]_vars => TypeOK'
<1> SUFFICES ASSUME TypeOK, PhaseOK, [Next]_vars PROVE TypeOK'
  OBVIOUS
<1>1. ASSUME NEW n \in Nodes, openVoting(n) PROVE TypeOK'
  <2>1. round[n] \in 1..MaxRound
    BY <1>1, RoundIs DEF openVoting
  <2>2. Voter(n, round[n]) \in Voters
    BY <2>1, VoterIs
  <2>3. randomNumbers' \in [Nodes -> Seq(Voters)]
    <3>1. Append(randomNumbers[n], Voter(n, round[n])) \in Seq(Voters)
      BY <2>2 DEF TypeOK
    <3>2. QED BY <1>1, <3>1 DEF openVoting, TypeOK
  <2>4. net' \subseteq [to : Nodes, vote : Voters]
    <3>1. {[to |-> m, vote |-> Voter(n, round[n])] : m \in Nodes \ {n}} \subseteq [to : Nodes, vote : Voters]
      BY <2>2
    <3>2. QED BY <1>1, <3>1 DEF openVoting, TypeOK
  <2>5. inVotingPhase' \in [Nodes -> BOOLEAN]
    BY <1>1 DEF openVoting, TypeOK
  <2>6. QED BY <1>1, <2>3, <2>4, <2>5 DEF openVoting, TypeOK
<1>2. ASSUME NEW n \in Nodes, closeVoting(n) PROVE TypeOK'
  <2>1. round[n] \in 1..MaxRound
    BY <1>2, RoundIs DEF closeVoting
  <2>2. round' \in [Nodes -> 1..MaxRound + 1]
    <3>1. round[n] + 1 \in 1..MaxRound + 1
      BY <2>1, SizeAssumption
    <3>2. QED BY <1>2, <3>1 DEF closeVoting, TypeOK
  <2>3. \E b \in Seq(Voters) : blockProducers' = [blockProducers EXCEPT ![n] = b]
    <3>1. CASE Len(randomNumbers[n]) > 1
      <4>1. PICK s \in Sorted(randomNumbers[n]) : blockProducers' = [blockProducers EXCEPT ![n] = Lowest(s)]
        BY <1>2, <3>1 DEF closeVoting
      <4>2. Lowest(s) \in Seq(Voters)
        BY SortedType, LowestIs DEF TypeOK
      <4>3. QED BY <4>1, <4>2
    <3>2. CASE ~(Len(randomNumbers[n]) > 1)
      <4>1. <<>> \in Seq(Voters)
        OBVIOUS
      <4>2. blockProducers' = [blockProducers EXCEPT ![n] = <<>>]
        BY <1>2, <3>2 DEF closeVoting
      <4>3. QED BY <4>1, <4>2
    <3>3. QED BY <3>1, <3>2
  <2>4. blockProducers' \in [Nodes -> Seq(Voters)]
    BY <2>3 DEF TypeOK
  <2>5. closing' \in [Nodes -> BOOLEAN]
    BY <1>2 DEF closeVoting, TypeOK
  <2>6. QED BY <1>2, <2>2, <2>4, <2>5 DEF closeVoting, TypeOK
<1>3. ASSUME NEW n \in Nodes, finishVoting(n) PROVE TypeOK'
  <2>1. randomNumbers' \in [Nodes -> Seq(Voters)]
    BY <1>3 DEF finishVoting, TypeOK
  <2>2. /\ closing' \in [Nodes -> BOOLEAN] /\ inVotingPhase' \in [Nodes -> BOOLEAN]
        /\ ignore' \in [Nodes -> BOOLEAN]
    BY <1>3 DEF finishVoting, TypeOK
  <2>3. subscribedTo21' \in [Nodes -> BOOLEAN]
    <3>1. HasVoteOf(blockProducers[n], n) \in BOOLEAN
      BY DEF HasVoteOf
    <3>2. QED BY <1>3, <3>1 DEF finishVoting, TypeOK
  <2>4. QED BY <1>3, <2>1, <2>2, <2>3 DEF finishVoting, TypeOK
<1>4. ASSUME NEW n \in Nodes, advanceClock(n) PROVE TypeOK'
  <2>1. clock' \in [Nodes -> 0..2 * MaxRound]
    <3>1. clock[n] + 1 \in 0..2 * MaxRound
      BY <1>4, ClockIs DEF advanceClock
    <3>2. QED BY <1>4, <3>1 DEF advanceClock, TypeOK
  <2>2. untimely' \in 0..MaxUntimely
    BY <1>4, LateAssumption DEF advanceClock, TypeOK
  <2>3. QED BY <1>4, <2>1, <2>2 DEF advanceClock, TypeOK
<1>5. ASSUME NEW n \in Nodes, NEW msg \in net, registerVote(n, msg) PROVE TypeOK'
  <2>1. msg.vote \in Voters
    BY DEF TypeOK
  <2>2. checking' \in [Nodes -> SUBSET Voters]
    BY <1>5, <2>1 DEF registerVote, TypeOK
  <2>3. QED BY <1>5, <2>2 DEF registerVote, TypeOK
<1>6. ASSUME NEW n \in Nodes, NEW v \in checking[n], addVote(n, v) PROVE TypeOK'
  <2>1. v \in Voters /\ Append(randomNumbers[n], v) \in Seq(Voters)
    BY DEF TypeOK
  <2>2. randomNumbers' \in [Nodes -> Seq(Voters)]
    BY <1>6, <2>1 DEF addVote, TypeOK
  <2>3. checking' \in [Nodes -> SUBSET Voters]
    BY <1>6 DEF addVote, TypeOK
  <2>4. QED BY <1>6, <2>2, <2>3 DEF addVote, TypeOK
<1>7. ASSUME NEW msg \in net, loseVote(msg) PROVE TypeOK'
  <2>1. untimely' \in 0..MaxUntimely
    BY <1>7, LateAssumption DEF loseVote, TypeOK
  <2>2. QED BY <1>7, <2>1 DEF loseVote, TypeOK
<1>8. CASE UNCHANGED vars
  BY <1>8 DEF vars, TypeOK
<1>9. QED BY <1>1, <1>2, <1>3, <1>4, <1>5, <1>6, <1>7, <1>8 DEF Next

\* Voting time and the rest of the hour alternate.
LEMMA TimeFlips == ASSUME NEW c \in Nat PROVE (c + 1) % 2 = 1 <=> ~(c % 2 = 1)
  OBVIOUS

\* What the steps do to the loops, node by node.
LEMMA OpenDoes ==
  ASSUME TypeOK, NEW n \in Nodes, openVoting(n)
  PROVE  /\ inVotingTime(n) /\ ~inVotingPhase[n] /\ inVotingPhase'[n]
         /\ \A m \in Nodes : m # n => inVotingPhase'[m] = inVotingPhase[m]
         /\ UNCHANGED <<clock, round, ignore, checking, closing, blockProducers, subscribedTo21, untimely>>
  BY DEF openVoting, TypeOK

\* Closing, for the node that closes and for the others.
LEMMA CloseDoes ==
  ASSUME TypeOK, NEW n \in Nodes, closeVoting(n)
  PROVE  /\ ~inVotingTime(n) /\ inVotingPhase[n] /\ ~closing[n] /\ closing'[n]
         /\ round'[n] = round[n] + 1
         /\ \A m \in Nodes : m # n => /\ closing'[m] = closing[m] /\ round'[m] = round[m]
                                      /\ blockProducers'[m] = blockProducers[m]
         /\ UNCHANGED <<clock, inVotingPhase, ignore, randomNumbers, checking, subscribedTo21,
                        net, untimely>>
<1>1. /\ ~inVotingTime(n) /\ inVotingPhase[n] /\ ~closing[n] /\ closing'[n]
      /\ round'[n] = round[n] + 1
      /\ \A m \in Nodes : m # n => closing'[m] = closing[m] /\ round'[m] = round[m]
  BY DEF closeVoting, TypeOK
<1>2. UNCHANGED <<clock, inVotingPhase, ignore, randomNumbers, checking, subscribedTo21, net, untimely>>
  BY DEF closeVoting
<1>3. \A m \in Nodes : m # n => blockProducers'[m] = blockProducers[m]
  <2>1. CASE Len(randomNumbers[n]) > 1
    BY <2>1 DEF closeVoting, TypeOK
  <2>2. CASE ~(Len(randomNumbers[n]) > 1)
    BY <2>2 DEF closeVoting, TypeOK
  <2>3. QED BY <2>1, <2>2
<1>4. QED BY <1>1, <1>2, <1>3

\* Finishing, likewise.
LEMMA FinishDoes ==
  ASSUME TypeOK, NEW n \in Nodes, finishVoting(n)
  PROVE  /\ closing[n] /\ ~closing'[n] /\ ~inVotingPhase'[n] /\ ~ignore'[n]
         /\ subscribedTo21'[n] <=> HasVoteOf(blockProducers[n], n)
         /\ randomNumbers'[n] = IF blockProducers[n] # <<>> THEN <<>> ELSE randomNumbers[n]
         /\ \A m \in Nodes : m # n => /\ closing'[m] = closing[m] /\ ignore'[m] = ignore[m]
                                      /\ inVotingPhase'[m] = inVotingPhase[m]
                                      /\ subscribedTo21'[m] = subscribedTo21[m]
                                      /\ randomNumbers'[m] = randomNumbers[m]
         /\ UNCHANGED <<clock, round, checking, blockProducers, net, untimely>>
<1>1. /\ closing[n] /\ ~closing'[n] /\ ~inVotingPhase'[n] /\ ~ignore'[n]
      /\ \A m \in Nodes : m # n => /\ closing'[m] = closing[m] /\ ignore'[m] = ignore[m]
                                   /\ inVotingPhase'[m] = inVotingPhase[m]
      /\ UNCHANGED <<clock, round, checking, blockProducers, net, untimely>>
  BY DEF finishVoting, TypeOK
<1>2. /\ subscribedTo21'[n] <=> HasVoteOf(blockProducers[n], n)
      /\ \A m \in Nodes : m # n => subscribedTo21'[m] = subscribedTo21[m]
  BY DEF finishVoting, TypeOK
<1>3. /\ randomNumbers'[n] = IF blockProducers[n] # <<>> THEN <<>> ELSE randomNumbers[n]
      /\ \A m \in Nodes : m # n => randomNumbers'[m] = randomNumbers[m]
  BY DEF finishVoting, TypeOK
<1>4. QED BY <1>1, <1>2, <1>3

\* A clock that goes on, likewise.
LEMMA AdvanceDoes ==
  ASSUME TypeOK, NEW n \in Nodes, advanceClock(n)
  PROVE  /\ clock'[n] = clock[n] + 1 /\ \A m \in Nodes : m # n => clock'[m] = clock[m]
         /\ inVotingTime(n)' <=> ~inVotingTime(n)
         /\ \A m \in Nodes : m # n => (inVotingTime(m)' <=> inVotingTime(m))
         /\ ~closing[n] /\ (inVotingPhase[n] <=> inVotingTime(n))
         /\ \A m \in Nodes : clock[n] <= clock[m]
         /\ UNCHANGED <<round, inVotingPhase, ignore, randomNumbers, checking, closing,
                        blockProducers, subscribedTo21, net>>
<1>1. /\ clock'[n] = clock[n] + 1 /\ \A m \in Nodes : m # n => clock'[m] = clock[m]
      /\ \A m \in Nodes : clock[n] <= clock[m]
      /\ UNCHANGED <<round, inVotingPhase, ignore, randomNumbers, checking, closing,
                     blockProducers, subscribedTo21, net>>
  BY DEF advanceClock, TypeOK
<1>2. inVotingTime(n)' <=> ~inVotingTime(n)
  BY <1>1, ClockIs, TimeFlips DEF inVotingTime
<1>3. \A m \in Nodes : m # n => (inVotingTime(m)' <=> inVotingTime(m))
  BY <1>1 DEF inVotingTime
<1>4. ~closing[n] /\ (inVotingPhase[n] <=> inVotingTime(n))
  BY DEF advanceClock, LoopIsUpToDate, TypeOK
<1>5. QED BY <1>1, <1>2, <1>3, <1>4

\* The steps of the votes.
Receiving ==
  \/ \E n \in Nodes : \/ \E msg \in net : registerVote(n, msg)
                      \/ \E vote \in checking[n] : addVote(n, vote)
  \/ \E msg \in net : loseVote(msg)

\* The steps of the votes leave the loops alone.
LEMMA ReceivingDoes ==
  Receiving => UNCHANGED <<clock, round, inVotingPhase, ignore, closing, blockProducers, subscribedTo21>>
  BY DEF Receiving, registerVote, addVote, loseVote

\* Every step keeps clock, phase and round in line.
LEMMA PhaseStep == TypeOK /\ PhaseOK /\ [Next]_vars => PhaseOK'
<1> SUFFICES ASSUME TypeOK, PhaseOK, [Next]_vars PROVE PhaseOK'
  OBVIOUS
<1>0. \A n \in Nodes : clock[n] \in Nat /\ round[n] \in Nat /\ round[n] >= 1
  BY ClockIs
<1>1. ASSUME NEW n \in Nodes, openVoting(n) PROVE PhaseOK'
  <2>1. \A m \in Nodes : inVotingTime(m)' <=> inVotingTime(m)
    BY <1>1, OpenDoes DEF inVotingTime
  <2>2. QED BY <1>0, <1>1, <2>1, OpenDoes DEF PhaseOK
<1>2. ASSUME NEW n \in Nodes, closeVoting(n) PROVE PhaseOK'
  <2>1. \A m \in Nodes : inVotingTime(m)' <=> inVotingTime(m)
    BY <1>2, CloseDoes DEF inVotingTime
  <2>2. QED BY <1>0, <1>2, <2>1, CloseDoes DEF PhaseOK
<1>3. ASSUME NEW n \in Nodes, finishVoting(n) PROVE PhaseOK'
  <2>1. \A m \in Nodes : inVotingTime(m)' <=> inVotingTime(m)
    BY <1>3, FinishDoes DEF inVotingTime
  <2>2. QED BY <1>0, <1>3, <2>1, FinishDoes DEF PhaseOK
<1>4. ASSUME NEW n \in Nodes, advanceClock(n) PROVE PhaseOK'
  BY <1>0, <1>4, AdvanceDoes DEF PhaseOK
<1>5. CASE Receiving \/ UNCHANGED vars
  <2>1. UNCHANGED <<clock, round, inVotingPhase, closing>>
    BY <1>5, ReceivingDoes DEF vars
  <2>2. QED BY <2>1 DEF PhaseOK, inVotingTime
<1>6. QED BY <1>1, <1>2, <1>3, <1>4, <1>5 DEF Next, Receiving

-----------------------------------------------------------------------------
(* The rest of what holds however late the votes are.                       *)

\* Closing does not change the round a node holds votes of; finishing goes to the next.
LEMMA HoldingStep ==
  ASSUME TypeOK, [Next]_vars, NEW n \in Nodes
  PROVE  /\ ~finishVoting(n) => Holding(n)' = Holding(n)
         /\ finishVoting(n) => Holding(n)' = Holding(n) + 1 /\ Holding(n)' = round[n] /\ closing[n]
<1>0. \A m \in Nodes : round[m] \in Nat
  BY ClockIs
<1>1. ASSUME NEW m \in Nodes, closeVoting(m) PROVE Holding(n)' = Holding(n) /\ ~finishVoting(n)
  <2>1. ~finishVoting(n)
    BY <1>1, CloseDoes DEF finishVoting, closeVoting, TypeOK
  <2>2. QED BY <1>0, <1>1, <2>1, CloseDoes DEF Holding
<1>2. ASSUME NEW m \in Nodes, finishVoting(m), m # n PROVE Holding(n)' = Holding(n) /\ ~finishVoting(n)
  BY <1>2, FinishDoes DEF Holding
<1>3. CASE finishVoting(n)
  BY <1>0, <1>3, FinishDoes DEF Holding
<1>4. CASE (\E m \in Nodes : openVoting(m) \/ advanceClock(m)) \/ Receiving \/ UNCHANGED vars
  <2>1. UNCHANGED <<round, closing>>
    BY <1>4, OpenDoes, AdvanceDoes, ReceivingDoes DEF vars
  <2>2. ~finishVoting(n)
    BY <2>1 DEF finishVoting, TypeOK
  <2>3. QED BY <2>1, <2>2 DEF Holding
<1>5. QED BY <1>1, <1>2, <1>3, <1>4 DEF Next, Receiving

\* The round a node holds votes of is one of the rounds.
LEMMA HoldingIs ==
  ASSUME TypeOK, PhaseOK, NEW n \in Nodes PROVE Holding(n) \in Nat /\ Holding(n) >= 1
<1>1. CASE closing[n]
  BY <1>1, ClockIs DEF PhaseOK, Holding
<1>2. CASE ~closing[n]
  BY <1>2, ClockIs DEF Holding
<1>3. QED BY <1>1, <1>2

\* A node sits out the round it booted in and no other, whatever step is taken.
LEMMA IgnoreStep == TypeOK /\ PhaseOK /\ IgnoreOK /\ [Next]_vars => IgnoreOK'
<1> SUFFICES ASSUME TypeOK, PhaseOK, IgnoreOK, [Next]_vars, NEW n \in Nodes
             PROVE  ignore'[n] <=> n \notin Participants(Holding(n)')
  BY DEF IgnoreOK, Participants
<1>1. CASE finishVoting(n)
  <2>1. ~ignore'[n] /\ Holding(n)' # 1
    BY <1>1, FinishDoes, HoldingStep, HoldingIs
  <2>2. QED BY <2>1 DEF Participants
<1>2. CASE ~finishVoting(n)
  <2>1. ignore'[n] = ignore[n]
    BY <1>2, OpenDoes, CloseDoes, FinishDoes, AdvanceDoes, ReceivingDoes DEF Next, vars, Receiving
  <2>2. QED BY <1>2, <2>1, HoldingStep DEF IgnoreOK
<1>3. QED BY <1>1, <1>2

\* No step sends a node its own vote.
LEMMA SenderStep == TypeOK /\ PhaseOK /\ SenderOK /\ [Next]_vars => SenderOK'
<1> SUFFICES ASSUME TypeOK, PhaseOK, SenderOK, [Next]_vars PROVE SenderOK'
  OBVIOUS
<1>1. ASSUME NEW n \in Nodes, openVoting(n) PROVE SenderOK'
  <2>1. checking' = checking
    BY <1>1 DEF openVoting
  <2>2. ASSUME NEW msg \in net' PROVE msg.vote.key # msg.to
    <3>1. CASE msg \in net
      BY <3>1 DEF SenderOK
    <3>2. CASE msg \notin net
      <4>1. PICK m \in Nodes \ {n} : msg = [to |-> m, vote |-> Voter(n, round[n])]
        BY <1>1, <3>2 DEF openVoting
      <4>2. msg.to = m /\ msg.vote.key = n
        BY <4>1 DEF Voter
      <4>3. QED BY <4>2
    <3>3. QED BY <3>1, <3>2
  <2>3. QED BY <2>1, <2>2 DEF SenderOK
<1>2. ASSUME NEW n \in Nodes, NEW msg \in net, registerVote(n, msg) PROVE SenderOK'
  <2>1. net' \subseteq net /\ msg.to = n
    BY <1>2 DEF registerVote
  <2>2. \A m \in Nodes : checking'[m] \subseteq checking[m] \cup (IF m = n THEN {msg.vote} ELSE {})
    BY <1>2 DEF registerVote, TypeOK
  <2>3. QED BY <2>1, <2>2 DEF SenderOK
<1>3. ASSUME NEW n \in Nodes, NEW v \in checking[n], addVote(n, v) PROVE SenderOK'
  <2>1. net' = net /\ \A m \in Nodes : checking'[m] \subseteq checking[m]
    BY <1>3 DEF addVote, TypeOK
  <2>2. QED BY <2>1 DEF SenderOK
<1>4. ASSUME NEW msg \in net, loseVote(msg) PROVE SenderOK'
  BY <1>4 DEF loseVote, SenderOK
<1>5. CASE (\E n \in Nodes : closeVoting(n) \/ finishVoting(n) \/ advanceClock(n)) \/ UNCHANGED vars
  <2>1. UNCHANGED <<net, checking>>
    BY <1>5 DEF closeVoting, finishVoting, advanceClock, vars
  <2>2. QED BY <2>1 DEF SenderOK
<1>6. QED BY <1>1, <1>2, <1>3, <1>4, <1>5 DEF Next

\* Only a loop that is closing may be on the wrong channel.
LEMMA ChannelStep == TypeOK /\ PhaseOK /\ ChannelOK /\ [Next]_vars => ChannelOK'
<1> SUFFICES ASSUME TypeOK, PhaseOK, ChannelOK, [Next]_vars, NEW n \in Nodes, ~closing'[n]
             PROVE  subscribedTo21'[n] <=> HasVoteOf(blockProducers'[n], n)
  BY DEF ChannelOK
<1>1. CASE finishVoting(n)
  BY <1>1, FinishDoes
<1>2. CASE \E m \in Nodes : m # n /\ finishVoting(m)
  BY <1>2, FinishDoes DEF ChannelOK
<1>3. CASE \E m \in Nodes : closeVoting(m)
  BY <1>3, CloseDoes DEF ChannelOK
<1>4. CASE (\E m \in Nodes : openVoting(m) \/ advanceClock(m)) \/ Receiving \/ UNCHANGED vars
  <2>1. UNCHANGED <<closing, blockProducers, subscribedTo21>>
    BY <1>4, OpenDoes, AdvanceDoes, ReceivingDoes DEF vars
  <2>2. QED BY <2>1 DEF ChannelOK
<1>5. QED BY <1>1, <1>2, <1>3, <1>4 DEF Next, Receiving

-----------------------------------------------------------------------------
(* A node's own votes, and how many votes it can hold.                      *)

\* What the steps do to the votes of node n.
LEMMA VotesDo ==
  ASSUME TypeOK, PhaseOK, SenderOK, [Next]_vars, NEW n \in Nodes
  PROVE  \/ randomNumbers'[n] = randomNumbers[n]
         \/ /\ openVoting(n) /\ ~ignore[n] /\ round[n] \in 1..MaxRound
            /\ Voter(n, round[n]) \in Voters
            /\ randomNumbers'[n] = Append(randomNumbers[n], Voter(n, round[n]))
         \/ \E v \in checking[n] :
              /\ addVote(n, v) /\ v \in Voters /\ v.key # n
              /\ randomNumbers'[n] = Append(randomNumbers[n], v)
              /\ Len(randomNumbers[n]) = SignatureLength \/ ~HasVoteOf(randomNumbers[n], v.key)
         \/ finishVoting(n) /\ blockProducers[n] # <<>> /\ randomNumbers'[n] = <<>>
<1>1. CASE openVoting(n)
  <2>1. round[n] \in 1..MaxRound
    BY <1>1, RoundIs DEF openVoting
  <2>2. CASE ignore[n]
    BY <1>1, <2>2 DEF openVoting, canParticipateInVoting
  <2>3. CASE ~ignore[n]
    BY <1>1, <2>1, <2>3, VoterIs DEF openVoting, canParticipateInVoting, TypeOK
  <2>4. QED BY <2>2, <2>3
<1>2. ASSUME NEW m \in Nodes, m # n, openVoting(m) PROVE randomNumbers'[n] = randomNumbers[n]
  <2>1. CASE ignore[m]
    BY <1>2, <2>1 DEF openVoting, canParticipateInVoting
  <2>2. CASE ~ignore[m]
    BY <1>2, <2>2 DEF openVoting, canParticipateInVoting, TypeOK
  <2>3. QED BY <2>1, <2>2
<1>3. ASSUME NEW v \in checking[n], addVote(n, v), randomNumbers'[n] # randomNumbers[n]
      PROVE  /\ v \in Voters /\ v.key # n
             /\ randomNumbers'[n] = Append(randomNumbers[n], v)
             /\ Len(randomNumbers[n]) = SignatureLength \/ ~HasVoteOf(randomNumbers[n], v.key)
  <2>1. v \in Voters /\ v.key # n
    BY DEF TypeOK, SenderOK
  <2>2. ~(Len(randomNumbers[n]) # SignatureLength /\ HasVoteOf(randomNumbers[n], v.key))
    BY <1>3 DEF addVote
  <2>3. randomNumbers' = [randomNumbers EXCEPT ![n] = Append(@, v)]
    BY <1>3, <2>2 DEF addVote
  <2>4. QED BY <2>1, <2>2, <2>3 DEF TypeOK
<1>4. ASSUME NEW m \in Nodes, m # n, NEW v \in checking[m], addVote(m, v)
      PROVE  randomNumbers'[n] = randomNumbers[n]
  BY <1>4 DEF addVote, TypeOK
<1>5. ASSUME NEW m \in Nodes, finishVoting(m)
      PROVE  \/ randomNumbers'[n] = randomNumbers[n]
             \/ m = n /\ blockProducers[n] # <<>> /\ randomNumbers'[n] = <<>>
  BY <1>5, FinishDoes
<1>6. CASE \/ \E m \in Nodes : \/ closeVoting(m) \/ advanceClock(m)
                              \/ \E msg \in net : registerVote(m, msg)
           \/ \E msg \in net : loseVote(msg)
           \/ UNCHANGED vars
  BY <1>6 DEF closeVoting, advanceClock, registerVote, loseVote, vars
<1>7. QED BY <1>1, <1>2, <1>3, <1>4, <1>5, <1>6 DEF Next

\* Appending a vote of another leaves a node's own votes where they are; its own comes last.
LEMMA OwnStep == VotingInv /\ [Next]_vars => OwnOK'
<1> SUFFICES ASSUME VotingInv, [Next]_vars, NEW n \in Nodes
             PROVE  /\ \A i, j, k \in Own(n)' : i = j \/ i = k \/ j = k
                    /\ ~inVotingPhase'[n] \/ (closing'[n] /\ blockProducers'[n] = <<>>) =>
                         \A i, j \in Own(n)' : i = j
  BY DEF OwnOK
<1> USE DEF VotingInv
<1>0. /\ \A i, j, k \in Own(n) : i = j \/ i = k \/ j = k
      /\ ~inVotingPhase[n] \/ (closing[n] /\ blockProducers[n] = <<>>) => \A i, j \in Own(n) : i = j
      /\ randomNumbers[n] \in Seq(Voters) /\ Len(randomNumbers[n]) \in Nat
  BY DEF OwnOK, TypeOK
\* The phase of node n: only closing and finishing make the second part harder.
<1>1. CASE openVoting(n)
  <2>1. ~inVotingPhase[n] /\ inVotingPhase'[n] /\ ~closing'[n]
    BY <1>1, OpenDoes DEF PhaseOK
  <2>2. \A i, j \in Own(n) : i = j
    BY <1>0, <2>1
  <2>3. CASE randomNumbers'[n] = randomNumbers[n]
    BY <1>0, <2>1, <2>3 DEF Own
  <2>4. CASE randomNumbers'[n] # randomNumbers[n]
    <3>1. /\ Voter(n, round[n]) \in Voters
          /\ randomNumbers'[n] = Append(randomNumbers[n], Voter(n, round[n]))
      BY <1>1, <2>1, <2>4, VotesDo DEF finishVoting, addVote, PhaseOK
    <3>2. /\ Len(randomNumbers'[n]) = Len(randomNumbers[n]) + 1
          /\ \A i \in 1..Len(randomNumbers[n]) : randomNumbers'[n][i] = randomNumbers[n][i]
      BY <1>0, <3>1, HasAppend
    <3>3. \A i \in Own(n)' : i \in Own(n) \/ i = Len(randomNumbers[n]) + 1
      BY <1>0, <3>2 DEF Own
    <3>4. QED BY <2>1, <2>2, <3>3
  <2>5. QED BY <2>3, <2>4
<1>2. CASE finishVoting(n)
  <2>1. closing[n] /\ ~closing'[n]
    BY <1>2, FinishDoes
  <2>2. CASE blockProducers[n] = <<>>
    <3>1. randomNumbers'[n] = randomNumbers[n]
      BY <1>2, <2>2, FinishDoes
    <3>2. QED BY <1>0, <2>1, <2>2, <3>1 DEF Own
  <2>3. CASE blockProducers[n] # <<>>
    <3>1. randomNumbers'[n] = <<>>
      BY <1>2, <2>3, FinishDoes
    <3>2. Own(n)' = {}
      BY <3>1 DEF Own
    <3>3. QED BY <3>2
  <2>4. QED BY <2>2, <2>3
<1>3. CASE ~openVoting(n) /\ ~finishVoting(n)
  <2>1. CASE randomNumbers'[n] = randomNumbers[n]
    <3>1. Own(n)' = Own(n)
      BY <2>1 DEF Own
    <3>2. inVotingPhase'[n] = inVotingPhase[n]
      BY <1>3, OpenDoes, CloseDoes, FinishDoes, AdvanceDoes, ReceivingDoes DEF Next, vars, Receiving
    <3>3. CASE closeVoting(n)
      <4>1. closing'[n] /\ inVotingPhase[n]
        BY <3>3, CloseDoes
      <4>2. CASE Len(randomNumbers[n]) > 1
        <5>1. PICK s \in Sorted(randomNumbers[n]) : blockProducers' = [blockProducers EXCEPT ![n] = Lowest(s)]
          BY <3>3, <4>2 DEF closeVoting
        <5>2. Lowest(s) # <<>>
          BY <1>0, <4>2, SortedType, LowestIs
        <5>3. blockProducers'[n] # <<>>
          BY <5>1, <5>2 DEF TypeOK
        <5>4. QED BY <1>0, <3>1, <3>2, <4>1, <5>3
      <4>3. CASE ~(Len(randomNumbers[n]) > 1)
        <5>1. \A i, j \in Own(n) : i = j
          BY <1>0, <4>3 DEF Own
        <5>2. QED BY <1>0, <3>1, <5>1
      <4>4. QED BY <4>2, <4>3
    <3>4. CASE ~closeVoting(n)
      <4>1. closing'[n] = closing[n] /\ blockProducers'[n] = blockProducers[n]
        BY <1>3, <3>4, OpenDoes, CloseDoes, FinishDoes, AdvanceDoes, ReceivingDoes DEF Next, vars, Receiving
      <4>2. QED BY <1>0, <3>1, <3>2, <4>1
    <3>5. QED BY <3>3, <3>4
  <2>2. CASE randomNumbers'[n] # randomNumbers[n]
    <3>1. PICK v \in checking[n] : /\ addVote(n, v) /\ v \in Voters /\ v.key # n
                                   /\ randomNumbers'[n] = Append(randomNumbers[n], v)
      BY <1>3, <2>2, VotesDo
    <3>2. /\ Len(randomNumbers'[n]) = Len(randomNumbers[n]) + 1
          /\ randomNumbers'[n][Len(randomNumbers[n]) + 1] = v
          /\ \A i \in 1..Len(randomNumbers[n]) : randomNumbers'[n][i] = randomNumbers[n][i]
      BY <1>0, <3>1, HasAppend
    <3>3. \A i \in Own(n)' : i \in Own(n)
      BY <1>0, <3>1, <3>2 DEF Own
    <3>4. UNCHANGED <<inVotingPhase, closing, blockProducers>>
      BY <3>1 DEF addVote
    <3>5. QED BY <1>0, <3>3, <3>4
  <2>3. QED BY <2>1, <2>2
<1>4. QED BY <1>1, <1>2, <1>3

\* Every step keeps what holds however late the votes are.
LEMMA VotingStep == VotingInv /\ [Next]_vars => VotingInv'
  BY TypeStep, PhaseStep, IgnoreStep, SenderStep, ChannelStep, OwnStep DEF VotingInv

\* And it holds at the start.
LEMMA VotingInit == Init => VotingInv
<1> SUFFICES ASSUME Init PROVE VotingInv
  OBVIOUS
<1>1. TypeOK
  <2>1. clock \in [Nodes -> 0..2 * MaxRound]
    <3>1. 0 \in 0..2 * MaxRound /\ 1 \in 0..2 * MaxRound
      BY SizeAssumption
    <3>2. QED BY <3>1 DEF Init
  <2>2. QED BY <2>1, SizeAssumption, LateAssumption DEF Init, TypeOK, inVotingTime
<1>2. PhaseOK
  BY DEF Init, PhaseOK, inVotingTime
<1>3. ASSUME NEW n \in Nodes PROVE ignore[n] <=> n \in LateNodes
  <2>1. ignore[n] <=> clock[n] % 2 = 1
    BY DEF Init, inVotingTime
  <2>2. CASE n \in LateNodes
    <3>1. clock[n] = 1
      BY <2>2 DEF Init
    <3>2. QED BY <2>1, <2>2, <3>1
  <2>3. CASE n \notin LateNodes
    <3>1. clock[n] = 0
      BY <2>3 DEF Init
    <3>2. QED BY <2>1, <2>3, <3>1
  <2>4. QED BY <2>2, <2>3
<1>4. IgnoreOK
  BY <1>3 DEF Init, IgnoreOK, Holding, Participants
<1>5. SenderOK /\ ChannelOK
  BY DEF Init, SenderOK, ChannelOK, HasVoteOf
<1>6. OwnOK
  BY DEF Init, OwnOK, Own
<1>7. QED BY <1>1, <1>2, <1>4, <1>5, <1>6 DEF VotingInv

\* A node holds at most one vote more than there are nodes: all but one of its own
\* votes have different senders.
LEMMA VotesFit ==
  ASSUME VotingInv, OneVotePerSender, IsFiniteSet(Nodes), NEW n \in Nodes
  PROVE  Len(randomNumbers[n]) <= Cardinality(Nodes) + 1
<1> DEFINE votes == randomNumbers[n]
           all == 1..Len(votes)
<1>1. votes \in Seq(Voters) /\ Len(votes) \in Nat /\ \A i \in all : votes[i].key \in Nodes
  <2>1. votes \in Seq(Voters)
    BY DEF VotingInv, TypeOK
  <2> HIDE DEF votes
  <2>2. Len(votes) \in Nat /\ \A i \in all : votes[i] \in Voters
    BY <2>1
  <2>3. \A v \in Voters : v.key \in Nodes
    BY DEF Voters
  <2>4. QED BY <2>1, <2>2, <2>3
<1>2. IsFiniteSet(all) /\ Cardinality(all) = Len(votes) /\ Cardinality(Nodes) \in Nat
  <2> HIDE DEF votes
  <2>1. 1 \in Int /\ Len(votes) \in Int
    BY <1>1
  <2>2. IsFiniteSet(1..Len(votes))
        /\ Cardinality(1..Len(votes)) = IF 1 > Len(votes) THEN 0 ELSE Len(votes) - 1 + 1
    BY <2>1, FS_Interval
  <2>3. Cardinality(1..Len(votes)) = Len(votes)
    <3>1. CASE 1 > Len(votes)
      BY <1>1, <2>2, <3>1
    <3>2. CASE ~(1 > Len(votes))
      BY <1>1, <2>2, <3>2
    <3>3. QED BY <3>1, <3>2
  <2>4. Cardinality(Nodes) \in Nat
    BY FS_CardinalityType
  <2>5. QED BY <2>2, <2>3, <2>4
<1>3. \A i, j \in all : votes[i].key = votes[j].key /\ votes[i].key # n => i = j
  BY DEF OneVotePerSender
<1>4. ASSUME NEW S \in SUBSET all, \A i, j \in S : votes[i].key = n /\ votes[j].key = n => i = j
      PROVE  Cardinality(S) <= Cardinality(Nodes)
  <2> DEFINE f == [i \in S |-> votes[i].key]
  <2>1. f \in Injection(S, Nodes)
    BY <1>1, <1>3, <1>4, ZenonT(30) DEF Injection, IsInjective
  <2> HIDE DEF f
  <2>2. QED BY <2>1, FS_Injection, ZenonT(30)
<1>5. CASE \A i, j \in all : votes[i].key = n /\ votes[j].key = n => i = j
  BY <1>1, <1>2, <1>4, <1>5
<1>6. CASE \E i, j \in all : votes[i].key = n /\ votes[j].key = n /\ i # j
  <2>1. PICK a, b \in all : votes[a].key = n /\ votes[b].key = n /\ a # b
    BY <1>6
  <2>2. \A i, j \in all \ {a} : votes[i].key = n /\ votes[j].key = n => i = j
    BY <2>1 DEF VotingInv, OwnOK, Own
  <2>3. Cardinality(all \ {a}) = Len(votes) - 1
    BY <1>2, <2>1, FS_RemoveElement, ZenonT(30)
  <2>4. Cardinality(all \ {a}) <= Cardinality(Nodes)
    BY <1>4, <2>2
  <2>5. QED BY <1>1, <1>2, <2>3, <2>4
<1>7. QED BY <1>5, <1>6

\* However late, lost or reordered the votes, a node never holds two votes of the same
\* other node, as long as it can never hold as many votes as a signature has
\* characters: the second look for the sender is skipped when these are the same.
THEOREM OneVotePerSenderCorrect ==
  IsFiniteSet(Nodes) /\ Cardinality(Nodes) + 1 < SignatureLength => (Spec => []OneVotePerSender)
<1> SUFFICES ASSUME IsFiniteSet(Nodes), Cardinality(Nodes) + 1 < SignatureLength
             PROVE  Spec => []OneVotePerSender
  OBVIOUS
<1>1. Init => VotingInv /\ OneVotePerSender
  BY VotingInit DEF Init, OneVotePerSender
<1>2. VotingInv /\ OneVotePerSender /\ [Next]_vars => OneVotePerSender'
  <2> SUFFICES ASSUME VotingInv, OneVotePerSender, [Next]_vars, NEW n \in Nodes
               PROVE  \A i, j \in 1..Len(randomNumbers'[n]) :
                        /\ randomNumbers'[n][i].key = randomNumbers'[n][j].key
                        /\ randomNumbers'[n][i].key # n
                        => i = j
    BY DEF OneVotePerSender
  <2>0. /\ randomNumbers[n] \in Seq(Voters) /\ Len(randomNumbers[n]) \in Nat
        /\ \A i, j \in 1..Len(randomNumbers[n]) :
             /\ randomNumbers[n][i].key = randomNumbers[n][j].key
             /\ randomNumbers[n][i].key # n
             => i = j
    BY DEF VotingInv, TypeOK, OneVotePerSender
  <2>1. CASE randomNumbers'[n] = randomNumbers[n] \/ randomNumbers'[n] = <<>>
    BY <2>0, <2>1
  <2>2. ASSUME NEW v \in Voters, randomNumbers'[n] = Append(randomNumbers[n], v),
               v.key = n \/ ~HasVoteOf(randomNumbers[n], v.key)
        PROVE  \A i, j \in 1..Len(randomNumbers'[n]) :
                 /\ randomNumbers'[n][i].key = randomNumbers'[n][j].key
                 /\ randomNumbers'[n][i].key # n
                 => i = j
    <3>1. /\ Len(randomNumbers'[n]) = Len(randomNumbers[n]) + 1
          /\ randomNumbers'[n][Len(randomNumbers[n]) + 1] = v
          /\ \A i \in 1..Len(randomNumbers[n]) : randomNumbers'[n][i] = randomNumbers[n][i]
      BY <2>0, <2>2, HasAppend
    <3>2. \A i \in 1..Len(randomNumbers[n]) : randomNumbers[n][i].key = v.key => v.key = n
      BY <2>2 DEF HasVoteOf
    <3>3. \A i \in 1..Len(randomNumbers'[n]) : i \in 1..Len(randomNumbers[n]) \/ i = Len(randomNumbers[n]) + 1
      BY <2>0, <3>1
    <3>4. SUFFICES ASSUME NEW i \in 1..Len(randomNumbers'[n]), NEW j \in 1..Len(randomNumbers'[n]),
                          randomNumbers'[n][i].key = randomNumbers'[n][j].key,
                          randomNumbers'[n][i].key # n
                   PROVE  i = j
      OBVIOUS
    <3>5. CASE i \in 1..Len(randomNumbers[n]) /\ j \in 1..Len(randomNumbers[n])
      BY <2>0, <3>1, <3>4, <3>5
    <3>6. CASE i \in 1..Len(randomNumbers[n]) /\ j = Len(randomNumbers[n]) + 1
      BY <3>1, <3>2, <3>4, <3>6
    <3>7. CASE i = Len(randomNumbers[n]) + 1 /\ j \in 1..Len(randomNumbers[n])
      BY <3>1, <3>2, <3>4, <3>7
    <3>8. QED BY <3>3, <3>5, <3>6, <3>7
  <2>3. Len(randomNumbers[n]) # SignatureLength
    <3>1. Cardinality(Nodes) \in Nat /\ SignatureLength \in Nat
      BY FS_CardinalityType, SizeAssumption
    <3>2. QED BY <2>0, <3>1, VotesFit
  <2>4. CASE openVoting(n) /\ randomNumbers'[n] = Append(randomNumbers[n], Voter(n, round[n]))
    <3>1. round[n] \in 1..MaxRound
      BY <2>4, RoundIs DEF openVoting, VotingInv
    <3>2. QED BY <2>2, <2>4, <3>1, VoterIs
  <2>5. QED BY <2>1, <2>2, <2>3, <2>4, VotesDo DEF VotingInv
<1>3. QED BY <1>1, <1>2, VotingStep, PTL DEF Spec

-----------------------------------------------------------------------------
(* Timely steps.                                                            *)

\* While the votes are timely none is lost and no clock outruns one.
TimelyNext ==
  \E n \in Nodes : \/ openVoting(n)
                   \/ closeVoting(n)
                   \/ finishVoting(n)
                   \/ advanceClock(n) /\ Timely(n)
                   \/ \E msg \in net : registerVote(n, msg)
                   \/ \E vote \in checking[n] : addVote(n, vote)

\* A state without an untimely step was reached by timely ones.
LEMMA UntimelyStep ==
  ASSUME TypeOK, [Next]_vars, untimely' = 0
  PROVE  untimely = 0 /\ (TimelyNext \/ UNCHANGED vars)
<1>0. untimely \in Nat
  BY LateAssumption DEF TypeOK
<1>1. ASSUME NEW n \in Nodes, advanceClock(n) PROVE untimely = 0 /\ Timely(n)
  <2>1. CASE Timely(n)
    BY <1>1, <2>1 DEF advanceClock
  <2>2. CASE ~Timely(n)
    BY <1>0, <1>1, <2>2 DEF advanceClock
  <2>3. QED BY <2>1, <2>2
<1>2. ASSUME NEW msg \in net, loseVote(msg) PROVE FALSE
  BY <1>0, <1>2 DEF loseVote
<1>3. ASSUME NEW n \in Nodes,
             openVoting(n) \/ closeVoting(n) \/ finishVoting(n)
               \/ (\E msg \in net : registerVote(n, msg)) \/ (\E v \in checking[n] : addVote(n, v))
      PROVE  untimely = 0
  BY <1>3 DEF openVoting, closeVoting, finishVoting, registerVote, addVote
<1>4. CASE UNCHANGED vars
  BY <1>4 DEF vars
<1>5. QED BY <1>1, <1>2, <1>3, <1>4 DEF Next, TimelyNext

\* Timely steps are steps.
LEMMA TimelyIsNext == TimelyNext => Next
  BY DEF TimelyNext, Next

\* What the steps do to the votes of each node.
LEMMA OpenVotes ==
  ASSUME TypeOK, NEW n \in Nodes, openVoting(n)
  PROVE  /\ ignore[n] => UNCHANGED <<randomNumbers, net>>
         /\ ~ignore[n] =>
              /\ randomNumbers'[n] = Append(randomNumbers[n], Voter(n, round[n]))
              /\ net' = net \cup {[to |-> m, vote |-> Voter(n, round[n])] : m \in Nodes \ {n}}
         /\ \A m \in Nodes : m # n => randomNumbers'[m] = randomNumbers[m]
<1>1. CASE ignore[n]
  BY <1>1 DEF openVoting, canParticipateInVoting
<1>2. CASE ~ignore[n]
  BY <1>2 DEF openVoting, canParticipateInVoting, TypeOK
<1>3. QED BY <1>1, <1>2

\* A vote goes from the network to the check, or is dropped.
LEMMA RegisterDoes ==
  ASSUME TypeOK, NEW n \in Nodes, NEW msg \in net, registerVote(n, msg)
  PROVE  /\ msg.to = n /\ net' = net \ {msg} /\ randomNumbers' = randomNumbers
         /\ \A m \in Nodes : m # n => checking'[m] = checking[m]
         /\ ~ignore[n] /\ ~HasVoteOf(randomNumbers[n], msg.vote.key) /\ msg.vote.round = round[n] =>
              checking'[n] = checking[n] \cup {msg.vote}
         /\ checking'[n] = checking[n] \/ (checking'[n] = checking[n] \cup {msg.vote} /\ ~ignore[n])
         /\ UNCHANGED <<clock, round, inVotingPhase, ignore, closing, blockProducers, subscribedTo21>>
<1> DEFINE ok == ~ignore[n] /\ ~HasVoteOf(randomNumbers[n], msg.vote.key) /\ msg.vote.round = round[n]
<1>1. /\ msg.to = n /\ net' = net \ {msg} /\ randomNumbers' = randomNumbers
      /\ UNCHANGED <<clock, round, inVotingPhase, ignore, closing, blockProducers, subscribedTo21>>
  BY DEF registerVote
<1>2. CASE ok
  <2>1. checking' = [checking EXCEPT ![n] = @ \cup {msg.vote}]
    BY <1>2 DEF registerVote, canParticipateInVoting
  <2>2. QED BY <1>1, <1>2, <2>1 DEF TypeOK
<1>3. CASE ~ok
  <2>1. checking' = checking
    BY <1>3 DEF registerVote, canParticipateInVoting
  <2>2. QED BY <1>1, <1>3, <2>1
<1>4. QED BY <1>2, <1>3

\* A vote leaves the check, and is appended if there is none of its sender.
LEMMA AddDoes ==
  ASSUME TypeOK, NEW n \in Nodes, NEW v \in checking[n], addVote(n, v)
  PROVE  /\ checking'[n] = checking[n] \ {v}
         /\ \A m \in Nodes : m # n => checking'[m] = checking[m] /\ randomNumbers'[m] = randomNumbers[m]
         /\ ~HasVoteOf(randomNumbers[n], v.key) => randomNumbers'[n] = Append(randomNumbers[n], v)
         /\ UNCHANGED <<net, clock, round, inVotingPhase, ignore, closing, blockProducers, subscribedTo21>>
<1>1. /\ checking'[n] = checking[n] \ {v} /\ \A m \in Nodes : m # n => checking'[m] = checking[m]
      /\ UNCHANGED <<net, clock, round, inVotingPhase, ignore, closing, blockProducers, subscribedTo21>>
  BY DEF addVote, TypeOK
<1>2. \A m \in Nodes : m # n => randomNumbers'[m] = randomNumbers[m]
  BY DEF addVote, TypeOK
<1>3. ~HasVoteOf(randomNumbers[n], v.key) => randomNumbers'[n] = Append(randomNumbers[n], v)
  BY DEF addVote, TypeOK
<1>4. QED BY <1>1, <1>2, <1>3

\* Where a node's clock is when it has cast its vote of round r.
LEMMA OpenedIs ==
  ASSUME TypeOK, PhaseOK, NEW k \in Nodes, NEW r \in Nat
  PROVE  Opened(k, r) <=> clock[k] >= 2 * r \/ (clock[k] + 1 = 2 * r /\ inVotingPhase[k])
<1>0. clock[k] \in Nat /\ round[k] \in Nat
  BY ClockIs
<1>1. CASE inVotingTime(k)
  BY <1>0, <1>1 DEF PhaseOK, Opened
<1>2. CASE ~inVotingTime(k) /\ inVotingPhase[k] /\ ~closing[k]
  BY <1>0, <1>2 DEF PhaseOK, Opened
<1>3. CASE ~inVotingTime(k) /\ (closing[k] \/ ~inVotingPhase[k])
  BY <1>0, <1>3 DEF PhaseOK, Opened
<1>4. QED BY <1>1, <1>2, <1>3

\* A vote is cast by opening, and then it is.
LEMMA OpenedStep ==
  ASSUME TypeOK, PhaseOK, TimelyNext
  PROVE  \A k \in Nodes, r \in Nat :
           Opened(k, r)' <=> Opened(k, r) \/ (openVoting(k) /\ round[k] = r)
<1>0. \A k \in Nodes : round[k] \in Nat
  BY ClockIs
<1>1. ASSUME NEW n \in Nodes, openVoting(n), NEW k \in Nodes, NEW r \in Nat
      PROVE  Opened(k, r)' <=> Opened(k, r) \/ (openVoting(k) /\ round[k] = r)
  <2>1. inVotingTime(n) => ~closing[n]
    BY DEF PhaseOK
  <2>2. k # n => ~openVoting(k)
    BY <1>1, OpenDoes
  <2>3. QED BY <1>0, <1>1, <2>1, <2>2, OpenDoes DEF Opened
<1>2. ASSUME NEW n \in Nodes, closeVoting(n), NEW k \in Nodes, NEW r \in Nat
      PROVE  (Opened(k, r)' <=> Opened(k, r)) /\ ~openVoting(k)
  <2>1. ~openVoting(k)
    BY <1>2, OpenDoes, CloseDoes
  <2>2. QED BY <1>0, <1>2, <2>1, CloseDoes DEF Opened
<1>3. ASSUME NEW n \in Nodes, finishVoting(n), NEW k \in Nodes, NEW r \in Nat
      PROVE  (Opened(k, r)' <=> Opened(k, r)) /\ ~openVoting(k)
  <2>1. ~openVoting(k)
    BY <1>3, OpenDoes, FinishDoes
  <2>2. QED BY <1>0, <1>3, <2>1, FinishDoes DEF Opened
<1>4. ASSUME NEW n \in Nodes,
             advanceClock(n) \/ (\E msg \in net : registerVote(n, msg)) \/ (\E v \in checking[n] : addVote(n, v)),
             NEW k \in Nodes, NEW r \in Nat
      PROVE  (Opened(k, r)' <=> Opened(k, r)) /\ ~openVoting(k)
  <2>1. UNCHANGED <<round, inVotingPhase, closing>>
    BY <1>4, AdvanceDoes, ReceivingDoes DEF Receiving
  <2>2. ~openVoting(k)
    BY <2>1, OpenDoes
  <2>3. QED BY <2>1, <2>2 DEF Opened
<1>5. QED BY <1>1, <1>2, <1>3, <1>4 DEF TimelyNext

\* No timely step leaves a loop behind that has not seen its interval.
LEMMA SyncStep == TypeOK /\ PhaseOK /\ SyncOK /\ TimelyNext => SyncOK'
<1> SUFFICES ASSUME TypeOK, PhaseOK, SyncOK, TimelyNext,
                    NEW n \in Nodes, NEW m \in Nodes, clock'[m] < clock'[n]
             PROVE  (inVotingPhase'[m] <=> inVotingTime(m)') /\ ~closing'[m]
  <2> HAVE TypeOK /\ PhaseOK /\ SyncOK /\ TimelyNext
  <2>1. inVotingPhase' \in [Nodes -> BOOLEAN]
    BY TypeStep, TimelyIsNext DEF TypeOK
  <2>2. SUFFICES ASSUME NEW n \in Nodes, NEW m \in Nodes, clock'[m] < clock'[n]
                 PROVE  LoopIsUpToDate(m)'
    BY DEF SyncOK
  <2>3. inVotingPhase'[m] \in BOOLEAN /\ inVotingTime(m)' \in BOOLEAN
    BY <2>1 DEF inVotingTime
  <2>4. (inVotingPhase'[m] <=> inVotingTime(m)') /\ ~closing'[m]
    BY <2>2
  <2>5. QED BY <2>3, <2>4 DEF LoopIsUpToDate
<1>0. \A k \in Nodes : clock[k] \in Nat
  BY ClockIs
<1>1. ASSUME clock[m] < clock[n] PROVE (inVotingPhase[m] <=> inVotingTime(m)) /\ ~closing[m]
  BY <1>1 DEF SyncOK, LoopIsUpToDate
<1>2. ASSUME NEW k \in Nodes, openVoting(k)
      PROVE  (inVotingPhase'[m] <=> inVotingTime(m)') /\ ~closing'[m]
  <2>1. inVotingTime(m)' <=> inVotingTime(m)
    BY <1>2, OpenDoes DEF inVotingTime
  <2>2. QED BY <1>1, <1>2, <2>1, OpenDoes
<1>3. ASSUME NEW k \in Nodes, closeVoting(k) \/ finishVoting(k)
      PROVE  (inVotingPhase'[m] <=> inVotingTime(m)') /\ ~closing'[m]
  <2>1. inVotingTime(m)' <=> inVotingTime(m)
    BY <1>3, CloseDoes, FinishDoes DEF inVotingTime
  <2>2. ~((inVotingPhase[k] <=> inVotingTime(k)) /\ ~closing[k]) /\ clock' = clock
    BY <1>3, CloseDoes, FinishDoes
  <2>3. m # k
    BY <1>1, <2>2
  <2>4. QED BY <1>1, <1>3, <2>1, <2>2, <2>3, CloseDoes, FinishDoes
<1>4. ASSUME NEW k \in Nodes, advanceClock(k), Timely(k)
      PROVE  (inVotingPhase'[m] <=> inVotingTime(m)') /\ ~closing'[m]
  <2>1. m # k
    BY <1>0, <1>4, AdvanceDoes DEF PhaseOK
  <2>2. (inVotingPhase[m] <=> inVotingTime(m)) /\ ~closing[m]
    BY <1>4 DEF Timely, LoopIsUpToDate
  <2>3. QED BY <1>4, <2>1, <2>2, AdvanceDoes
<1>5. CASE Receiving
  <2>1. UNCHANGED <<clock, inVotingPhase, closing>>
    BY <1>5, ReceivingDoes
  <2>2. QED BY <1>1, <2>1 DEF inVotingTime
<1>6. QED BY <1>2, <1>3, <1>4, <1>5 DEF TimelyNext, Receiving

-----------------------------------------------------------------------------
(* Votes on their way and at the signature check.                           *)

\* When node k opens the voting of a round, the others are in that round and still to
\* leave its voting time, and nobody has the vote of k yet.
LEMMA OpeningFinds ==
  ASSUME VotingInv, TimelyOK, NEW k \in Nodes, openVoting(k), NEW m \in Nodes
  PROVE  /\ ~Opened(k, round[k]) /\ ~closing[k] /\ round[k] \in 1..MaxRound
         /\ round[m] = round[k] /\ Before(m)
         /\ \A v \in checking[m] : v.key # k
         /\ ~HasVoteOf(randomNumbers[m], k)
<1> USE DEF VotingInv, TimelyOK
<1>0. /\ clock[k] \in Nat /\ round[k] \in Nat /\ clock[m] \in Nat /\ round[m] \in Nat
  BY ClockIs
<1>1. /\ inVotingTime(k) /\ ~inVotingPhase[k] /\ ~closing[k] /\ clock[k] + 1 = 2 * round[k]
      /\ round[k] \in 1..MaxRound
  BY OpenDoes, RoundIs DEF PhaseOK
<1>2. ~Opened(k, round[k])
  BY <1>0, <1>1 DEF Opened
<1>3. ~(clock[k] < clock[m])
  BY <1>1 DEF SyncOK, LoopIsUpToDate
<1>4. round[m] = round[k] /\ ~closing[m] /\ clock[m] < 2 * round[m]
  <2>1. CASE inVotingTime(m)
    <3>1. clock[m] + 1 = 2 * round[m] /\ ~closing[m]
      BY <2>1 DEF PhaseOK
    <3>2. clock[m] <= clock[k] /\ clock[k] <= clock[m] + 1
      BY <1>0, <1>3 DEF PhaseOK
    <3>3. QED BY <1>0, <1>1, <3>1, <3>2
  <2>2. CASE ~inVotingTime(m)
    <3>1. clock[m] < clock[k]
      <4>1. clock[m] # clock[k]
        BY <1>1, <2>2 DEF inVotingTime
      <4>2. QED BY <1>0, <1>3, <4>1
    <3>2. ~inVotingPhase[m] /\ ~closing[m]
      BY <2>2, <3>1 DEF SyncOK, LoopIsUpToDate
    <3>3. clock[m] + 2 = 2 * round[m]
      BY <2>2, <3>2 DEF PhaseOK
    <3>4. clock[k] <= clock[m] + 1
      BY DEF PhaseOK
    <3>5. QED BY <1>0, <1>1, <3>1, <3>2, <3>3, <3>4
  <2>3. QED BY <2>1, <2>2
<1>5. \A v \in checking[m] : v.key # k
  BY <1>2, <1>4 DEF CheckingOK, Cast
<1>6. ~HasVoteOf(randomNumbers[m], k)
  <2>1. Holding(m) = round[k]
    BY <1>4 DEF Holding
  <2>2. QED BY <1>2, <2>1 DEF VotesOK, Cast, HasVoteOf
<1>7. QED BY <1>1, <1>2, <1>4, <1>5, <1>6 DEF Before

\* A loop that closes or finishes has no vote on its way any more.
LEMMA ClosingIsNotBefore ==
  ASSUME TypeOK, PhaseOK, NEW n \in Nodes, closeVoting(n) \/ finishVoting(n)
  PROVE  ~Before(n)
<1>0. clock[n] \in Nat /\ round[n] \in Nat
  BY ClockIs
<1>1. CASE closeVoting(n)
  BY <1>0, <1>1, CloseDoes DEF PhaseOK, Before
<1>2. CASE finishVoting(n)
  BY <1>2, FinishDoes DEF Before
<1>3. QED BY <1>1, <1>2

\* And the clock of one that has does not leave voting time.
LEMMA AdvanceKeepsBefore ==
  ASSUME TypeOK, PhaseOK, NEW n \in Nodes, advanceClock(n), ~inVotingTime(n)
  PROVE  Before(n)'
<1>0. clock[n] \in Nat /\ round[n] \in Nat
  BY ClockIs
<1>1. /\ ~inVotingPhase[n] /\ ~closing[n] /\ clock'[n] = clock[n] + 1
      /\ closing' = closing /\ round' = round
  BY AdvanceDoes
<1>2. clock[n] + 2 = 2 * round[n]
  BY <1>1 DEF PhaseOK
<1>3. QED BY <1>0, <1>1, <1>2 DEF Before

\* A vote for n that is on its way or at the check when a loop goes on.
LEMMA BeforeStep ==
  ASSUME VotingInv, TimelyOK, TimelyNext, NEW n \in Nodes, Before(n),
         NEW v \in Voters, v \in checking[n] \/ (\E msg \in net : msg.to = n /\ msg.vote = v)
  PROVE  Before(n)' /\ round'[n] = round[n] /\ ignore'[n] = ignore[n]
<1> USE DEF VotingInv
<1>1. ASSUME NEW k \in Nodes, closeVoting(k) \/ finishVoting(k)
      PROVE  Before(n)' /\ round'[n] = round[n] /\ ignore'[n] = ignore[n]
  <2>1. k # n
    BY <1>1, ClosingIsNotBefore
  <2>2. QED BY <1>1, <2>1, CloseDoes, FinishDoes DEF Before
<1>2. ASSUME NEW k \in Nodes, advanceClock(k), Timely(k)
      PROVE  Before(n)' /\ round'[n] = round[n] /\ ignore'[n] = ignore[n]
  <2>0. round' = round /\ ignore' = ignore
    BY <1>2, AdvanceDoes
  <2>1. CASE k = n
    <3>1. ~VotesRegistered(n)
      BY DEF VotesRegistered
    <3>2. ~inVotingTime(n)
      BY <1>2, <2>1, <3>1 DEF Timely
    <3>3. QED BY <1>2, <2>0, <2>1, <3>2, AdvanceKeepsBefore
  <2>2. CASE k # n
    BY <1>2, <2>0, <2>2, AdvanceDoes DEF Before
  <2>3. QED BY <2>1, <2>2
<1>3. CASE Receiving \/ \E k \in Nodes : openVoting(k)
  <2>1. UNCHANGED <<clock, round, ignore, closing>>
    BY <1>3, ReceivingDoes, OpenDoes
  <2>2. QED BY <2>1 DEF Before
<1>4. QED BY <1>1, <1>2, <1>3 DEF TimelyNext, Receiving

\* A vote that was cast stays so.
LEMMA CastStep ==
  ASSUME VotingInv, TimelyNext, NEW v \in Voters
  PROVE  \A r \in Nat : Cast(v, r) => Cast(v, r)'
<1>1. v.key \in Nodes
  BY DEF Voters
<1>2. \A r \in Nat : Opened(v.key, r) => Opened(v.key, r)'
  BY <1>1, OpenedStep DEF VotingInv
<1>3. QED BY <1>2 DEF Cast

\* Every vote at the check stays one of its receiver's round, and new there.
LEMMA CheckingStep == VotingInv /\ TimelyOK /\ TimelyNext => CheckingOK'
<1> SUFFICES ASSUME VotingInv, TimelyOK, TimelyNext, NEW n \in Nodes, NEW v \in checking'[n]
             PROVE  /\ Cast(v, round[n])' /\ Before(n)' /\ ~ignore'[n]
                    /\ ~HasVoteOf(randomNumbers'[n], v.key)
  BY DEF CheckingOK
<1> USE DEF VotingInv
<1>0. round[n] \in Nat /\ randomNumbers[n] \in Seq(Voters)
  BY ClockIs DEF TypeOK
\* It was at the check before, or arrives there now.
<1>1. /\ v \in Voters /\ Cast(v, round[n]) /\ Before(n) /\ ~ignore[n]
      /\ ~HasVoteOf(randomNumbers[n], v.key) /\ v.key # n
      /\ v \in checking[n] \/ (\E msg \in net : msg.to = n /\ msg.vote = v)
  <2>1. CASE v \in checking[n]
    BY <2>1 DEF TimelyOK, CheckingOK, SenderOK, TypeOK
  <2>2. CASE v \notin checking[n]
    <3>1. PICK msg \in net : registerVote(n, msg) /\ v = msg.vote
      <4>1. ASSUME NEW k \in Nodes, NEW w \in checking[k], addVote(k, w) PROVE FALSE
        BY <2>2, <4>1, AddDoes
      <4>2. ASSUME NEW k \in Nodes, openVoting(k) \/ closeVoting(k) \/ finishVoting(k) \/ advanceClock(k)
            PROVE  FALSE
        BY <2>2, <4>2, OpenDoes, CloseDoes, FinishDoes, AdvanceDoes
      <4>3. ASSUME NEW k \in Nodes, NEW msg \in net, registerVote(k, msg)
            PROVE  k = n /\ v = msg.vote
        BY <2>2, <4>3, RegisterDoes
      <4>4. QED BY <4>1, <4>2, <4>3 DEF TimelyNext
    <3>2. msg.to = n /\ ~ignore[n] /\ v \in Voters
      BY <2>2, <3>1, RegisterDoes DEF TypeOK
    <3>3. v.key # n
      BY <3>1, <3>2 DEF SenderOK
    <3>4. Cast(v, round[n]) /\ Before(n) /\ ~HasVoteOf(randomNumbers[n], v.key)
      BY <3>1, <3>2 DEF TimelyOK, NetOK
    <3>5. QED BY <3>1, <3>2, <3>3, <3>4
  <2>3. QED BY <2>1, <2>2
<1>2. Before(n)' /\ round'[n] = round[n] /\ ignore'[n] = ignore[n]
  BY <1>1, BeforeStep
<1>3. Cast(v, round[n])'
  BY <1>0, <1>1, <1>2, CastStep DEF Cast, Opened
<1>4. ~HasVoteOf(randomNumbers'[n], v.key)
  <2>1. CASE randomNumbers'[n] = randomNumbers[n]
    BY <1>1, <2>1
  <2>2. CASE openVoting(n) /\ randomNumbers'[n] = Append(randomNumbers[n], Voter(n, round[n]))
               /\ Voter(n, round[n]) \in Voters
    <3>1. Voter(n, round[n]).key # v.key
      BY <1>1 DEF Voter
    <3>2. QED BY <1>0, <1>1, <2>2, <3>1, HasAppend
  <2>3. ASSUME NEW w \in checking[n], addVote(n, w), w \in Voters,
               randomNumbers'[n] = Append(randomNumbers[n], w)
        PROVE  ~HasVoteOf(randomNumbers'[n], v.key)
    <3>1. v \in checking[n] /\ v # w
      BY <2>3, AddDoes
    <3>2. Cast(w, round[n])
      BY DEF TimelyOK, CheckingOK
    <3>3. v.key # w.key
      BY <1>1, <3>1, <3>2 DEF Cast
    <3>4. QED BY <1>0, <1>1, <2>3, <3>3, HasAppend
  <2>4. CASE randomNumbers'[n] = <<>>
    BY <2>4, HasNothing
  <2>5. QED BY <2>1, <2>2, <2>3, <2>4, VotesDo, TimelyIsNext
<1>5. QED BY <1>1, <1>2, <1>3, <1>4

\* So does every vote on its way.
LEMMA NetStep == VotingInv /\ TimelyOK /\ TimelyNext => NetOK'
<1> SUFFICES ASSUME VotingInv, TimelyOK, TimelyNext, NEW msg \in net'
             PROVE  /\ Cast(msg.vote, round[msg.to])' /\ Before(msg.to)'
                    /\ msg.vote \notin checking'[msg.to]
                    /\ ~HasVoteOf(randomNumbers'[msg.to], msg.vote.key)
  BY DEF NetOK
<1> USE DEF VotingInv
\* It was on its way before.
<1>1. CASE msg \in net
  <2> DEFINE n == msg.to
             v == msg.vote
  <2>0. n \in Nodes /\ v \in Voters /\ round[n] \in Nat /\ randomNumbers[n] \in Seq(Voters) /\ v.key # n
        /\ msg = [to |-> n, vote |-> v]
    <3>1. msg \in [to : Nodes, vote : Voters]
      BY <1>1 DEF TypeOK
    <3>2. n \in Nodes /\ v \in Voters /\ msg = [to |-> n, vote |-> v]
      BY <3>1
    <3>3. QED BY <1>1, <3>2, ClockIs DEF SenderOK, TypeOK
  <2>1. /\ Cast(v, round[n]) /\ Before(n) /\ v \notin checking[n]
        /\ ~HasVoteOf(randomNumbers[n], v.key)
    BY <1>1 DEF TimelyOK, NetOK
  <2>2. Before(n)' /\ round'[n] = round[n]
    BY <1>1, <2>0, <2>1, BeforeStep
  <2>3. Cast(v, round[n])'
    BY <2>0, <2>1, <2>2, CastStep DEF Cast, Opened
  <2>4. v \notin checking'[n]
    <3>1. SUFFICES ASSUME v \in checking'[n] PROVE FALSE
      OBVIOUS
    <3>2. ASSUME NEW k \in Nodes, NEW w \in checking[k], addVote(k, w) PROVE FALSE
      BY <2>0, <2>1, <3>1, <3>2, AddDoes
    <3>3. ASSUME NEW k \in Nodes, openVoting(k) \/ closeVoting(k) \/ finishVoting(k) \/ advanceClock(k)
          PROVE  FALSE
      BY <2>1, <3>1, <3>3, OpenDoes, CloseDoes, FinishDoes, AdvanceDoes
    <3>4. ASSUME NEW k \in Nodes, NEW other \in net, registerVote(k, other) PROVE FALSE
      <4>1. other.to = n /\ other.vote = v /\ net' = net \ {other}
        BY <2>0, <2>1, <3>1, <3>4, RegisterDoes
      <4>2. other = [to |-> other.to, vote |-> other.vote]
        BY DEF TypeOK
      <4>3. QED BY <2>0, <4>1, <4>2
    <3>5. QED BY <3>2, <3>3, <3>4 DEF TimelyNext
  <2>5. ~HasVoteOf(randomNumbers'[n], v.key)
    <3>1. CASE randomNumbers'[n] = randomNumbers[n]
      BY <2>1, <3>1
    <3>2. CASE openVoting(n) /\ randomNumbers'[n] = Append(randomNumbers[n], Voter(n, round[n]))
                 /\ Voter(n, round[n]) \in Voters
      <4>1. Voter(n, round[n]).key # v.key
        BY <2>0 DEF Voter
      <4>2. QED BY <2>0, <2>1, <3>2, <4>1, HasAppend
    <3>3. ASSUME NEW w \in checking[n], addVote(n, w), w \in Voters,
                 randomNumbers'[n] = Append(randomNumbers[n], w)
          PROVE  ~HasVoteOf(randomNumbers'[n], v.key)
      <4>1. Cast(w, round[n])
        BY <2>0 DEF TimelyOK, CheckingOK
      <4>2. v.key # w.key
        BY <2>1, <4>1 DEF Cast
      <4>3. QED BY <2>0, <2>1, <3>3, <4>2, HasAppend
    <3>4. CASE randomNumbers'[n] = <<>>
      BY <3>4, HasNothing
    <3>5. QED BY <2>0, <3>1, <3>2, <3>3, <3>4, VotesDo, TimelyIsNext
  <2>6. QED BY <2>2, <2>3, <2>4, <2>5
\* It is sent now.
<1>2. CASE msg \notin net
  <2>1. PICK k \in Nodes : openVoting(k)
    BY <1>2, CloseDoes, FinishDoes, AdvanceDoes, RegisterDoes, AddDoes DEF TimelyNext
  <2>2. PICK m \in Nodes \ {k} : msg = [to |-> m, vote |-> Voter(k, round[k])] /\ ~ignore[k]
    BY <1>2, <2>1, OpenVotes
  <2>3. /\ ~Opened(k, round[k]) /\ ~closing[k] /\ round[k] \in 1..MaxRound
        /\ round[m] = round[k] /\ Before(m)
        /\ \A v \in checking[m] : v.key # k
        /\ ~HasVoteOf(randomNumbers[m], k)
    BY <2>1, OpeningFinds
  <2>4. msg.to = m /\ msg.vote = Voter(k, round[k]) /\ msg.vote.key = k
    BY <2>2, <2>3, VoterIs
  <2>5. UNCHANGED <<clock, round, closing, checking>> /\ inVotingPhase'[k] /\ randomNumbers'[m] = randomNumbers[m]
    BY <2>1, <2>2, OpenDoes, OpenVotes
  <2>6. Cast(msg.vote, round[msg.to])'
    <3>1. k \in Participants(round[k])
      BY <2>2, <2>3 DEF IgnoreOK, Holding
    <3>2. QED BY <2>3, <2>4, <2>5, <3>1 DEF Cast, Opened
  <2>7. Before(msg.to)'
    BY <2>3, <2>4, <2>5 DEF Before
  <2>8. QED BY <2>3, <2>4, <2>5, <2>6, <2>7
<1>3. QED BY <1>1, <1>2

-----------------------------------------------------------------------------
(* The votes that are held, and the election.                               *)

\* A node that closes a round in which it took part holds the vote of every participant.
LEMMA ClosingHolds ==
  ASSUME VotingInv, TimelyOK, NEW n \in Nodes, closeVoting(n), ~ignore[n], NEW k \in Participants(round[n])
  PROVE  HasVoteOf(randomNumbers[n], k)
<1> USE DEF VotingInv, TimelyOK
<1>1. ~inVotingTime(n) /\ inVotingPhase[n] /\ ~closing[n] /\ Holding(n) = round[n]
  BY CloseDoes DEF Holding
<1>2. clock[n] = 2 * round[n]
  BY <1>1 DEF PhaseOK
<1>3. k \in Nodes
  BY DEF Participants
<1>4. clock[n] \in Nat /\ round[n] \in Nat /\ clock[k] \in Nat
  BY <1>3, ClockIs
<1>5. Opened(k, round[n])
  <2>1. CASE clock[k] >= clock[n]
    BY <1>2, <1>3, <1>4, <2>1, OpenedIs
  <2>2. CASE clock[k] < clock[n]
    <3>1. clock[k] + 1 = 2 * round[n]
      BY <1>2, <1>3, <1>4, <2>2 DEF PhaseOK
    <3>2. LoopIsUpToDate(k)
      BY <1>3, <2>2 DEF SyncOK
    <3>3. inVotingTime(k)
      BY <1>4, <3>1 DEF inVotingTime
    <3>4. inVotingPhase[k]
      BY <3>2, <3>3 DEF LoopIsUpToDate
    <3>5. QED BY <1>3, <1>4, <3>1, <3>4, OpenedIs
  <2>3. QED BY <1>4, <2>1, <2>2
<1>6. ~Before(n)
  BY ClosingIsNotBefore
<1>7. checking[n] = {}
  BY <1>6 DEF CheckingOK
<1>8. \A msg \in net : msg.to # n
  BY <1>6 DEF NetOK
<1>9. QED BY <1>1, <1>3, <1>5, <1>7, <1>8 DEF ArrivedOK

\* Then the votes it holds are those of the round.
LEMMA ClosingVotes ==
  ASSUME VotingInv, TimelyOK, NEW n \in Nodes, closeVoting(n), ~ignore[n]
  PROVE  /\ {randomNumbers[n][i] : i \in 1..Len(randomNumbers[n])} = Ballots(round[n])
         /\ \A i, j \in 1..Len(randomNumbers[n]) : randomNumbers[n][i] = randomNumbers[n][j] => i = j
<1> DEFINE votes == randomNumbers[n]
<1>1. Holding(n) = round[n]
  BY CloseDoes DEF Holding, VotingInv
<1>2. \A i \in 1..Len(votes) : Cast(votes[i], round[n])
  BY <1>1 DEF TimelyOK, VotesOK
<1>3. \A i \in 1..Len(votes) : votes[i] \in Ballots(round[n])
  BY <1>2 DEF Cast, Ballots
<1>4. ASSUME NEW k \in Participants(round[n])
      PROVE  \E i \in 1..Len(votes) : votes[i] = Voter(k, round[n])
  <2>1. PICK i \in 1..Len(votes) : votes[i].key = k
    BY ClosingHolds DEF HasVoteOf
  <2>2. QED BY <1>2, <2>1 DEF Cast
<1>5. {votes[i] : i \in 1..Len(votes)} \subseteq Ballots(round[n])
  BY <1>3
<1>6. Ballots(round[n]) \subseteq {votes[i] : i \in 1..Len(votes)}
  BY <1>4 DEF Ballots
<1>7. \A i, j \in 1..Len(votes) : votes[i] = votes[j] => i = j
  BY DEF TimelyOK, VotesOK
<1>8. QED BY <1>5, <1>6, <1>7

\* Nobody is alone, so there are enough for an election.
LEMMA ClosingElects ==
  ASSUME VotingInv, TimelyOK, NobodyAlone, NEW n \in Nodes, closeVoting(n), ~ignore[n]
  PROVE  \E s \in Elections(round[n]) : blockProducers'[n] = Lowest(s) /\ Lowest(s) # <<>>
<1> USE DEF VotingInv
<1>0. randomNumbers[n] \in Seq(Voters) /\ Len(randomNumbers[n]) \in Nat
  BY DEF TypeOK
<1>1. round[n] \in 1..MaxRound
  BY RoundIs, CloseDoes
<1>2. n \in Participants(round[n])
  BY CloseDoes DEF IgnoreOK, Holding
<1>3. PICK k \in Participants(round[n]) : k # n
  BY <1>1, <1>2 DEF NobodyAlone
<1>4. PICK i \in 1..Len(randomNumbers[n]) : randomNumbers[n][i].key = n
  BY <1>2, ClosingHolds DEF HasVoteOf
<1>5. PICK j \in 1..Len(randomNumbers[n]) : randomNumbers[n][j].key = k
  BY <1>3, ClosingHolds DEF HasVoteOf
<1>6. Len(randomNumbers[n]) > 1
  BY <1>0, <1>3, <1>4, <1>5
<1>7. PICK s \in Sorted(randomNumbers[n]) : blockProducers' = [blockProducers EXCEPT ![n] = Lowest(s)]
  BY <1>6 DEF closeVoting
<1>8. blockProducers'[n] = Lowest(s)
  BY <1>7 DEF TypeOK
<1>9. /\ s \in Seq(Voters) /\ Len(s) = Len(randomNumbers[n])
      /\ {s[x] : x \in 1..Len(s)} = Ballots(round[n])
      /\ \A x, y \in 1..Len(s) : s[x] = s[y] => x = y
      /\ \A x, y \in 1..Len(s) : x < y => s[x].number <= s[y].number
  BY <1>0, SortedIs, ClosingVotes
<1>10. s \in Elections(round[n])
  BY <1>9 DEF Elections
<1>11. Lowest(s) # <<>>
  BY <1>0, <1>6, <1>9, LowestIs
<1>12. QED BY <1>8, <1>10, <1>11

\* A node that closes a round elects the lowest of its votes.
LEMMA ElectedStep == VotingInv /\ TimelyOK /\ NobodyAlone /\ TimelyNext => ElectedOK'
<1> SUFFICES ASSUME VotingInv, TimelyOK, NobodyAlone, TimelyNext, NEW n \in Nodes
             PROVE  IF round'[n] > 1 /\ n \in Participants(round'[n] - 1)
                    THEN \E s \in Elections(round'[n] - 1) : blockProducers'[n] = Lowest(s)
                    ELSE blockProducers'[n] = <<>>
  BY DEF ElectedOK
<1> USE DEF VotingInv
<1>1. CASE closeVoting(n)
  <2>0. round[n] \in Nat /\ round[n] >= 1 /\ round'[n] = round[n] + 1 /\ Holding(n) = round[n]
    BY <1>1, CloseDoes, ClockIs DEF Holding
  <2>1. round'[n] > 1 /\ round'[n] - 1 = round[n]
    BY <2>0
  <2>2. CASE ignore[n]
    <3>1. n \notin Participants(round[n])
      BY <2>0, <2>2 DEF IgnoreOK
    <3>2. randomNumbers[n] = <<>>
      BY <2>2 DEF TimelyOK, VotesOK
    <3>3. ~(Len(randomNumbers[n]) > 1)
      BY <3>2
    <3>4. blockProducers'[n] = <<>>
      BY <1>1, <3>3 DEF closeVoting, TypeOK
    <3>5. QED BY <2>1, <3>1, <3>4
  <2>3. CASE ~ignore[n]
    <3>1. n \in Participants(round[n])
      BY <2>0, <2>3 DEF IgnoreOK
    <3>2. \E s \in Elections(round[n]) : blockProducers'[n] = Lowest(s)
      BY <1>1, <2>3, ClosingElects
    <3>3. QED BY <2>1, <3>1, <3>2
  <2>4. QED BY <2>2, <2>3
<1>2. CASE ~closeVoting(n)
  <2>1. round'[n] = round[n] /\ blockProducers'[n] = blockProducers[n]
    BY <1>2, OpenDoes, CloseDoes, FinishDoes, AdvanceDoes, RegisterDoes, AddDoes DEF TimelyNext
  <2>2. QED BY <2>1 DEF TimelyOK, ElectedOK
<1>3. QED BY <1>1, <1>2

\* The votes held are of the round, and one of each node.
LEMMA VotesStep == VotingInv /\ TimelyOK /\ NobodyAlone /\ TimelyNext => VotesOK'
<1> SUFFICES ASSUME VotingInv, TimelyOK, NobodyAlone, TimelyNext, NEW n \in Nodes
             PROVE  /\ \A i \in 1..Len(randomNumbers'[n]) : Cast(randomNumbers[n][i], Holding(n))'
                    /\ \A i, j \in 1..Len(randomNumbers'[n]) :
                         randomNumbers'[n][i].key = randomNumbers'[n][j].key => i = j
                    /\ ignore'[n] => randomNumbers'[n] = <<>>
                    /\ closing'[n] /\ blockProducers'[n] = <<>> => randomNumbers'[n] = <<>>
  BY DEF VotesOK
<1> USE DEF VotingInv
<1>0. /\ randomNumbers[n] \in Seq(Voters) /\ Len(randomNumbers[n]) \in Nat
      /\ \A i \in 1..Len(randomNumbers[n]) : randomNumbers[n][i] \in Voters /\ randomNumbers[n][i].key \in Nodes
      /\ Holding(n) \in Nat
  <2>1. randomNumbers[n] \in Seq(Voters)
    BY DEF TypeOK
  <2>2. \A v \in Voters : v.key \in Nodes
    BY DEF Voters
  <2>3. QED BY <2>1, <2>2, HoldingIs
<1>a. /\ \A i \in 1..Len(randomNumbers[n]) : Cast(randomNumbers[n][i], Holding(n))
      /\ \A i, j \in 1..Len(randomNumbers[n]) : randomNumbers[n][i].key = randomNumbers[n][j].key => i = j
      /\ ignore[n] => randomNumbers[n] = <<>>
      /\ closing[n] /\ blockProducers[n] = <<>> => randomNumbers[n] = <<>>
  BY DEF TimelyOK, VotesOK
<1>1. CASE finishVoting(n)
  <2>1. randomNumbers'[n] = <<>>
    <3>1. CASE blockProducers[n] = <<>>
      BY <1>1, <1>a, <3>1, FinishDoes
    <3>2. CASE blockProducers[n] # <<>>
      BY <1>1, <3>2, FinishDoes
    <3>3. QED BY <3>1, <3>2
  <2>2. QED BY <2>1
<1>2. CASE ~finishVoting(n)
  <2>0. Holding(n)' = Holding(n)
    BY <1>2, HoldingStep, TimelyIsNext
  <2>1. ASSUME NEW v \in Voters, Cast(v, Holding(n)) PROVE Cast(v, Holding(n))'
    <3>1. PICK r \in Nat : r = Holding(n)
      BY <1>0
    <3>2. Cast(v, r)'
      BY <2>1, <3>1, CastStep
    <3>3. QED BY <2>0, <3>1, <3>2 DEF Cast, Opened
  <2>2. ignore'[n] = ignore[n]
    BY <1>2, OpenDoes, CloseDoes, FinishDoes, AdvanceDoes, RegisterDoes, AddDoes DEF TimelyNext
  <2>3. CASE randomNumbers'[n] = randomNumbers[n]
    <3>1. closing'[n] /\ blockProducers'[n] = <<>> => randomNumbers[n] = <<>>
      <4>1. CASE closeVoting(n)
        BY <1>a, <4>1, ClosingElects
      <4>2. CASE ~closeVoting(n)
        <5>1. closing'[n] = closing[n] /\ blockProducers'[n] = blockProducers[n]
          BY <1>2, <4>2, OpenDoes, CloseDoes, FinishDoes, AdvanceDoes, RegisterDoes, AddDoes DEF TimelyNext
        <5>2. QED BY <1>a, <5>1
      <4>3. QED BY <4>1, <4>2
    <3>2. \A i \in 1..Len(randomNumbers'[n]) : Cast(randomNumbers[n][i], Holding(n))'
      <4>1. SUFFICES ASSUME NEW i \in 1..Len(randomNumbers[n]) PROVE Cast(randomNumbers[n][i], Holding(n))'
        BY <2>3
      <4>2. PICK v \in Voters : v = randomNumbers[n][i]
        BY <1>0
      <4>3. Cast(v, Holding(n))'
        BY <1>a, <2>1, <4>2
      <4>4. QED BY <2>3, <4>2, <4>3 DEF Cast, Opened
    <3>3. QED BY <1>a, <2>2, <2>3, <3>1, <3>2
  <2>4. ASSUME NEW v \in Voters, randomNumbers'[n] = Append(randomNumbers[n], v),
               Cast(v, Holding(n))', ~HasVoteOf(randomNumbers[n], v.key), ~ignore[n], ~closing'[n]
        PROVE  /\ \A i \in 1..Len(randomNumbers'[n]) : Cast(randomNumbers[n][i], Holding(n))'
               /\ \A i, j \in 1..Len(randomNumbers'[n]) :
                    randomNumbers'[n][i].key = randomNumbers'[n][j].key => i = j
    <3>1. /\ Len(randomNumbers'[n]) = Len(randomNumbers[n]) + 1
          /\ randomNumbers'[n][Len(randomNumbers[n]) + 1] = v
          /\ \A i \in 1..Len(randomNumbers[n]) : randomNumbers'[n][i] = randomNumbers[n][i]
      BY <1>0, <2>4, HasAppend
    <3>2. \A i \in 1..Len(randomNumbers[n]) : randomNumbers[n][i].key # v.key
      BY <2>4 DEF HasVoteOf
    <3>3. \A i \in 1..Len(randomNumbers'[n]) : i \in 1..Len(randomNumbers[n]) \/ i = Len(randomNumbers[n]) + 1
      BY <1>0, <3>1
    <3>4. ASSUME NEW i \in 1..Len(randomNumbers'[n]) PROVE Cast(randomNumbers[n][i], Holding(n))'
      <4>1. CASE i = Len(randomNumbers[n]) + 1
        BY <2>4, <3>1, <4>1 DEF Cast, Opened
      <4>2. CASE i \in 1..Len(randomNumbers[n])
        <5>1. PICK w \in Voters : w = randomNumbers[n][i]
          BY <1>0, <4>2
        <5>2. Cast(w, Holding(n))'
          BY <1>a, <2>1, <4>2, <5>1
        <5>3. randomNumbers'[n][i] = w
          BY <3>1, <4>2, <5>1
        <5>4. QED BY <5>2, <5>3 DEF Cast, Opened
      <4>3. QED BY <3>3, <4>1, <4>2
    <3>5. ASSUME NEW i \in 1..Len(randomNumbers'[n]), NEW j \in 1..Len(randomNumbers'[n]),
                 randomNumbers'[n][i].key = randomNumbers'[n][j].key
          PROVE  i = j
      <4>1. CASE i \in 1..Len(randomNumbers[n]) /\ j \in 1..Len(randomNumbers[n])
        BY <1>a, <3>1, <3>5, <4>1
      <4>2. CASE i \in 1..Len(randomNumbers[n]) /\ j = Len(randomNumbers[n]) + 1
        BY <3>1, <3>2, <3>5, <4>2
      <4>3. CASE i = Len(randomNumbers[n]) + 1 /\ j \in 1..Len(randomNumbers[n])
        BY <3>1, <3>2, <3>5, <4>3
      <4>4. QED BY <3>3, <4>1, <4>2, <4>3
    <3>6. QED BY <3>4, <3>5
  <2>5. CASE /\ openVoting(n) /\ ~ignore[n] /\ Voter(n, round[n]) \in Voters
             /\ randomNumbers'[n] = Append(randomNumbers[n], Voter(n, round[n]))
    <3>1. ~closing[n] /\ round[n] \in 1..MaxRound /\ ~HasVoteOf(randomNumbers[n], n)
      BY <2>5, OpeningFinds
    <3>2. UNCHANGED <<round, closing>> /\ inVotingPhase'[n] /\ Holding(n) = round[n]
      BY <2>5, <3>1, OpenDoes DEF Holding
    <3>3. n \in Participants(round[n])
      BY <2>5, <3>2 DEF IgnoreOK
    <3>4. PICK v \in Voters : v = Voter(n, round[n]) /\ v.key = n
      BY <2>5, <3>1, VoterIs
    <3>5. Cast(v, Holding(n))'
      BY <2>0, <3>1, <3>2, <3>3, <3>4 DEF Cast, Opened
    <3>6. QED BY <2>2, <2>4, <2>5, <3>1, <3>2, <3>4, <3>5
  <2>6. ASSUME NEW v \in checking[n], addVote(n, v), v \in Voters,
               randomNumbers'[n] = Append(randomNumbers[n], v)
        PROVE  /\ \A i \in 1..Len(randomNumbers'[n]) : Cast(randomNumbers[n][i], Holding(n))'
               /\ \A i, j \in 1..Len(randomNumbers'[n]) :
                    randomNumbers'[n][i].key = randomNumbers'[n][j].key => i = j
               /\ ~ignore'[n] /\ ~closing'[n]
    <3>1. Cast(v, round[n]) /\ ~closing[n] /\ ~ignore[n] /\ ~HasVoteOf(randomNumbers[n], v.key)
      BY DEF TimelyOK, CheckingOK, Before
    <3>2. Cast(v, Holding(n)) /\ closing'[n] = closing[n]
      BY <2>6, <3>1, AddDoes DEF Holding
    <3>3. Cast(v, Holding(n))'
      BY <2>1, <2>6, <3>2
    <3>4. QED BY <2>2, <2>4, <2>6, <3>1, <3>2, <3>3
  <2>7. QED BY <1>2, <2>3, <2>5, <2>6, VotesDo, TimelyIsNext
<1>3. QED BY <1>1, <1>2

\* No vote that was cast gets lost.
LEMMA ArrivedStep == VotingInv /\ TimelyOK /\ TimelyNext => ArrivedOK'
<1> SUFFICES ASSUME VotingInv, TimelyOK, TimelyNext, NEW n \in Nodes, NEW k \in Nodes, NEW r \in Nat,
                    r = Holding(n)', ~ignore'[n], k \in Participants(r), Opened(k, r)'
             PROVE  \/ HasVoteOf(randomNumbers'[n], k)
                    \/ Voter(k, r) \in checking'[n]
                    \/ [to |-> n, vote |-> Voter(k, r)] \in net'
  <2> HAVE VotingInv /\ TimelyOK /\ TimelyNext
  <2>1. \A n \in Nodes : Holding(n)' \in Nat
    BY HoldingStep, HoldingIs, TimelyIsNext, ClockIs DEF VotingInv
  <2>2. QED BY <2>1 DEF ArrivedOK, Opened
<1> USE DEF VotingInv
<1>0. /\ randomNumbers[n] \in Seq(Voters) /\ round[k] \in Nat /\ round[n] \in Nat /\ clock[k] \in Nat
      /\ clock[n] \in Nat
  BY ClockIs DEF TypeOK
\* A loop that finishes is as far as any: nobody has cast a vote of the next round.
<1>1. CASE finishVoting(n)
  <2>1. closing[n] /\ r = round[n] /\ ~LoopIsUpToDate(n)
    BY <1>1, HoldingStep, TimelyIsNext DEF LoopIsUpToDate
  <2>2. clock[n] + 2 = 2 * round[n]
    BY <2>1 DEF PhaseOK
  <2>3. ~(clock[n] < clock[k])
    BY <2>1 DEF TimelyOK, SyncOK
  <2>4. ~Opened(k, r)
    BY <1>0, <2>1, <2>2, <2>3, OpenedIs, SMTT(30)
  <2>5. ~openVoting(k)
    BY <1>1, FinishDoes, OpenDoes
  <2>6. QED BY <2>4, <2>5, OpenedStep
<1>2. CASE ~finishVoting(n)
  <2>0. r = Holding(n) /\ ignore'[n] = ignore[n]
    <3>1. r = Holding(n)
      BY <1>2, HoldingStep, TimelyIsNext
    <3>2. ignore'[n] = ignore[n]
      BY <1>2, OpenDoes, CloseDoes, FinishDoes, AdvanceDoes, RegisterDoes, AddDoes DEF TimelyNext
    <3>3. QED BY <3>1, <3>2
  \* The vote is cast now.
  <2>1. CASE ~Opened(k, r)
    <3>1. openVoting(k) /\ round[k] = r
      BY <2>1, OpenedStep
    <3>2. ~closing[k] /\ round[k] \in 1..MaxRound
      BY <3>1, OpeningFinds
    <3>3. ~ignore[k]
      BY <3>1, <3>2 DEF IgnoreOK, Holding
    <3>4. CASE k = n
      <4>1. randomNumbers'[n] = Append(randomNumbers[n], Voter(k, r)) /\ Voter(k, r) \in Voters /\ Voter(k, r).key = k
        BY <3>1, <3>2, <3>3, <3>4, OpenVotes, VoterIs
      <4>2. QED BY <1>0, <4>1, HasAppend
    <3>5. CASE k # n
      BY <3>1, <3>3, <3>5, OpenVotes
    <3>6. QED BY <3>4, <3>5
  \* It was cast before.
  <2>2. CASE Opened(k, r)
    <3>1. \/ HasVoteOf(randomNumbers[n], k)
          \/ Voter(k, r) \in checking[n]
          \/ [to |-> n, vote |-> Voter(k, r)] \in net
      BY <2>0, <2>2 DEF TimelyOK, ArrivedOK
    <3>2. CASE HasVoteOf(randomNumbers[n], k)
      <4>1. CASE randomNumbers'[n] = randomNumbers[n]
        BY <3>2, <4>1
      <4>2. ASSUME NEW v \in Voters, randomNumbers'[n] = Append(randomNumbers[n], v)
            PROVE  HasVoteOf(randomNumbers'[n], k)
        BY <1>0, <3>2, <4>2, HasAppend
      <4>3. QED BY <1>2, <4>1, <4>2, VotesDo, TimelyIsNext
    <3>3. CASE Voter(k, r) \in checking[n]
      <4>1. CASE \E v \in checking[n] : addVote(n, v)
        <5>1. PICK v \in checking[n] : addVote(n, v)
          BY <4>1
        <5>2. CASE v = Voter(k, r)
          <6>1. v \in Voters /\ ~HasVoteOf(randomNumbers[n], v.key) /\ v.key = k
            BY <5>2 DEF TimelyOK, CheckingOK, TypeOK, Voter
          <6>2. randomNumbers'[n] = Append(randomNumbers[n], v)
            BY <5>1, <6>1, AddDoes
          <6>3. QED BY <1>0, <6>1, <6>2, HasAppend
        <5>3. CASE v # Voter(k, r)
          BY <3>3, <5>1, <5>3, AddDoes
        <5>4. QED BY <5>2, <5>3
      <4>2. CASE ~\E v \in checking[n] : addVote(n, v)
        <5>1. checking[n] \subseteq checking'[n]
          BY <4>2, OpenDoes, CloseDoes, FinishDoes, AdvanceDoes, RegisterDoes, AddDoes DEF TimelyNext
        <5>2. QED BY <3>3, <5>1
      <4>3. QED BY <4>1, <4>2
    <3>4. CASE [to |-> n, vote |-> Voter(k, r)] \in net
      <4>1. CASE registerVote(n, [to |-> n, vote |-> Voter(k, r)])
        <5>1. Cast(Voter(k, r), round[n]) /\ ~HasVoteOf(randomNumbers[n], Voter(k, r).key)
          BY <3>4 DEF TimelyOK, NetOK
        <5>2. Voter(k, r).round = round[n]
          BY <5>1 DEF Cast, Voter
        <5>3. Voter(k, r) \in checking'[n]
          BY <2>0, <3>4, <4>1, <5>1, <5>2, RegisterDoes
        <5>4. QED BY <5>3
      <4>2. CASE ~registerVote(n, [to |-> n, vote |-> Voter(k, r)])
        <5>1. ASSUME NEW m \in Nodes, NEW msg \in net, registerVote(m, msg)
              PROVE  [to |-> n, vote |-> Voter(k, r)] \in net'
          <6>1. msg # [to |-> n, vote |-> Voter(k, r)]
            BY <4>2, <5>1, RegisterDoes
          <6>2. QED BY <3>4, <5>1, <6>1, RegisterDoes
        <5>2. ASSUME NEW m \in Nodes, openVoting(m) PROVE net \subseteq net'
          BY <5>2, OpenVotes
        <5>3. QED BY <3>4, <5>1, <5>2, CloseDoes, FinishDoes, AdvanceDoes, AddDoes DEF TimelyNext
      <4>3. QED BY <4>1, <4>2
    <3>5. QED BY <3>1, <3>2, <3>3, <3>4
  <2>3. QED BY <2>1, <2>2
<1>3. QED BY <1>1, <1>2

-----------------------------------------------------------------------------
(* What the elections promise.                                              *)

\* The nodes start with the whole invariant.
LEMMA ElectionInit == Init => ElectionInv
<1> SUFFICES ASSUME Init PROVE TimelyOK
  BY VotingInit DEF ElectionInv
<1>1. SyncOK
  <2> SUFFICES ASSUME NEW n \in Nodes, NEW m \in Nodes, clock[m] < clock[n] PROVE LoopIsUpToDate(m)
    BY DEF SyncOK
  <2>1. (clock[n] = 0 \/ clock[n] = 1) /\ (clock[m] = 0 \/ clock[m] = 1)
    BY DEF Init
  <2>2. clock[m] = 0
    BY <2>1
  <2>3. ~inVotingTime(m)
    BY <2>2 DEF inVotingTime
  <2>4. inVotingPhase[m] = FALSE /\ ~closing[m]
    BY DEF Init
  <2>5. QED BY <2>3, <2>4 DEF LoopIsUpToDate, inVotingTime
<1>2. NetOK /\ CheckingOK
  BY DEF Init, NetOK, CheckingOK
<1>3. VotesOK
  BY DEF Init, VotesOK
<1>4. ArrivedOK
  BY DEF Init, ArrivedOK, Opened, Holding
<1>5. ElectedOK
  BY DEF Init, ElectedOK
<1>6. QED BY <1>1, <1>2, <1>3, <1>4, <1>5 DEF TimelyOK

\* Every step keeps it when nobody is alone in a round.
LEMMA ElectionStep == NobodyAlone /\ ElectionInv /\ [Next]_vars => ElectionInv'
<1> SUFFICES ASSUME NobodyAlone, ElectionInv, [Next]_vars, untimely' = 0 PROVE TimelyOK'
  BY VotingStep DEF ElectionInv
<1>1. VotingInv /\ TimelyOK /\ (TimelyNext \/ UNCHANGED vars)
  BY UntimelyStep DEF ElectionInv, VotingInv
<1>2. CASE TimelyNext
  BY <1>1, <1>2, SyncStep, NetStep, CheckingStep, VotesStep, ArrivedStep, ElectedStep
     DEF TimelyOK, VotingInv
<1>3. CASE UNCHANGED vars
  BY <1>1, <1>3 DEF vars, TimelyOK, SyncOK, LoopIsUpToDate, inVotingTime, NetOK, CheckingOK, VotesOK,
                    ArrivedOK, ElectedOK, Cast, Opened, Before, Holding
<1>4. QED BY <1>1, <1>2, <1>3

\* So it holds always.
LEMMA ElectionAlways == NobodyAlone => (Spec => []ElectionInv)
<1> SUFFICES ASSUME NobodyAlone PROVE Spec => []ElectionInv
  OBVIOUS
<1>1. ElectionInv /\ [Next]_vars => ElectionInv'
  BY ElectionStep
<1>2. QED BY <1>1, ElectionInit, PTL DEF Spec

\* The seats of a node are votes of the round it closed last, each once.
LEMMA SeatsAre ==
  ASSUME VotingInv, TimelyOK, NEW n \in Nodes, NEW i \in 1..Len(blockProducers[n])
  PROVE  /\ round[n] - 1 \in 1..MaxRound
         /\ \E k \in Nodes : blockProducers[n][i] = Voter(k, round[n] - 1)
         /\ \A j \in 1..Len(blockProducers[n]) : blockProducers[n][i] = blockProducers[n][j] => i = j
<1>1. round[n] > 1 /\ n \in Participants(round[n] - 1)
  <2>1. blockProducers[n] # <<>>
    OBVIOUS
  <2>2. QED BY <2>1 DEF TimelyOK, ElectedOK
<1>2. PICK s \in Elections(round[n] - 1) : blockProducers[n] = Lowest(s)
  BY <1>1 DEF TimelyOK, ElectedOK
<1>3. round[n] - 1 \in 1..MaxRound
  BY <1>1, ClockIs DEF VotingInv
<1>4. s \in Seq(Voters)
  BY DEF Elections
<1>5. \A j \in 1..Len(Lowest(s)) : j \in 1..Len(s) /\ Lowest(s)[j] = s[j]
  BY <1>4, LowestIs
<1>6. \A j \in 1..Len(s) : s[j] \in Ballots(round[n] - 1)
  BY DEF Elections
<1>7. \E k \in Nodes : blockProducers[n][i] = Voter(k, round[n] - 1)
  BY <1>2, <1>5, <1>6 DEF Ballots, Participants
<1>8. \A j, l \in 1..Len(s) : s[j] = s[l] => j = l
  BY DEF Elections
<1>9. QED BY <1>2, <1>3, <1>5, <1>7, <1>8

\* When votes are timely, no master node gets two of the seats.
OneSeatEach ==
  \A n \in Nodes : \A i, j \in 1..Len(blockProducers[n]) :
    untimely = 0 /\ blockProducers[n][i].key = blockProducers[n][j].key => i = j

\* While the votes are timely, no master node gets two of the seats.
THEOREM OneSeatEachCorrect == NobodyAlone => (Spec => []OneSeatEach)
<1> SUFFICES ASSUME NobodyAlone PROVE Spec => []OneSeatEach
  OBVIOUS
<1>1. ElectionInv => OneSeatEach
  <2> SUFFICES ASSUME VotingInv, TimelyOK, NEW n \in Nodes, NEW i \in 1..Len(blockProducers[n]),
                      NEW j \in 1..Len(blockProducers[n]),
                      blockProducers[n][i].key = blockProducers[n][j].key
               PROVE  i = j
    BY DEF ElectionInv, OneSeatEach
  <2>1. PICK k \in Nodes : blockProducers[n][i] = Voter(k, round[n] - 1)
    BY SeatsAre
  <2>2. PICK l \in Nodes : blockProducers[n][j] = Voter(l, round[n] - 1)
    BY SeatsAre
  <2>3. k = l
    BY <2>1, <2>2 DEF Voter
  <2>4. QED BY <2>1, <2>2, <2>3, SeatsAre
<1>2. QED BY <1>1, ElectionAlways, PTL

\* While the votes are timely, every vote of an election was signed for that round:
\* no vote of an earlier round is left in the list, and none of a later one comes early.
THEOREM VotesAreCurrentCorrect == NobodyAlone => (Spec => []VotesAreCurrent)
<1> SUFFICES ASSUME NobodyAlone PROVE Spec => []VotesAreCurrent
  OBVIOUS
<1>1. ElectionInv => VotesAreCurrent
  <2> SUFFICES ASSUME VotingInv, TimelyOK, NEW n \in Nodes, NEW i \in 1..Len(blockProducers[n])
               PROVE  blockProducers[n][i].round = round[n] - 1
    BY DEF ElectionInv, VotesAreCurrent
  <2>1. PICK k \in Nodes : blockProducers[n][i] = Voter(k, round[n] - 1)
    BY SeatsAre
  <2>2. QED BY <2>1 DEF Voter
<1>2. QED BY <1>1, ElectionAlways, PTL

\* No two signatures of a round sum to the same number: std::sort leaves the order of
\* equal ones open, and then two nodes may sort them differently.
NumbersDiffer ==
  \A r \in 1..MaxRound : \A n, m \in Nodes : Number[n][r] = Number[m][r] => n = m

\* Two nodes that took part in a round and closed it elected the same votes.
LEMMA SameElection ==
  ASSUME NumbersDiffer, VotingInv, TimelyOK, NEW n \in Nodes, NEW m \in Nodes, NEW r \in 1..MaxRound,
         HasClosed(n, r), HasClosed(m, r)
  PROVE  blockProducers[n] = blockProducers[m]
<1>1. /\ round[n] > 1 /\ round[m] > 1 /\ round[n] - 1 = r /\ round[m] - 1 = r
      /\ n \in Participants(r) /\ m \in Participants(r)
  BY SizeAssumption DEF HasClosed
<1>2. PICK s \in Elections(r) : blockProducers[n] = Lowest(s)
  BY <1>1 DEF TimelyOK, ElectedOK
<1>3. PICK t \in Elections(r) : blockProducers[m] = Lowest(t)
  BY <1>1 DEF TimelyOK, ElectedOK
<1>4. s = t
  BY OneElection DEF NumbersDiffer
<1>5. QED BY <1>2, <1>3, <1>4

\* While the votes are timely, any two nodes that took part in a round elect the same
\* master nodes in the same order.
THEOREM AgreedElectionCorrect == NobodyAlone /\ NumbersDiffer => (Spec => []AgreedElection)
<1> SUFFICES ASSUME NobodyAlone, NumbersDiffer PROVE Spec => []AgreedElection
  OBVIOUS
<1>1. ElectionInv => AgreedElection
  BY SameElection DEF ElectionInv, AgreedElection
<1>2. QED BY <1>1, ElectionAlways, PTL

\* While the votes are timely, the nodes on the channel master21 are the ones everybody
\* elected.
THEOREM ChannelMatchesElectionCorrect ==
  NobodyAlone /\ NumbersDiffer => (Spec => []ChannelMatchesElection)
<1> SUFFICES ASSUME NobodyAlone, NumbersDiffer PROVE Spec => []ChannelMatchesElection
  OBVIOUS
<1>1. ElectionInv => ChannelMatchesElection
  <2> SUFFICES ASSUME VotingInv, TimelyOK, NEW r \in 1..MaxRound,
                      \A n \in Nodes : HasClosed(n, r) /\ ~closing[n], NEW n \in Nodes, NEW m \in Nodes
               PROVE  subscribedTo21[m] <=> HasVoteOf(blockProducers[n], m)
    BY DEF ElectionInv, ChannelMatchesElection
  <2>1. blockProducers[n] = blockProducers[m]
    BY SameElection
  <2>2. subscribedTo21[m] <=> HasVoteOf(blockProducers[m], m)
    BY DEF VotingInv, ChannelOK
  <2>3. QED BY <2>1, <2>2
<1>2. QED BY <1>1, ElectionAlways, PTL
=============================================================================
