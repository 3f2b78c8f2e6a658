---------------------- MODULE RegistryAndServer_proofs ----------------------
(***************************************************************************)
(* Proofs about the registry of nodes and about the web socket server, the *)
(* two components of BlockChainCommon that know who is connected: for any  *)
(* masters, verifiers, storage nodes, clients, connections and requests,   *)
(* and whatever the bounds of the models.  They share no state.            *)
(***************************************************************************)
EXTENDS NodeRegistry, WebSocketServer, FiniteSetTheorems, TLAPS

-----------------------------------------------------------------------------
(* Keys in vectors.                                                         *)

\* A vector has no more different keys than it is long.
LEMMA RangeFinite ==
  ASSUME NEW S, NEW s \in Seq(S)
  PROVE  IsFiniteSet(Range(s)) /\ Cardinality(Range(s)) <= Len(s)
<1>1. s \in Surjection(1..Len(s), Range(s))
  BY DEF Surjection, Range
<1>2. 1 \in Int /\ Len(s) \in Int /\ Len(s) >= 0
  OBVIOUS
<1>3. IsFiniteSet(1..Len(s)) /\ Cardinality(1..Len(s)) = Len(s)
  BY <1>2, FS_Interval
<1>4. QED BY <1>1, <1>3, FS_Surjection

\* A key that is pushed is added to the keys of the vector.
LEMMA RangeAppend ==
  ASSUME NEW S, NEW s \in Seq(S), NEW x \in S
  PROVE  Append(s, x) \in Seq(S) /\ Range(Append(s, x)) = Range(s) \cup {x}
<1> DEFINE t == Append(s, x)
<1>1. t \in Seq(S) /\ Len(t) = Len(s) + 1 /\ t[Len(s) + 1] = x /\ \A i \in 1..Len(s) : t[i] = s[i]
  OBVIOUS
<1>2. DOMAIN t = 1..Len(s) + 1 /\ DOMAIN s = 1..Len(s) /\ Len(s) \in Nat
  BY <1>1
<1> HIDE DEF t
<1>3. Range(t) \subseteq Range(s) \cup {x}
  BY <1>1, <1>2 DEF Range
<1>4. Range(s) \cup {x} \subseteq Range(t)
  BY <1>1, <1>2 DEF Range
<1>5. QED BY <1>1, <1>3, <1>4 DEF t

\* So are the keys of a vector that is pushed key by key.
LEMMA RangeConcat ==
  ASSUME NEW S, NEW s \in Seq(S), NEW t \in Seq(S)
  PROVE  s \o t \in Seq(S) /\ Range(s \o t) = Range(s) \cup Range(t)
<1> DEFINE u == s \o t
<1>1. /\ u \in Seq(S) /\ Len(u) = Len(s) + Len(t)
      /\ \A i \in 1..Len(u) : u[i] = IF i <= Len(s) THEN s[i] ELSE t[i - Len(s)]
  OBVIOUS
<1>2. /\ DOMAIN u = 1..Len(u) /\ DOMAIN s = 1..Len(s) /\ DOMAIN t = 1..Len(t)
      /\ Len(s) \in Nat /\ Len(t) \in Nat
  BY <1>1
<1> HIDE DEF u
<1>3. ASSUME NEW i \in DOMAIN u PROVE u[i] \in Range(s) \cup Range(t)
  <2>1. CASE i <= Len(s)
    BY <1>1, <1>2, <2>1 DEF Range
  <2>2. CASE ~(i <= Len(s))
    <3>1. i - Len(s) \in DOMAIN t /\ u[i] = t[i - Len(s)]
      BY <1>1, <1>2, <2>2
    <3>2. QED BY <3>1 DEF Range
  <2>3. QED BY <2>1, <2>2
<1>4. ASSUME NEW i \in DOMAIN s PROVE s[i] \in Range(u)
  <2>1. i \in DOMAIN u /\ u[i] = s[i]
    BY <1>1, <1>2
  <2>2. QED BY <2>1 DEF Range
<1>5. ASSUME NEW i \in DOMAIN t PROVE t[i] \in Range(u)
  <2>1. i + Len(s) \in DOMAIN u /\ ~(i + Len(s) <= Len(s)) /\ (i + Len(s)) - Len(s) = i
    BY <1>1, <1>2
  <2>2. u[i + Len(s)] = t[i]
    BY <1>1, <1>2, <2>1
  <2>3. QED BY <2>1, <2>2 DEF Range
<1>6. Range(u) \subseteq Range(s) \cup Range(t)
  BY <1>3 DEF Range
<1>7. Range(s) \cup Range(t) \subseteq Range(u)
  BY <1>4, <1>5 DEF Range
<1>8. QED BY <1>1, <1>6, <1>7 DEF u

\* The elements of a finite set in some order.
LEMMA RangeSetToSeq ==
  ASSUME NEW S, IsFiniteSet(S)
  PROVE  SetToSeq(S) \in Seq(S) /\ Range(SetToSeq(S)) = S
<1> DEFINE n == Cardinality(S)
           f == SetToSeq(S)
<1>1. n \in Nat /\ ExistsBijection(1..n, S)
  BY FS_CardinalityType
<1>2. \E g \in [1..n -> S] : IsInjective(g)
  BY <1>1 DEF ExistsBijection, Bijection, Injection
<1>3. f \in [1..n -> S] /\ IsInjective(f)
  BY <1>2, Zenon DEF SetToSeq
<1>4. f \in Injection(1..n, S)
  BY <1>3 DEF Injection
<1>5. 1 \in Int /\ n \in Int /\ n >= 0
  BY <1>1
<1>6. Cardinality(1..n) = n
  BY <1>5, FS_Interval
<1> HIDE DEF f, n
<1>7. f \in Surjection(1..n, S)
  BY <1>4, <1>6, FS_Injection, ZenonT(30) DEF n
<1>8. Range(f) = S
  BY <1>3, <1>7 DEF Surjection, Range
<1>9. f \in Seq(S)
  BY <1>1, <1>3
<1>10. QED BY <1>8, <1>9 DEF f

\* The keys of a map, as syncNodes goes through them, are those of the map.
LEMMA RangeSorted ==
  ASSUME NEW K, NEW S \in SUBSET K, IsFiniteSet(S)
  PROVE  Sorted(S) \in Seq(K) /\ Range(Sorted(S)) = S
<1> DEFINE e == IF EmptyKey \in S THEN <<EmptyKey>> ELSE <<>>
           s == SetToSeq(S \ {EmptyKey})
<1>1. IsFiniteSet(S \ {EmptyKey})
  BY FS_RemoveElement
<1>2. s \in Seq(S \ {EmptyKey}) /\ Range(s) = S \ {EmptyKey}
  BY <1>1, RangeSetToSeq
<1> HIDE DEF s
<1>3. s \in Seq(K)
  BY <1>2
<1>4. e \in Seq(K) /\ Range(e) = S \cap {EmptyKey}
  BY DEF Range
<1> HIDE DEF e
<1>5. e \o s \in Seq(K) /\ Range(e \o s) = Range(e) \cup Range(s)
  BY <1>3, <1>4, RangeConcat
<1>6. Sorted(S) = e \o s
  BY DEF Sorted, e, s
<1>7. QED BY <1>2, <1>4, <1>5, <1>6

-----------------------------------------------------------------------------
(* The inductive invariant: what is in maps, vectors and messages.          *)

\* A message names nodes of its kinds, and a map that is sent is finite.
MessageOK(msg) ==
  /\ msg.to \in Masters
  /\ msg.type = "connectionRequest" => msg.node \in Masters \cup Workers
  /\ msg.type = "syncNodes" => /\ msg.m \subseteq Masters /\ msg.v \subseteq Verifiers
                               /\ msg.s \subseteq Keys
                               /\ IsFiniteSet(msg.v) /\ IsFiniteSet(msg.s)

MessagesOK == \A msg \in messages : MessageOK(msg)

\* Who is about to put has chosen.
PutOK == \A m \in Masters, r \in Roles : at[m][r] = "put" => chosen[m][r] # None

\* Maps and vectors hold the same keys; but for the empty key that storageurl
\* adds to the map alone.
KeysMatchNodes ==
  \A m \in Masters :
    /\ verifierNodes[m] = {verifierKeys[m][i] : i \in DOMAIN verifierKeys[m]}
    /\ LET keys == {storageKeys[m][i] : i \in DOMAIN storageKeys[m]}
       IN keys \subseteq storageNodes[m] /\ storageNodes[m] \ keys \subseteq {EmptyKey}

RegistryInv == TypeOK /\ MessagesOK /\ PutOK /\ KeysMatchNodes

\* The types of the maps and the vectors.
MapsOK ==
  /\ masterNodes \in [Masters -> SUBSET Masters]
  /\ verifierNodes \in [Masters -> SUBSET Verifiers]
  /\ storageNodes \in [Masters -> SUBSET Keys]
  /\ verifierKeys \in [Masters -> Seq(Verifiers)] /\ storageKeys \in [Masters -> Seq(Keys)]

\* The keys of one master.
KeysOK(m) ==
  /\ verifierNodes[m] = Range(verifierKeys[m])
  /\ Range(storageKeys[m]) \subseteq storageNodes[m]
  /\ storageNodes[m] \subseteq Range(storageKeys[m]) \cup {EmptyKey}

AllKeysOK == \A m \in Masters : KeysOK(m)

\* Master by master, they match.
LEMMA KeysByMaster == KeysMatchNodes <=> AllKeysOK
<1>1. ASSUME NEW m \in Masters
      PROVE  (/\ verifierNodes[m] = {verifierKeys[m][i] : i \in DOMAIN verifierKeys[m]}
              /\ LET keys == {storageKeys[m][i] : i \in DOMAIN storageKeys[m]}
                 IN keys \subseteq storageNodes[m] /\ storageNodes[m] \ keys \subseteq {EmptyKey})
             <=> KeysOK(m)
  BY DEF KeysOK, Range
<1>2. QED BY <1>1, Zenon DEF KeysMatchNodes, AllKeysOK

\* Maps are finite.
LEMMA MapsFinite ==
  ASSUME RegistryInv, NEW m \in Masters
  PROVE  IsFiniteSet(verifierNodes[m]) /\ IsFiniteSet(storageNodes[m])
<1>1. verifierKeys[m] \in Seq(Verifiers) /\ storageKeys[m] \in Seq(Keys) /\ KeysOK(m)
  BY KeysByMaster DEF AllKeysOK, RegistryInv, TypeOK
<1>2. IsFiniteSet(Range(verifierKeys[m])) /\ IsFiniteSet(Range(storageKeys[m]))
  BY <1>1, RangeFinite
<1>3. IsFiniteSet(Range(storageKeys[m]) \cup {EmptyKey})
  BY <1>2, FS_AddElement
<1>4. storageNodes[m] \in SUBSET (Range(storageKeys[m]) \cup {EmptyKey})
  BY <1>1 DEF KeysOK
<1>5. IsFiniteSet(storageNodes[m])
  BY <1>3, <1>4, FS_Subset
<1>6. QED BY <1>1, <1>2, <1>5 DEF KeysOK

\* addNode changes the maps and the vectors of one master alike.
LEMMA AddNodeKeys ==
  ASSUME RegistryInv, NEW m \in Masters, NEW n, addNode(m, n)
  PROVE  MapsOK' /\ KeysMatchNodes'
<1>1. MapsOK /\ \A k \in Masters : KeysOK(k)
  BY KeysByMaster DEF AllKeysOK, RegistryInv, TypeOK, MapsOK
<1>2. masterNodes' \in [Masters -> SUBSET Masters]
  BY <1>1 DEF addNode, MapsOK
<1>3. /\ verifierNodes' \in [Masters -> SUBSET Verifiers] /\ verifierKeys' \in [Masters -> Seq(Verifiers)]
      /\ \A k \in Masters : verifierNodes'[k] = Range(verifierKeys'[k])
  <2>1. CASE n \in Verifiers
    <3>1. /\ verifierNodes' = [verifierNodes EXCEPT ![m] = @ \cup {n}]
          /\ verifierKeys' = [verifierKeys EXCEPT ![m] = Append(@, n)]
      BY <2>1 DEF addNode
    <3>2. /\ Append(verifierKeys[m], n) \in Seq(Verifiers)
          /\ Range(Append(verifierKeys[m], n)) = Range(verifierKeys[m]) \cup {n}
      BY <1>1, <2>1, RangeAppend DEF MapsOK
    <3>3. QED BY <1>1, <2>1, <3>1, <3>2 DEF MapsOK, KeysOK
  <2>2. CASE n \notin Verifiers
    BY <1>1, <2>2 DEF addNode, MapsOK, KeysOK
  <2>3. QED BY <2>1, <2>2
<1>4. /\ storageNodes' \in [Masters -> SUBSET Keys] /\ storageKeys' \in [Masters -> Seq(Keys)]
      /\ \A k \in Masters : /\ Range(storageKeys'[k]) \subseteq storageNodes'[k]
                            /\ storageNodes'[k] \subseteq Range(storageKeys'[k]) \cup {EmptyKey}
  <2>1. CASE n \in StorageNodes
    <3>1. /\ storageNodes' = [storageNodes EXCEPT ![m] = @ \cup {n}]
          /\ storageKeys' = [storageKeys EXCEPT ![m] = Append(@, n)] /\ n \in Keys
      BY <2>1 DEF addNode, Keys
    <3>2. /\ Append(storageKeys[m], n) \in Seq(Keys)
          /\ Range(Append(storageKeys[m], n)) = Range(storageKeys[m]) \cup {n}
      BY <1>1, <3>1, RangeAppend DEF MapsOK
    <3>3. QED BY <1>1, <3>1, <3>2 DEF MapsOK, KeysOK
  <2>2. CASE n \notin StorageNodes
    BY <1>1, <2>2 DEF addNode, MapsOK, KeysOK
  <2>3. QED BY <2>1, <2>2
<1>5. MapsOK'
  BY <1>2, <1>3, <1>4 DEF MapsOK
<1>6. \A k \in Masters : KeysOK(k)'
  BY <1>3, <1>4 DEF KeysOK
<1>7. KeysMatchNodes' <=> AllKeysOK'
  BY KeysByMaster, PTL
<1>8. QED BY <1>5, <1>6, <1>7 DEF AllKeysOK

\* So does syncNodes, with all the keys that it was sent.
LEMMA SyncNodesKeys ==
  ASSUME RegistryInv, NEW msg \in messages, syncNodes(msg)
  PROVE  MapsOK' /\ KeysMatchNodes'
<1> DEFINE m == msg.to
<1>1. MapsOK /\ \A k \in Masters : KeysOK(k)
  BY KeysByMaster DEF AllKeysOK, RegistryInv, TypeOK, MapsOK
<1>2. /\ m \in Masters /\ msg.m \subseteq Masters /\ msg.v \in SUBSET Verifiers
      /\ msg.s \in SUBSET Keys /\ IsFiniteSet(msg.v) /\ IsFiniteSet(msg.s)
  BY DEF syncNodes, RegistryInv, MessagesOK, MessageOK
<1>3. /\ masterNodes' = [masterNodes EXCEPT ![m] = @ \cup msg.m]
      /\ verifierNodes' = [verifierNodes EXCEPT ![m] = @ \cup msg.v]
      /\ verifierKeys' = [verifierKeys EXCEPT ![m] = @ \o Sorted(msg.v)]
      /\ storageNodes' = [storageNodes EXCEPT ![m] = @ \cup msg.s]
      /\ storageKeys' = [storageKeys EXCEPT ![m] = @ \o Sorted(msg.s)]
  BY DEF syncNodes
<1> HIDE DEF m
<1>4. /\ Sorted(msg.v) \in Seq(Verifiers) /\ Range(Sorted(msg.v)) = msg.v
      /\ Sorted(msg.s) \in Seq(Keys) /\ Range(Sorted(msg.s)) = msg.s
  BY <1>2, RangeSorted
<1>5. verifierKeys[m] \in Seq(Verifiers) /\ storageKeys[m] \in Seq(Keys)
  BY <1>1, <1>2 DEF MapsOK
<1>6. /\ verifierKeys[m] \o Sorted(msg.v) \in Seq(Verifiers)
      /\ Range(verifierKeys[m] \o Sorted(msg.v)) = Range(verifierKeys[m]) \cup msg.v
  BY <1>4, <1>5, RangeConcat
<1>7. /\ storageKeys[m] \o Sorted(msg.s) \in Seq(Keys)
      /\ Range(storageKeys[m] \o Sorted(msg.s)) = Range(storageKeys[m]) \cup msg.s
  BY <1>4, <1>5, RangeConcat
<1>8. MapsOK'
  BY <1>1, <1>2, <1>3, <1>6, <1>7 DEF MapsOK
<1>9. ASSUME NEW k \in Masters PROVE KeysOK(k)'
  <2>1. CASE k = m
    <3>1. /\ verifierNodes'[k] = verifierNodes[k] \cup msg.v
          /\ verifierKeys'[k] = verifierKeys[k] \o Sorted(msg.v)
          /\ storageNodes'[k] = storageNodes[k] \cup msg.s
          /\ storageKeys'[k] = storageKeys[k] \o Sorted(msg.s)
      BY <1>1, <1>2, <1>3, <2>1 DEF MapsOK
    <3>2. QED BY <1>1, <1>6, <1>7, <2>1, <3>1 DEF KeysOK
  <2>2. CASE k # m
    BY <1>1, <1>3, <2>2 DEF MapsOK, KeysOK
  <2>3. QED BY <2>1, <2>2
<1>10. KeysMatchNodes' <=> AllKeysOK'
  BY KeysByMaster, PTL
<1>11. QED BY <1>8, <1>9, <1>10 DEF AllKeysOK

-----------------------------------------------------------------------------
(* Every step keeps it.                                                     *)

RolesOK ==
  /\ at \in [Masters -> [Roles -> {"idle", "put"}]]
  /\ chosen \in [Masters -> [Roles -> Keys \cup {None}]]
  /\ dhtValues \in [Roles -> SUBSET Keys] /\ raced \subseteq Roles

RestOK ==
  /\ up \subseteq Masters /\ syncing \in [Masters -> SUBSET Masters] /\ connects \in 0..MaxConnects
  /\ owed \subseteq Masters \X (Verifiers \cup Keys) \X Masters
  /\ stops \in 0..MaxStops /\ urls \in 0..MaxUrls

\* The types, by what changes together.
LEMMA TypeParts == TypeOK <=> MapsOK /\ RolesOK /\ RestOK
<1>1. QED BY DEF TypeOK, MapsOK, RolesOK, RestOK

\* The same, after a step.
LEMMA InvParts ==
  ASSUME MapsOK', RolesOK', RestOK', MessagesOK', PutOK', KeysMatchNodes'
  PROVE  RegistryInv'
<1>1. TypeOK' <=> MapsOK' /\ RolesOK' /\ RestOK'
  BY TypeParts, PTL
<1>2. QED BY <1>1 DEF RegistryInv

\* A step that leaves the maps and the vectors alone.
LEMMA SameMaps ==
  ASSUME RegistryInv, UNCHANGED mapVars PROVE MapsOK' /\ KeysMatchNodes'
<1>1. QED BY TypeParts DEF RegistryInv, MapsOK, KeysMatchNodes, mapVars

\* A step that leaves the choices alone.
LEMMA SameRoles ==
  ASSUME RegistryInv, UNCHANGED roleVars PROVE RolesOK' /\ PutOK'
<1>1. QED BY TypeParts DEF RegistryInv, RolesOK, PutOK, roleVars

\* Messages that are handled or lost.
LEMMA FewerMessages ==
  ASSUME RegistryInv, messages' \subseteq messages PROVE MessagesOK'
<1>1. QED BY DEF RegistryInv, MessagesOK, MessageOK

\* Verifiers and storage nodes that start, and masters that boot.
LEMMA ArrivalStep ==
  ASSUME RegistryInv, (\E n \in Workers : connect(n)) \/ (\E m \in Masters : boot(m))
  PROVE  RegistryInv'
<1>1. ASSUME NEW n \in Workers, connect(n) PROVE RegistryInv'
  <2>1. MapsOK' /\ KeysMatchNodes' /\ RolesOK' /\ PutOK'
    BY <1>1, SameMaps, SameRoles DEF connect
  <2>2. RestOK'
    BY <1>1, TypeParts, RegistryAssumption DEF connect, RegistryInv, RestOK
  <2>3. ASSUME NEW msg \in messages' PROVE MessageOK(msg)
    <3>1. CASE msg \in messages
      BY <3>1 DEF RegistryInv, MessagesOK
    <3>2. CASE msg \notin messages
      <4>1. PICK m \in up : msg = connectionRequest(m, n, connects)
        BY <1>1, <3>2 DEF connect
      <4>2. m \in Masters
        BY DEF RegistryInv, TypeOK
      <4>3. QED BY <4>1, <4>2 DEF connectionRequest, MessageOK
    <3>3. QED BY <3>1, <3>2
  <2>4. QED BY <2>1, <2>2, <2>3, InvParts DEF MessagesOK, MessageOK
<1>2. ASSUME NEW m \in Masters, boot(m) PROVE RegistryInv'
  <2>1. MapsOK' /\ KeysMatchNodes' /\ RolesOK' /\ PutOK'
    BY <1>2, SameMaps, SameRoles DEF boot
  <2>2. \A o \in up : o \in Masters /\ Knows(o) \subseteq Verifiers \cup Keys
    BY DEF RegistryInv, TypeOK, Knows
  <2>3. owed' = owed \cup UNION {{<<m, x, o>> : x \in Knows(o)} : o \in up}
    BY <1>2 DEF boot
  <2>4. owed' \subseteq Masters \X (Verifiers \cup Keys) \X Masters
    BY <2>2, <2>3 DEF RegistryInv, TypeOK
  <2>5. RestOK'
    BY <1>2, <2>4, TypeParts DEF boot, RegistryInv, RestOK
  <2>6. ASSUME NEW msg \in messages' PROVE MessageOK(msg)
    <3>1. CASE msg \in messages
      BY <3>1 DEF RegistryInv, MessagesOK
    <3>2. CASE msg \notin messages
      <4>1. PICK o \in up : msg = connectionRequest(o, m, stops)
        BY <1>2, <3>2 DEF boot
      <4>2. QED BY <2>2, <4>1 DEF connectionRequest, MessageOK
    <3>3. QED BY <3>1, <3>2
  <2>7. QED BY <2>1, <2>5, <2>6, InvParts DEF MessagesOK, MessageOK
<1>3. QED BY <1>1, <1>2

\* A master that stops loses all it knew.
LEMMA StopStep ==
  ASSUME RegistryInv, NEW m \in Masters, stop(m) PROVE RegistryInv'
<1>1. MapsOK /\ RolesOK /\ RestOK /\ AllKeysOK
  BY TypeParts, KeysByMaster DEF RegistryInv
<1>2. MapsOK'
  BY <1>1 DEF stop, MapsOK
<1>3. RolesOK'
  BY <1>1 DEF stop, RolesOK
<1>4. RestOK'
  <2>1. owed' \subseteq owed /\ up' \subseteq up /\ syncing' = [syncing EXCEPT ![m] = {}]
    BY DEF stop
  <2>2. stops' \in 0..MaxStops /\ UNCHANGED <<connects, urls>>
    BY <1>1, RegistryAssumption DEF stop, RestOK
  <2>3. QED BY <1>1, <2>1, <2>2 DEF RestOK
<1>5. MessagesOK'
  <2>1. messages' \subseteq messages
    BY DEF stop
  <2>2. QED BY <2>1, FewerMessages
<1>6. PutOK'
  BY <1>1 DEF stop, RolesOK, RegistryInv, PutOK
<1>7. ASSUME NEW k \in Masters PROVE KeysOK(k)'
  <2>1. CASE k = m
    <3>1. verifierNodes'[k] = {} /\ storageNodes'[k] = {} /\ verifierKeys'[k] = <<>> /\ storageKeys'[k] = <<>>
      BY <1>1, <2>1 DEF stop, MapsOK
    <3>2. QED BY <3>1 DEF KeysOK, Range
  <2>2. CASE k # m
    BY <1>1, <2>2 DEF stop, MapsOK, KeysOK, AllKeysOK
  <2>3. QED BY <2>1, <2>2
<1>8. KeysMatchNodes' <=> AllKeysOK'
  BY KeysByMaster, PTL
<1>9. QED BY <1>2, <1>3, <1>4, <1>5, <1>6, <1>7, <1>8, InvParts DEF AllKeysOK

\* Messages that are handled, and nodes that are sent.
LEMMA MessageStep ==
  ASSUME RegistryInv, Handle \/ \E o, m \in Masters : sendNodes(o, m) PROVE RegistryInv'
<1>1. ASSUME NEW msg \in messages, onConnectionRequest(msg) PROVE RegistryInv'
  <2>1. msg.to \in Masters /\ msg.node \in Masters \cup Workers /\ addNode(msg.to, msg.node)
    BY <1>1 DEF onConnectionRequest, RegistryInv, MessagesOK, MessageOK
  <2>2. MapsOK' /\ KeysMatchNodes'
    BY <2>1, AddNodeKeys
  <2>3. UNCHANGED <<up, connects, roleVars, owed, stops, urls>> /\ messages' \subseteq messages
    BY <1>1 DEF onConnectionRequest
  <2>4. RolesOK' /\ PutOK' /\ MessagesOK'
    BY <2>3, SameRoles, FewerMessages
  <2>5. syncing' \in [Masters -> SUBSET Masters]
    BY <2>1 DEF addNode, RegistryInv, TypeOK
  <2>6. RestOK'
    BY <2>3, <2>5, TypeParts DEF RegistryInv, RestOK
  <2>7. QED BY <2>2, <2>4, <2>6, InvParts
<1>2. ASSUME NEW msg \in messages, syncNodes(msg) PROVE RegistryInv'
  <2>1. MapsOK' /\ KeysMatchNodes'
    BY <1>2, SyncNodesKeys
  <2>2. UNCHANGED <<up, syncing, connects, roleVars, owed, stops, urls>> /\ messages' \subseteq messages
    BY <1>2 DEF syncNodes
  <2>3. RolesOK' /\ PutOK' /\ MessagesOK'
    BY <2>2, SameRoles, FewerMessages
  <2>4. RestOK'
    BY <2>2, TypeParts DEF RegistryInv, RestOK
  <2>5. QED BY <2>1, <2>3, <2>4, InvParts
<1>3. ASSUME NEW o \in Masters, NEW m \in Masters, sendNodes(o, m) PROVE RegistryInv'
  <2>1. MapsOK' /\ KeysMatchNodes' /\ RolesOK' /\ PutOK'
    BY <1>3, SameMaps, SameRoles DEF sendNodes
  <2>2. RestOK'
    BY <1>3, TypeParts DEF sendNodes, RegistryInv, RestOK
  <2>3. MessageOK(syncMessage(m, o, stops))
    <3>1. /\ masterNodes[o] \subseteq Masters /\ verifierNodes[o] \subseteq Verifiers
          /\ storageNodes[o] \subseteq Keys
      BY DEF RegistryInv, TypeOK
    <3>2. IsFiniteSet(verifierNodes[o]) /\ IsFiniteSet(storageNodes[o])
      BY MapsFinite
    <3>3. QED BY <3>1, <3>2 DEF MessageOK, syncMessage
  <2>4. messages' \subseteq messages \cup {syncMessage(m, o, stops)}
    BY <1>3 DEF sendNodes
  <2>5. \A msg \in messages' : MessageOK(msg)
    BY <2>3, <2>4 DEF RegistryInv, MessagesOK
  <2>6. MessagesOK'
    BY <2>5 DEF MessagesOK, MessageOK
  <2>7. QED BY <2>1, <2>2, <2>6, InvParts
<1>4. QED BY <1>1, <1>2, <1>3 DEF Handle

\* What getStorageNodeKey returns is a key.
LEMMA KeyType ==
  ASSUME RegistryInv, NEW m \in Masters, NEW n \in Nat PROVE getStorageNodeKey(m, n) \in Keys
<1>1. storageKeys[m] \in Seq(Keys)
  BY DEF RegistryInv, TypeOK
<1>2. CASE Len(storageKeys[m]) >= n + 1
  BY <1>1, <1>2 DEF getStorageNodeKey
<1>3. CASE ~(Len(storageKeys[m]) >= n + 1)
  BY <1>3 DEF getStorageNodeKey, Keys
<1>4. QED BY <1>2, <1>3

\* The search of one master for one role: it takes a value of the DHT ...
Found(m, r, v) ==
  /\ v \in dhtValues[r] /\ v # EmptyKey /\ UNCHANGED <<at, raced, dhtValues>>
  /\ chosen' = [chosen EXCEPT ![m] = [chosen[m] EXCEPT ![r] = v]]

\* ... or a key of its own.
Picked(m, r, v) ==
  /\ v = getStorageNodeKey(m, Index(r)) /\ dhtValues' = dhtValues
  /\ dhtValues[r] = {} \/ EmptyKey \in dhtValues[r]
  /\ chosen' = [chosen EXCEPT ![m] = [chosen[m] EXCEPT ![r] = v]]
  /\ at' = [at EXCEPT ![m] = [at[m] EXCEPT ![r] = "put"]]
  /\ raced \subseteq raced' /\ raced' \subseteq raced \cup {r}
  /\ (\E o \in Masters : at[o][r] = "put") => r \in raced'

\* There is no third way, and the maps stay.
LEMMA SearchCases ==
  ASSUME RegistryInv, NEW m \in Masters, NEW r \in Roles, getStorageNode(m, r)
  PROVE  /\ at[m][r] = "idle" /\ chosen[m][r] \in {None, EmptyKey}
         /\ Cardinality(storageNodes[m]) >= Index(r) + 1
         /\ \E v \in Keys : Found(m, r, v) \/ Picked(m, r, v)
<1>1. /\ at[m][r] = "idle" /\ chosen[m][r] \in {None, EmptyKey}
      /\ Cardinality(storageNodes[m]) >= Index(r) + 1 /\ dhtValues' = dhtValues
  BY DEF getStorageNode
<1>2. PICK v \in IF dhtValues[r] = {} THEN {EmptyKey} ELSE dhtValues[r] :
             IF v # EmptyKey
             THEN /\ chosen' = [chosen EXCEPT ![m][r] = v]
                  /\ UNCHANGED <<at, raced>>
             ELSE /\ chosen' = [chosen EXCEPT ![m][r] = getStorageNodeKey(m, Index(r))]
                  /\ at' = [at EXCEPT ![m][r] = "put"]
                  /\ raced' = IF \E o \in Masters : at[o][r] = "put"
                              THEN raced \cup {r} ELSE raced
  BY DEF getStorageNode
<1>3. CASE v # EmptyKey
  <2>1. v \in dhtValues[r] /\ v \in Keys
    BY <1>2, <1>3 DEF RegistryInv, TypeOK
  <2>2. chosen' = [chosen EXCEPT ![m][r] = v] /\ UNCHANGED <<at, raced>>
    BY <1>2, <1>3
  <2>3. Found(m, r, v)
    BY <1>1, <1>3, <2>1, <2>2 DEF Found
  <2>4. QED BY <1>1, <2>1, <2>3
<1>4. CASE v = EmptyKey
  <2> DEFINE w == getStorageNodeKey(m, Index(r))
  <2>1. w \in Keys
    BY KeyType DEF Index
  <2>2. dhtValues[r] = {} \/ EmptyKey \in dhtValues[r]
    BY <1>2, <1>4
  <2>3. /\ chosen' = [chosen EXCEPT ![m][r] = w] /\ at' = [at EXCEPT ![m][r] = "put"]
        /\ raced' = IF \E o \in Masters : at[o][r] = "put" THEN raced \cup {r} ELSE raced
    BY <1>2, <1>4
  <2>4. /\ raced \subseteq raced' /\ raced' \subseteq raced \cup {r}
        /\ (\E o \in Masters : at[o][r] = "put") => r \in raced'
    BY <2>3
  <2> HIDE DEF w
  <2>5. Picked(m, r, w)
    BY <1>1, <2>2, <2>3, <2>4 DEF Picked, w
  <2>6. QED BY <1>1, <2>1, <2>5
<1>5. QED BY <1>3, <1>4

\* A search chooses v, or comes to the place p.
Chooses(m, r, v) == chosen' = [chosen EXCEPT ![m] = [chosen[m] EXCEPT ![r] = v]]
ComesTo(m, r, p) == at' = [at EXCEPT ![m] = [at[m] EXCEPT ![r] = p]]


\* The choice of one master for one role changes, and nothing else.
LEMMA OneChoice ==
  ASSUME RegistryInv, NEW m \in Masters, NEW r \in Roles, NEW v \in Keys, Chooses(m, r, v)
  PROVE  /\ chosen' \in [Masters -> [Roles -> Keys \cup {None}]] /\ chosen'[m][r] = v
         /\ \A k \in Masters, q \in Roles : k # m \/ q # r => chosen'[k][q] = chosen[k][q]
<1>1. chosen \in [Masters -> [Roles -> Keys \cup {None}]]
  BY DEF RegistryInv, TypeOK
<1>2. /\ [chosen[m] EXCEPT ![r] = v] \in [Roles -> Keys \cup {None}]
      /\ \A q \in Roles : [chosen[m] EXCEPT ![r] = v][q] = IF q = r THEN v ELSE chosen[m][q]
  BY <1>1
<1>3. QED BY <1>1, <1>2 DEF Chooses

\* Likewise the place of one search.
LEMMA OnePlace ==
  ASSUME RegistryInv, NEW m \in Masters, NEW r \in Roles, NEW p \in {"idle", "put"}, ComesTo(m, r, p)
  PROVE  /\ at' \in [Masters -> [Roles -> {"idle", "put"}]] /\ at'[m][r] = p
         /\ \A k \in Masters, q \in Roles : k # m \/ q # r => at'[k][q] = at[k][q]
<1>1. at \in [Masters -> [Roles -> {"idle", "put"}]]
  BY DEF RegistryInv, TypeOK
<1>2. /\ [at[m] EXCEPT ![r] = p] \in [Roles -> {"idle", "put"}]
      /\ \A q \in Roles : [at[m] EXCEPT ![r] = p][q] = IF q = r THEN p ELSE at[m][q]
  BY <1>1
<1>3. QED BY <1>1, <1>2 DEF ComesTo

\* A put adds the choice to the DHT.
LEMMA OnePut ==
  ASSUME RegistryInv, NEW m \in Masters, NEW r \in Roles, putStorageNode(m, r)
  PROVE  /\ at[m][r] = "put" /\ chosen[m][r] \in Keys /\ UNCHANGED <<chosen, raced>>
         /\ ComesTo(m, r, "idle")
         /\ dhtValues' \in [Roles -> SUBSET Keys]
         /\ dhtValues'[r] = dhtValues[r] \cup {chosen[m][r]}
         /\ \A q \in Roles \ {r} : dhtValues'[q] = dhtValues[q]
<1>1. /\ at[m][r] = "put" /\ UNCHANGED <<chosen, raced>> /\ at' = [at EXCEPT ![m][r] = "idle"]
      /\ dhtValues' = [dhtValues EXCEPT ![r] = @ \cup {chosen[m][r]}]
  BY DEF putStorageNode
<1>2. chosen[m][r] \in Keys
  BY <1>1 DEF RegistryInv, PutOK, TypeOK
<1>3. dhtValues \in [Roles -> SUBSET Keys]
  BY DEF RegistryInv, TypeOK
<1>4. QED BY <1>1, <1>2, <1>3 DEF ComesTo

\* A search and a put.
LEMMA RoleStep ==
  ASSUME RegistryInv, NEW m \in Masters, NEW r \in Roles,
         getStorageNode(m, r) \/ putStorageNode(m, r)
  PROVE  RegistryInv'
<1>1. UNCHANGED <<up, mapVars, messages, syncing, connects, owed, stops, urls>>
  BY DEF getStorageNode, putStorageNode
<1>2. MapsOK' /\ KeysMatchNodes' /\ MessagesOK'
  BY <1>1, SameMaps, FewerMessages
<1>3. RestOK'
  BY <1>1, TypeParts DEF RegistryInv, RestOK
<1>4. RolesOK /\ PutOK
  BY TypeParts DEF RegistryInv
<1>5. ASSUME NEW v \in Keys, Found(m, r, v) PROVE RolesOK' /\ PutOK'
  <2>1. v # None
    BY RegistryAssumption, <1>5 DEF Keys
  <2>2. UNCHANGED <<at, raced, dhtValues>>
    BY <1>5 DEF Found
  <2>3. /\ chosen' \in [Masters -> [Roles -> Keys \cup {None}]] /\ chosen'[m][r] = v
        /\ \A k \in Masters, q \in Roles : k # m \/ q # r => chosen'[k][q] = chosen[k][q]
    <3>1. Chooses(m, r, v)
      BY <1>5 DEF Found, Chooses
    <3>2. QED BY <3>1, OneChoice
  <2>4. QED BY <1>4, <2>1, <2>2, <2>3 DEF RolesOK, PutOK
<1>6. ASSUME NEW v \in Keys, Picked(m, r, v) PROVE RolesOK' /\ PutOK'
  <2>1. v # None
    BY RegistryAssumption DEF Keys
  <2>2. dhtValues' = dhtValues /\ raced' \subseteq raced \cup {r} /\ Chooses(m, r, v)
    BY <1>6 DEF Picked, Chooses
  <2>3. ComesTo(m, r, "put") /\ "put" \in {"idle", "put"}
    BY <1>6 DEF Picked, ComesTo
  <2>4. /\ chosen' \in [Masters -> [Roles -> Keys \cup {None}]] /\ chosen'[m][r] = v
        /\ \A k \in Masters, q \in Roles : k # m \/ q # r => chosen'[k][q] = chosen[k][q]
    BY <2>2, OneChoice
  <2>5. /\ at' \in [Masters -> [Roles -> {"idle", "put"}]] /\ at'[m][r] = "put"
        /\ \A k \in Masters, q \in Roles : k # m \/ q # r => at'[k][q] = at[k][q]
    BY <2>3, OnePlace
  <2>6. QED BY <1>4, <2>1, <2>2, <2>4, <2>5 DEF RolesOK, PutOK
<1>7. CASE getStorageNode(m, r)
  <2>1. RolesOK' /\ PutOK'
    BY <1>5, <1>6, <1>7, SearchCases
  <2>2. QED BY <1>2, <1>3, <2>1, InvParts
<1>8. CASE putStorageNode(m, r)
  <2>1. /\ UNCHANGED <<chosen, raced>> /\ dhtValues' \in [Roles -> SUBSET Keys]
        /\ ComesTo(m, r, "idle") /\ "idle" \in {"idle", "put"}
    BY <1>8, OnePut
  <2>2. /\ at' \in [Masters -> [Roles -> {"idle", "put"}]] /\ at'[m][r] = "idle"
        /\ \A k \in Masters, q \in Roles : k # m \/ q # r => at'[k][q] = at[k][q]
    BY <2>1, OnePlace
  <2>3. RolesOK' /\ PutOK'
    BY <1>4, <2>1, <2>2 DEF RolesOK, PutOK
  <2>4. QED BY <1>2, <1>3, <2>3, InvParts
<1>9. QED BY <1>7, <1>8

\* A storageurl that comes too early adds the empty key to a map only.
LEMMA UrlStep ==
  ASSUME RegistryInv, NEW m \in Masters, storageurl(m) PROVE RegistryInv'
<1>1. MapsOK /\ RestOK /\ AllKeysOK
  BY TypeParts, KeysByMaster DEF RegistryInv
<1>2. /\ storageNodes' = [storageNodes EXCEPT ![m] = @ \cup {EmptyKey}]
      /\ UNCHANGED <<masterNodes, verifierNodes, verifierKeys, storageKeys>>
  BY DEF storageurl
<1>3. EmptyKey \in Keys
  BY DEF Keys
<1>4. MapsOK'
  BY <1>1, <1>2, <1>3 DEF MapsOK
<1>5. RestOK'
  BY <1>1, RegistryAssumption DEF storageurl, RestOK
<1>6. UNCHANGED roleVars /\ messages' \subseteq messages
  BY DEF storageurl
<1>7. RolesOK' /\ PutOK' /\ MessagesOK'
  BY <1>6, SameRoles, FewerMessages
<1>8. \A k \in Masters : KeysOK(k)'
  BY <1>1, <1>2 DEF KeysOK, AllKeysOK, MapsOK
<1>9. KeysMatchNodes' <=> AllKeysOK'
  BY KeysByMaster, PTL
<1>10. QED BY <1>4, <1>5, <1>7, <1>8, <1>9, InvParts DEF AllKeysOK

\* Every step.
LEMMA RegistryStep == RegistryInv /\ [Next]_vars => RegistryInv'
<1> SUFFICES ASSUME RegistryInv, [Next]_vars PROVE RegistryInv'
  OBVIOUS
<1>1. CASE UNCHANGED vars
  <2>1. UNCHANGED <<mapVars, roleVars, messages, up, syncing, connects, owed, stops, urls>>
    BY <1>1 DEF vars
  <2>2. MapsOK' /\ KeysMatchNodes' /\ RolesOK' /\ PutOK' /\ MessagesOK'
    BY <2>1, SameMaps, SameRoles, FewerMessages
  <2>3. RestOK'
    BY <2>1, TypeParts DEF RegistryInv, RestOK
  <2>4. QED BY <2>2, <2>3, InvParts
<1>2. QED
  BY <1>1, ArrivalStep, StopStep, UrlStep, MessageStep, RoleStep DEF Next

\* A step of a master that does not stop.
NoStop ==
  \/ \E n \in Workers : connect(n)
  \/ \E m \in Masters : boot(m) \/ storageurl(m)
  \/ \E o, m \in Masters : sendNodes(o, m)
  \/ Handle
  \/ \E m \in Masters, r \in Roles : getStorageNode(m, r) \/ putStorageNode(m, r)

\* Only a stop takes nodes from a map.
LEMMA MapsGrow ==
  ASSUME RegistryInv, NoStop \/ UNCHANGED vars, NEW k \in Masters
  PROVE  verifierNodes[k] \subseteq verifierNodes'[k] /\ storageNodes[k] \subseteq storageNodes'[k]
<1>1. MapsOK
  BY TypeParts DEF RegistryInv
<1>2. CASE \/ \E n \in Workers : connect(n)
           \/ \E m \in Masters : boot(m)
           \/ \E o, m \in Masters : sendNodes(o, m)
           \/ \E m \in Masters, r \in Roles : getStorageNode(m, r) \/ putStorageNode(m, r)
           \/ UNCHANGED vars
  BY <1>2 DEF connect, boot, sendNodes, getStorageNode, putStorageNode, vars, mapVars
<1>3. CASE \E m \in Masters : storageurl(m)
  BY <1>1, <1>3 DEF storageurl, MapsOK
<1>4. CASE \E msg \in messages : onConnectionRequest(msg)
  BY <1>1, <1>4 DEF onConnectionRequest, addNode, MapsOK
<1>5. CASE \E msg \in messages : syncNodes(msg)
  <2>1. PICK msg \in messages : syncNodes(msg)
    BY <1>5
  <2>2. /\ verifierNodes' = [verifierNodes EXCEPT ![msg.to] = @ \cup msg.v]
        /\ storageNodes' = [storageNodes EXCEPT ![msg.to] = @ \cup msg.s]
    BY <2>1 DEF syncNodes
  <2>3. QED BY <1>1, <2>2 DEF MapsOK
<1>6. QED BY <1>2, <1>3, <1>4, <1>5 DEF NoStop, Handle

-----------------------------------------------------------------------------
(* What masters agree on.                                                   *)

\* One master at a time is between finding nothing in the DHT and its put.
OnlyPut(r) == \A m, o \in Masters : at[m][r] = "put" /\ at[o][r] = "put" => m = o

\* Who is about to put found nothing; all others have what was put, or nothing.
Settled(r) ==
  /\ \A x, y \in dhtValues[r] : x = y
  /\ \A m \in Masters : at[m][r] = "put" => dhtValues[r] = {}
  /\ \A m \in Masters : chosen[m][r] # None => at[m][r] = "put" \/ chosen[m][r] \in dhtValues[r]

AgreeOK ==
  \A r \in Roles \ raced : OnlyPut(r) /\ (EmptyKey \in dhtValues[r] \/ Settled(r))

ChoiceInv == RegistryInv /\ AgreeOK /\ ChosenIsFound

\* Enough storage nodes without the empty key: there is a key at the index.
LEMMA KeyIsFound ==
  ASSUME RegistryInv, NEW m \in Masters, NEW n \in Nat,
         Cardinality(storageNodes[m]) >= n + 1, getStorageNodeKey(m, n) = EmptyKey
  PROVE  EmptyKey \in storageNodes[m]
<1> SUFFICES ASSUME EmptyKey \notin storageNodes[m] PROVE FALSE
  OBVIOUS
<1> DEFINE s == storageKeys[m]
<1>1. s \in Seq(Keys) /\ KeysOK(m)
  BY KeysByMaster DEF RegistryInv, TypeOK, AllKeysOK
<1>2. storageNodes[m] = Range(s)
  BY <1>1 DEF KeysOK
<1>3. Cardinality(Range(s)) <= Len(s) /\ IsFiniteSet(Range(s))
  BY <1>1, RangeFinite
<1>4. Cardinality(Range(s)) \in Nat
  BY <1>3, FS_CardinalityType
<1>5. Len(s) >= n + 1 /\ Len(s) \in Nat
  BY <1>1, <1>2, <1>3, <1>4
<1>6. s[n + 1] \in Range(s)
  BY <1>1, <1>5 DEF Range
<1>7. getStorageNodeKey(m, n) = s[n + 1]
  BY <1>5 DEF getStorageNodeKey
<1>8. QED BY <1>2, <1>6, <1>7

\* A vector without duplicates is as long as it has keys.
LEMMA InjectiveLength ==
  ASSUME NEW S, NEW s \in Seq(S), IsInjective(s)
  PROVE  Cardinality(Range(s)) = Len(s)
<1>1. s \in Bijection(1..Len(s), Range(s))
  BY DEF Bijection, Injection, Surjection, IsInjective, Range
<1>2. 1 \in Int /\ Len(s) \in Int /\ Len(s) >= 0
  OBVIOUS
<1>3. IsFiniteSet(1..Len(s)) /\ Cardinality(1..Len(s)) = Len(s)
  BY <1>2, FS_Interval
<1>4. ExistsBijection(1..Len(s), Range(s))
  BY <1>1 DEF ExistsBijection
<1>5. Cardinality(Range(s)) = Cardinality(1..Len(s))
  BY <1>3, <1>4, FS_Bijection
<1>6. QED BY <1>3, <1>5

\* The keys at indices that count from 0.
LEMMA FromZero ==
  ASSUME NEW S, NEW s \in Seq(S)
  PROVE  /\ \A n \in Nat : n < Len(s) => s[n + 1] \in Range(s)
         /\ \A x \in Range(s) : \E n \in 0..Len(s) - 1 : x = s[n + 1]
<1>1. \A n \in Nat : n < Len(s) => s[n + 1] \in Range(s)
  BY DEF Range
<1>2. ASSUME NEW x \in Range(s) PROVE \E n \in 0..Len(s) - 1 : x = s[n + 1]
  <2>1. PICK i \in 1..Len(s) : x = s[i]
    BY DEF Range
  <2>2. i - 1 \in 0..Len(s) - 1 /\ (i - 1) + 1 = i
    OBVIOUS
  <2>3. QED BY <2>1, <2>2
<1>3. QED BY <1>1, <1>2

\* An index below the number of verifiers picks one of them.
LEMMA VerifierIsPicked ==
  ASSUME RegistryInv, NEW m \in Masters
  PROVE  /\ Cardinality(verifierNodes[m]) <= Len(verifierKeys[m])
         /\ VerifierPicks(m) \subseteq verifierNodes[m]
         /\ IsInjective(verifierKeys[m]) => VerifierPicks(m) = verifierNodes[m]
<1> DEFINE s == verifierKeys[m]
           c == Cardinality(verifierNodes[m])
<1>1. s \in Seq(Verifiers) /\ verifierNodes[m] = Range(s)
  BY KeysByMaster DEF RegistryInv, TypeOK, AllKeysOK, KeysOK
<1>2. c <= Len(s) /\ IsFiniteSet(Range(s))
  BY <1>1, RangeFinite
<1>3. c \in Nat /\ Len(s) \in Nat
  BY <1>1, <1>2, FS_CardinalityType
<1>4. VerifierPicks(m) = {s[n + 1] : n \in 0..c - 1}
  BY DEF VerifierPicks, getVerifierNodeKey
<1>5. IsInjective(s) => c = Len(s)
  BY <1>1, InjectiveLength
<1> HIDE DEF s, c
<1>6. {s[n + 1] : n \in 0..c - 1} \subseteq Range(s)
  <2>1. \A n \in 0..c - 1 : n \in Nat /\ n < Len(s)
    BY <1>2, <1>3
  <2>2. \A n \in 0..c - 1 : s[n + 1] \in Range(s)
    BY <1>1, <2>1, FromZero
  <2>3. QED BY <2>2
<1>7. c = Len(s) => Range(s) \subseteq {s[n + 1] : n \in 0..c - 1}
  BY <1>1, <1>3, FromZero
<1>8. QED BY <1>1, <1>2, <1>4, <1>5, <1>6, <1>7 DEF s, c

\* The storage nodes are the keys of the vector, or these and the empty key.
LEMMA StorageNodesCounted ==
  ASSUME RegistryInv, NEW m \in Masters
  PROVE  LET s == storageKeys[m]
             c == Cardinality(storageNodes[m])
             d == Cardinality(Range(s))
         IN /\ s \in Seq(Keys) /\ c \in Nat /\ d \in Nat /\ Len(s) \in Nat /\ d <= Len(s)
            /\ \/ storageNodes[m] = Range(s) /\ c = d
               \/ storageNodes[m] = Range(s) \cup {EmptyKey} /\ c = d + 1
<1> DEFINE s == storageKeys[m]
           c == Cardinality(storageNodes[m])
           d == Cardinality(Range(s))
<1>1. /\ s \in Seq(Keys) /\ Range(s) \subseteq storageNodes[m]
      /\ storageNodes[m] \subseteq Range(s) \cup {EmptyKey}
  BY KeysByMaster DEF RegistryInv, TypeOK, AllKeysOK, KeysOK
<1>2. d <= Len(s) /\ IsFiniteSet(Range(s))
  BY <1>1, RangeFinite
<1>3. c \in Nat /\ d \in Nat /\ Len(s) \in Nat
  BY <1>1, <1>2, MapsFinite, FS_CardinalityType
<1>4. CASE EmptyKey \in storageNodes[m] \ Range(s)
  <2>1. storageNodes[m] = Range(s) \cup {EmptyKey}
    BY <1>1, <1>4
  <2>2. Cardinality(Range(s) \cup {EmptyKey}) = d + 1
    BY <1>2, <1>4, FS_AddElement
  <2>3. QED BY <1>1, <1>2, <1>3, <2>1, <2>2
<1>5. CASE EmptyKey \notin storageNodes[m] \ Range(s)
  <2>1. storageNodes[m] = Range(s)
    BY <1>1, <1>5
  <2>2. QED BY <1>1, <1>2, <1>3, <2>1
<1>6. QED BY <1>4, <1>5

\* An index below the number of storage nodes picks one of them: past the vector
\* it picks the empty key, and only if that is in the map.
LEMMA StorageIsPicked ==
  ASSUME RegistryInv, NEW m \in Masters
  PROVE  /\ StoragePicks(m) \subseteq storageNodes[m]
         /\ IsInjective(storageKeys[m]) => StoragePicks(m) = storageNodes[m]
<1> DEFINE s == storageKeys[m]
           c == Cardinality(storageNodes[m])
           d == Cardinality(Range(s))
           pick(n) == IF Len(s) >= n + 1 THEN s[n + 1] ELSE EmptyKey
<1>1. /\ s \in Seq(Keys) /\ c \in Nat /\ d \in Nat /\ Len(s) \in Nat /\ d <= Len(s)
      /\ \/ storageNodes[m] = Range(s) /\ c = d
         \/ storageNodes[m] = Range(s) \cup {EmptyKey} /\ c = d + 1
  BY StorageNodesCounted
<1>2. StoragePicks(m) = {pick(n) : n \in 0..c - 1}
  BY DEF StoragePicks, getStorageNodeKey
<1>3. IsInjective(s) => d = Len(s)
  BY <1>1, InjectiveLength
<1> HIDE DEF s, c, d
<1>4. ASSUME NEW n \in 0..c - 1 PROVE pick(n) \in storageNodes[m]
  <2>1. CASE Len(s) >= n + 1
    <3>1. n \in Nat /\ n < Len(s)
      BY <1>1, <2>1
    <3>2. s[n + 1] \in Range(s)
      BY <1>1, <3>1, FromZero
    <3>3. QED BY <1>1, <2>1, <3>2
  <2>2. CASE ~(Len(s) >= n + 1)
    <3>1. ~(c = d)
      BY <1>1, <2>2
    <3>2. QED BY <1>1, <2>2, <3>1
  <2>3. QED BY <2>1, <2>2
<1>5. ASSUME d = Len(s), NEW x \in storageNodes[m] PROVE \E n \in 0..c - 1 : x = pick(n)
  <2>1. CASE x \in Range(s)
    <3>1. PICK n \in 0..Len(s) - 1 : x = s[n + 1]
      BY <1>1, <2>1, FromZero
    <3>2. n \in 0..c - 1 /\ Len(s) >= n + 1
      BY <1>1, <1>5
    <3>3. QED BY <3>1, <3>2
  <2>2. CASE x \notin Range(s)
    <3>1. x = EmptyKey /\ c = d + 1
      BY <1>1, <2>2
    <3>2. Len(s) \in 0..c - 1 /\ ~(Len(s) >= Len(s) + 1)
      BY <1>1, <1>5, <3>1
    <3>3. QED BY <3>1, <3>2
  <2>3. QED BY <2>1, <2>2
<1>6. {pick(n) : n \in 0..c - 1} \subseteq storageNodes[m]
  BY <1>4
<1>7. d = Len(s) => storageNodes[m] \subseteq {pick(n) : n \in 0..c - 1}
  BY <1>5
<1> HIDE DEF pick
<1>8. QED BY <1>2, <1>3, <1>6, <1>7 DEF s

\* Steps that only add to the maps leave the choices as they are.
LEMMA GrowingStep ==
  ASSUME ChoiceInv, UNCHANGED roleVars, \A k \in Masters : storageNodes[k] \subseteq storageNodes'[k]
  PROVE  AgreeOK' /\ ChosenIsFound'
<1>1. AgreeOK'
  BY DEF ChoiceInv, AgreeOK, OnlyPut, Settled, roleVars
<1>2. QED BY <1>1 DEF ChoiceInv, ChosenIsFound, roleVars

\* A master that stops takes its choice, and a put it still owed, with it.
LEMMA StopAgrees ==
  ASSUME ChoiceInv, NEW m \in Masters, stop(m) PROVE AgreeOK' /\ ChosenIsFound'
<1>1. MapsOK /\ RolesOK
  BY TypeParts DEF ChoiceInv, RegistryInv
<1>2. /\ \A r \in Roles : at'[m][r] = "idle" /\ chosen'[m][r] = None
      /\ \A k \in Masters \ {m} : at'[k] = at[k] /\ chosen'[k] = chosen[k] /\ storageNodes'[k] = storageNodes[k]
      /\ UNCHANGED <<dhtValues, raced>>
  BY <1>1 DEF stop, MapsOK, RolesOK
<1>3. ASSUME NEW r \in Roles \ raced PROVE OnlyPut(r)' /\ ((EmptyKey \in dhtValues[r])' \/ Settled(r)')
  <2>1. OnlyPut(r) /\ (EmptyKey \in dhtValues[r] \/ Settled(r))
    BY DEF ChoiceInv, AgreeOK
  <2>2. OnlyPut(r)'
    BY <1>2, <2>1 DEF OnlyPut
  <2>3. Settled(r) => Settled(r)'
    BY <1>2 DEF Settled
  <2>4. QED BY <1>2, <2>1, <2>2, <2>3
<1>4. AgreeOK'
  BY <1>2, <1>3 DEF AgreeOK
<1>5. EmptyKey # None
  BY RegistryAssumption
<1>6. QED BY <1>2, <1>4, <1>5 DEF ChoiceInv, ChosenIsFound

\* A search that finds a value takes the one that was put.
LEMMA FoundAgrees ==
  ASSUME ChoiceInv, NEW m \in Masters, NEW r \in Roles, NEW v \in Keys, Found(m, r, v),
         at[m][r] = "idle", storageNodes' = storageNodes
  PROVE  AgreeOK' /\ ChosenIsFound'
<1>1. UNCHANGED <<at, raced, dhtValues>> /\ v \in dhtValues[r] /\ v # EmptyKey
  BY DEF Found
<1>2. /\ chosen'[m][r] = v
      /\ \A k \in Masters, q \in Roles : k # m \/ q # r => chosen'[k][q] = chosen[k][q]
  <2>1. Chooses(m, r, v) /\ RegistryInv
    BY DEF Found, Chooses, ChoiceInv
  <2>2. QED BY <2>1, OneChoice
<1>3. ASSUME NEW q \in Roles \ raced PROVE OnlyPut(q)' /\ ((EmptyKey \in dhtValues[q])' \/ Settled(q)')
  <2>1. OnlyPut(q) /\ (EmptyKey \in dhtValues[q] \/ Settled(q))
    BY DEF ChoiceInv, AgreeOK
  <2>2. OnlyPut(q)'
    BY <1>1, <2>1 DEF OnlyPut
  <2>3. Settled(q) => Settled(q)'
    BY <1>1, <1>2 DEF Settled
  <2>4. QED BY <1>1, <2>1, <2>2, <2>3
<1>4. AgreeOK'
  BY <1>1, <1>3 DEF AgreeOK
<1>5. ChosenIsFound'
  BY <1>1, <1>2 DEF ChoiceInv, ChosenIsFound
<1>6. QED BY <1>4, <1>5

\* A search that finds nothing: no one else has chosen, or two race, or the empty
\* key was put.
LEMMA PickedAgrees ==
  ASSUME ChoiceInv, NEW m \in Masters, NEW r \in Roles, NEW v \in Keys, Picked(m, r, v),
         Cardinality(storageNodes[m]) >= Index(r) + 1, storageNodes' = storageNodes
  PROVE  AgreeOK' /\ ChosenIsFound'
<1>1. /\ dhtValues' = dhtValues /\ raced \subseteq raced' /\ raced' \subseteq raced \cup {r}
      /\ v = getStorageNodeKey(m, Index(r)) /\ (dhtValues[r] = {} \/ EmptyKey \in dhtValues[r])
      /\ (\E o \in Masters : at[o][r] = "put") => r \in raced'
  BY DEF Picked
<1>2. Chooses(m, r, v) /\ RegistryInv
  BY DEF Picked, Chooses, ChoiceInv
<1>3. ComesTo(m, r, "put") /\ "put" \in {"idle", "put"}
  BY DEF Picked, ComesTo
<1>4. /\ chosen'[m][r] = v
      /\ \A k \in Masters, q \in Roles : k # m \/ q # r => chosen'[k][q] = chosen[k][q]
  BY <1>2, OneChoice
<1>5. /\ at'[m][r] = "put"
      /\ \A k \in Masters, q \in Roles : k # m \/ q # r => at'[k][q] = at[k][q]
  BY <1>2, <1>3, OnePlace
<1>6. ASSUME NEW q \in Roles \ raced' PROVE OnlyPut(q)' /\ ((EmptyKey \in dhtValues[q])' \/ Settled(q)')
  <2>1. OnlyPut(q) /\ (EmptyKey \in dhtValues[q] \/ Settled(q))
    BY <1>1 DEF ChoiceInv, AgreeOK
  <2>2. CASE q = r
    <3>1. \A o \in Masters : at[o][r] # "put"
      BY <1>1, <2>2
    <3>2. OnlyPut(q)'
      BY <1>5, <2>2, <3>1 DEF OnlyPut
    <3>3. CASE EmptyKey \in dhtValues[r]
      BY <1>1, <2>2, <3>2, <3>3
    <3>4. CASE EmptyKey \notin dhtValues[r]
      <4>1. dhtValues[r] = {} /\ dhtValues'[r] = {} /\ \A o \in Masters : chosen[o][r] = None
        BY <1>1, <2>1, <2>2, <3>1, <3>4 DEF Settled
      <4>2. Settled(q)'
        BY <1>4, <1>5, <2>2, <4>1 DEF Settled
      <4>3. QED BY <3>2, <4>2
    <3>5. QED BY <3>3, <3>4
  <2>3. CASE q # r
    <3>1. \A k \in Masters : at'[k][q] = at[k][q] /\ chosen'[k][q] = chosen[k][q]
      BY <1>4, <1>5, <2>3
    <3>2. QED BY <1>1, <2>1, <3>1 DEF OnlyPut, Settled
  <2>4. QED BY <2>2, <2>3
<1>7. AgreeOK'
  BY <1>6 DEF AgreeOK
<1>8. Index(r) \in Nat
  BY DEF Index
<1>9. v = EmptyKey => EmptyKey \in storageNodes[m]
  BY <1>1, <1>8, KeyIsFound DEF ChoiceInv
<1>10. ChosenIsFound'
  BY <1>4, <1>9 DEF ChoiceInv, ChosenIsFound
<1>11. QED BY <1>7, <1>10

\* The put is the first, or the empty key was put.
LEMMA PutAgrees ==
  ASSUME ChoiceInv, NEW m \in Masters, NEW r \in Roles, putStorageNode(m, r)
  PROVE  AgreeOK' /\ ChosenIsFound'
<1>1. /\ at[m][r] = "put" /\ chosen[m][r] \in Keys /\ UNCHANGED <<chosen, raced>>
      /\ ComesTo(m, r, "idle") /\ "idle" \in {"idle", "put"}
      /\ dhtValues'[r] = dhtValues[r] \cup {chosen[m][r]}
      /\ \A q \in Roles \ {r} : dhtValues'[q] = dhtValues[q]
  BY OnePut DEF ChoiceInv
<1>2. /\ at'[m][r] = "idle"
      /\ \A k \in Masters, q \in Roles : k # m \/ q # r => at'[k][q] = at[k][q]
  BY <1>1, OnePlace DEF ChoiceInv
<1>3. ASSUME NEW q \in Roles \ raced PROVE OnlyPut(q)' /\ ((EmptyKey \in dhtValues[q])' \/ Settled(q)')
  <2>1. OnlyPut(q) /\ (EmptyKey \in dhtValues[q] \/ Settled(q))
    BY DEF ChoiceInv, AgreeOK
  <2>2. OnlyPut(q)'
    BY <1>2, <2>1 DEF OnlyPut
  <2>3. CASE EmptyKey \in dhtValues[q]
    BY <1>1, <2>2, <2>3
  <2>4. CASE Settled(q) /\ q = r
    <3>1. dhtValues[r] = {} /\ dhtValues'[r] = {chosen[m][r]}
      BY <1>1, <2>4 DEF Settled
    <3>2. \A k \in Masters \ {m} : at[k][r] # "put" /\ at'[k][r] # "put" /\ chosen[k][r] = None
      BY <1>1, <1>2, <2>1, <2>4, <3>1 DEF OnlyPut, Settled
    <3>3. Settled(q)'
      BY <1>1, <1>2, <2>4, <3>1, <3>2 DEF Settled
    <3>4. QED BY <2>2, <3>3
  <2>5. CASE Settled(q) /\ q # r
    BY <1>1, <1>2, <2>2, <2>5 DEF Settled
  <2>6. QED BY <2>1, <2>3, <2>4, <2>5
<1>4. AgreeOK'
  BY <1>1, <1>3 DEF AgreeOK
<1>5. storageNodes' = storageNodes
  BY DEF putStorageNode, mapVars
<1>6. QED BY <1>1, <1>4, <1>5 DEF ChoiceInv, ChosenIsFound

\* Every step keeps the agreement.
LEMMA ChoiceStep == ChoiceInv /\ [Next]_vars => ChoiceInv'
<1> SUFFICES ASSUME ChoiceInv, [Next]_vars PROVE AgreeOK' /\ ChosenIsFound'
  BY RegistryStep DEF ChoiceInv
<1>1. CASE \/ \E n \in Workers : connect(n)
           \/ \E m \in Masters : boot(m) \/ storageurl(m)
           \/ \E o, m \in Masters : sendNodes(o, m)
           \/ Handle \/ UNCHANGED vars
  <2>1. UNCHANGED roleVars
    BY <1>1 DEF connect, boot, storageurl, sendNodes, Handle, onConnectionRequest, syncNodes, vars
  <2>2. \A k \in Masters : storageNodes[k] \subseteq storageNodes'[k]
    BY <1>1, MapsGrow DEF ChoiceInv, NoStop
  <2>3. QED BY <2>1, <2>2, GrowingStep
<1>2. ASSUME NEW m \in Masters, stop(m) PROVE AgreeOK' /\ ChosenIsFound'
  BY <1>2, StopAgrees
<1>3. ASSUME NEW m \in Masters, NEW r \in Roles, getStorageNode(m, r) PROVE AgreeOK' /\ ChosenIsFound'
  <2>1. storageNodes' = storageNodes
    BY <1>3 DEF getStorageNode, mapVars
  <2>2. /\ at[m][r] = "idle" /\ Cardinality(storageNodes[m]) >= Index(r) + 1
        /\ \E v \in Keys : Found(m, r, v) \/ Picked(m, r, v)
    BY <1>3, SearchCases DEF ChoiceInv
  <2>3. QED BY <2>1, <2>2, FoundAgrees, PickedAgrees
<1>4. ASSUME NEW m \in Masters, NEW r \in Roles, putStorageNode(m, r) PROVE AgreeOK' /\ ChosenIsFound'
  BY <1>4, PutAgrees
<1>5. QED BY <1>1, <1>2, <1>3, <1>4 DEF Next

\* Choices that are settled are one.
LEMMA SettledIsAgreed ==
  ASSUME NEW r \in Roles, OnlyPut(r), Settled(r)
  PROVE  Cardinality({chosen[m][r] : m \in Masters} \ {None}) <= 1
<1> DEFINE C == {chosen[m][r] : m \in Masters} \ {None}
<1>1. \A x, y \in C : x = y
  BY DEF OnlyPut, Settled
<1>2. CASE C = {}
  BY <1>2, FS_EmptySet
<1>3. CASE C # {}
  <2>1. PICK x : x \in C
    BY <1>3
  <2>2. C = {x}
    BY <1>1, <2>1
  <2>3. Cardinality(C) = 1
    BY <2>2, FS_Singleton, Zenon
  <2>4. QED BY <2>3
<1>4. QED BY <1>2, <1>3

\* It holds at the start.
LEMMA RegistryInit == Init => ChoiceInv
<1> SUFFICES ASSUME Init PROVE ChoiceInv
  OBVIOUS
<1>1. TypeOK /\ MessagesOK /\ PutOK
  BY RegistryAssumption DEF Init, TypeOK, MessagesOK, PutOK, Nothing
<1>2. AllKeysOK
  BY DEF Init, AllKeysOK, KeysOK, Range, Nothing
<1>3. RegistryInv
  BY <1>1, <1>2, KeysByMaster DEF RegistryInv
<1>4. AgreeOK
  BY DEF Init, AgreeOK, OnlyPut, Settled
<1>5. ChosenIsFound
  BY RegistryAssumption DEF Init, ChosenIsFound
<1>6. QED BY <1>3, <1>4, <1>5 DEF ChoiceInv

-----------------------------------------------------------------------------
(* What a booted master has to learn.                                       *)

\* Where node x is that master m has to learn from master o.
OnWay(m, x, o) ==
  \/ x \in Knows(m) \/ m \in syncing[o]
  \/ \E msg \in messages : \/ msg.type = "connectionRequest" /\ msg.to = o /\ msg.node = m
                           \/ msg.type = "syncNodes" /\ msg.to = m /\ x \in msg.v \cup msg.s

\* Both masters are up, the one still knows the node, the other gets to know it.
OwedOK(m, x, o) == m \in up /\ o \in up /\ x \in Knows(o) /\ OnWay(m, x, o)

AllOwedOK == \A m, o \in Masters, x \in Verifiers \cup Keys : <<m, x, o>> \in owed => OwedOK(m, x, o)

OwedInv == RegistryInv /\ AllOwedOK

\* Nothing is lost as long as nothing is taken away.
LEMMA OwedGrows ==
  ASSUME NEW m \in Masters, NEW o \in Masters, NEW x, OwedOK(m, x, o),
         up \subseteq up', Knows(m) \subseteq Knows(m)', Knows(o) \subseteq Knows(o)',
         m \in syncing[o] => OnWay(m, x, o)',
         \A msg \in messages \ messages' :
           \/ msg.type = "connectionRequest" /\ msg.to = o /\ msg.node = m
           \/ msg.type = "syncNodes" /\ msg.to = m /\ x \in msg.v \cup msg.s
           => OnWay(m, x, o)'
  PROVE  OwedOK(m, x, o)'
<1>1. m \in up' /\ o \in up' /\ x \in Knows(o)'
  BY DEF OwedOK
<1>2. x \in Knows(m) \/ m \in syncing[o] => OnWay(m, x, o)'
  BY DEF OnWay
<1>3. ASSUME NEW msg \in messages,
             \/ msg.type = "connectionRequest" /\ msg.to = o /\ msg.node = m
             \/ msg.type = "syncNodes" /\ msg.to = m /\ x \in msg.v \cup msg.s
      PROVE  OnWay(m, x, o)'
  <2>1. CASE msg \in messages'
    BY <1>3, <2>1 DEF OnWay
  <2>2. CASE msg \notin messages'
    BY <1>3, <2>2
  <2>3. QED BY <2>1, <2>2
<1>4. OnWay(m, x, o)'
  BY <1>2, <1>3 DEF OwedOK, OnWay
<1>5. QED BY <1>1, <1>4 DEF OwedOK

\* Every step keeps what is owed on its way.
LEMMA OwedStep == OwedInv /\ [Next]_vars => OwedInv'
<1> SUFFICES ASSUME OwedInv, [Next]_vars,
                    NEW m \in Masters, NEW o \in Masters, NEW x \in Verifiers \cup Keys,
                    <<m, x, o>> \in owed'
             PROVE  OwedOK(m, x, o)'
  BY RegistryStep DEF OwedInv, AllOwedOK
<1>0. <<m, x, o>> \in owed => OwedOK(m, x, o)
  BY DEF OwedInv, AllOwedOK
<1>1. NoStop \/ UNCHANGED vars => Knows(m) \subseteq Knows(m)' /\ Knows(o) \subseteq Knows(o)'
  BY MapsGrow DEF OwedInv, Knows
<1>2. CASE \/ \E n \in Workers : connect(n)
           \/ \E k \in Masters : storageurl(k)
           \/ \E k \in Masters, r \in Roles : getStorageNode(k, r) \/ putStorageNode(k, r)
           \/ UNCHANGED vars
  <2>1. up' = up /\ messages \subseteq messages' /\ syncing' = syncing /\ owed' = owed
    BY <1>2 DEF connect, storageurl, getStorageNode, putStorageNode, vars
  <2>2. Knows(m) \subseteq Knows(m)' /\ Knows(o) \subseteq Knows(o)'
    BY <1>1, <1>2 DEF NoStop
  <2>3. m \in syncing[o] => OnWay(m, x, o)'
    BY <2>1 DEF OnWay
  <2>4. QED BY <1>0, <2>1, <2>2, <2>3, OwedGrows
<1>3. ASSUME NEW k \in Masters, boot(k) PROVE OwedOK(m, x, o)'
  <2>1. /\ up' = up \cup {k} /\ syncing' = syncing /\ mapVars' = mapVars
        /\ messages' = messages \cup {connectionRequest(c, k, stops) : c \in up}
        /\ owed' = owed \cup UNION {{<<k, y, c>> : y \in Knows(c)} : c \in up}
    BY <1>3 DEF boot
  <2>2. Knows(m) \subseteq Knows(m)' /\ Knows(o) \subseteq Knows(o)'
    BY <1>1, <1>3 DEF NoStop
  <2>3. CASE <<m, x, o>> \in owed
    <3>1. m \in syncing[o] => OnWay(m, x, o)'
      BY <2>1 DEF OnWay
    <3>2. QED BY <1>0, <2>1, <2>2, <2>3, <3>1, OwedGrows
  <2>4. CASE <<m, x, o>> \notin owed
    <3>1. m = k /\ o \in up /\ x \in Knows(o)
      BY <2>1, <2>4
    <3>2. connectionRequest(o, m, stops) \in messages'
      BY <2>1, <3>1
    <3>3. OnWay(m, x, o)'
      BY <3>2 DEF OnWay, connectionRequest
    <3>4. QED BY <2>1, <2>2, <3>1, <3>3 DEF OwedOK
  <2>5. QED BY <2>3, <2>4
<1>4. ASSUME NEW k \in Masters, stop(k) PROVE OwedOK(m, x, o)'
  <2>1. <<m, x, o>> \in owed /\ m # k /\ o # k
    BY <1>4 DEF stop
  <2>2. /\ syncing'[o] = syncing[o] /\ verifierNodes'[o] = verifierNodes[o] /\ verifierNodes'[m] = verifierNodes[m]
        /\ storageNodes'[o] = storageNodes[o] /\ storageNodes'[m] = storageNodes[m]
    BY <1>4, <2>1 DEF stop, OwedInv, RegistryInv, TypeOK
  <2>3. Knows(m)' = Knows(m) /\ Knows(o)' = Knows(o)
    BY <2>2 DEF Knows
  <2>4. up' = up \ {k} /\ \A msg \in messages : msg.to # k => msg \in messages'
    BY <1>4 DEF stop
  <2>5. OwedOK(m, x, o)
    BY <1>0, <2>1
  <2>6. OnWay(m, x, o)'
    BY <2>1, <2>2, <2>3, <2>4, <2>5 DEF OwedOK, OnWay
  <2>7. QED BY <2>1, <2>3, <2>4, <2>5, <2>6 DEF OwedOK
<1>5. ASSUME NEW msg \in messages, onConnectionRequest(msg) PROVE OwedOK(m, x, o)'
  <2>1. /\ up' = up /\ owed' = owed /\ messages' = messages \ {msg} /\ msg.type = "connectionRequest"
        /\ addNode(msg.to, msg.node)
    BY <1>5 DEF onConnectionRequest
  <2>2. Knows(m) \subseteq Knows(m)' /\ Knows(o) \subseteq Knows(o)'
    BY <1>1, <1>5 DEF NoStop, Handle
  <2>3. syncing \in [Masters -> SUBSET Masters]
    BY DEF OwedInv, RegistryInv, TypeOK
  <2>4. m \in syncing[o] \/ (msg.to = o /\ msg.node = m) => m \in syncing'[o]
    BY <2>1, <2>3 DEF addNode
  <2>5. m \in syncing'[o] => OnWay(m, x, o)'
    BY DEF OnWay
  <2>6. QED BY <1>0, <2>1, <2>2, <2>4, <2>5, OwedGrows
<1>6. ASSUME NEW msg \in messages, syncNodes(msg) PROVE OwedOK(m, x, o)'
  <2>1. /\ up' = up /\ owed' = owed /\ messages' = messages \ {msg} /\ msg.type = "syncNodes"
        /\ syncing' = syncing /\ verifierNodes' = [verifierNodes EXCEPT ![msg.to] = @ \cup msg.v]
        /\ storageNodes' = [storageNodes EXCEPT ![msg.to] = @ \cup msg.s]
    BY <1>6 DEF syncNodes
  <2>2. Knows(m) \subseteq Knows(m)' /\ Knows(o) \subseteq Knows(o)'
    BY <1>1, <1>6 DEF NoStop, Handle
  <2>3. msg.to = m /\ x \in msg.v \cup msg.s => x \in Knows(m)'
    BY <2>1 DEF Knows, OwedInv, RegistryInv, TypeOK
  <2>4. (x \in Knows(m)' => OnWay(m, x, o)') /\ (m \in syncing[o] => OnWay(m, x, o)')
    BY <2>1 DEF OnWay
  <2>5. QED BY <1>0, <2>1, <2>2, <2>3, <2>4, OwedGrows
<1>7. ASSUME NEW c \in Masters, NEW k \in Masters, sendNodes(c, k) PROVE OwedOK(m, x, o)'
  <2>1. /\ up' = up /\ owed' = owed /\ messages \subseteq messages'
        /\ syncing' = [syncing EXCEPT ![c] = @ \ {k}]
        /\ k \in up => syncMessage(k, c, stops) \in messages'
    BY <1>7 DEF sendNodes
  <2>2. Knows(m) \subseteq Knows(m)' /\ Knows(o) \subseteq Knows(o)'
    BY <1>1, <1>7 DEF NoStop
  <2>3. OwedOK(m, x, o)
    BY <1>0, <2>1
  <2>4. ASSUME m \in syncing[o] PROVE OnWay(m, x, o)'
    <3>1. CASE c = o /\ k = m
      <4>1. syncMessage(m, o, stops) \in messages' /\ x \in Knows(o)
        BY <2>1, <2>3, <3>1 DEF OwedOK
      <4>2. QED BY <4>1 DEF OnWay, syncMessage, Knows
    <3>2. CASE ~(c = o /\ k = m)
      <4>1. m \in syncing'[o]
        BY <2>1, <2>4, <3>2 DEF OwedInv, RegistryInv, TypeOK
      <4>2. QED BY <4>1 DEF OnWay
    <3>3. QED BY <3>1, <3>2
  <2>5. QED BY <2>1, <2>2, <2>3, <2>4, OwedGrows
<1>8. QED BY <1>2, <1>3, <1>4, <1>5, <1>6, <1>7 DEF Next, Handle

-----------------------------------------------------------------------------
\* Whatever nodes come again and whatever masters tell each other, in any order
\* and any number of times, a random index below the size of a map picks a node of
\* that map, and any of them while no key was pushed twice.
THEOREM PickIsKnownCorrect == Spec => []PickIsKnown
<1>1. ASSUME RegistryInv PROVE PickIsKnown
  BY <1>1, VerifierIsPicked, StorageIsPicked DEF PickIsKnown
<1>2. ChoiceInv => PickIsKnown
  BY <1>1 DEF ChoiceInv
<1>3. QED BY <1>2, RegistryInit, ChoiceStep, PTL DEF Spec

\* Any number of masters, which boot and stop as they like, use one storage node
\* for blocks and one for state changes, unless two of them raced to put it or
\* the empty key was put.
THEOREM StorageNodeAgreedCorrect == Spec => []StorageNodeAgreed
<1>1. ChoiceInv => StorageNodeAgreed
  BY SettledIsAgreed DEF ChoiceInv, AgreeOK, StorageNodeAgreed
<1>2. QED BY <1>1, RegistryInit, ChoiceStep, PTL DEF Spec

\* A master that counted enough storage nodes picks one of them: what it uses is
\* the empty key only if that key is in its own map.
THEOREM ChosenIsFoundCorrect == Spec => []ChosenIsFound
<1>1. ChoiceInv => ChosenIsFound
  BY DEF ChoiceInv
<1>2. QED BY <1>1, RegistryInit, ChoiceStep, PTL DEF Spec

\* However masters boot, stop and boot again, and in whatever order requests and
\* syncNodes are handled, no node that a booted master has to learn is lost.
THEOREM OwedIsOnItsWayCorrect == Spec => []OwedIsOnItsWay
<1>1. Init => OwedInv
  BY RegistryInit DEF Init, ChoiceInv, OwedInv, AllOwedOK
<1>2. OwedInv => OwedIsOnItsWay
  <2> SUFFICES ASSUME OwedInv, NEW p \in owed PROVE OnWay(p[1], p[2], p[3])
    BY DEF OwedIsOnItsWay, OnWay
  <2>1. PICK m \in Masters, x \in Verifiers \cup Keys, o \in Masters : p = <<m, x, o>>
    BY DEF OwedInv, RegistryInv, TypeOK
  <2>2. OnWay(m, x, o)
    BY <2>1 DEF OwedInv, AllOwedOK, OwedOK
  <2>3. QED BY <2>1, <2>2
<1>3. QED BY <1>1, <1>2, OwedStep, PTL DEF Spec

-----------------------------------------------------------------------------
(* The web socket server.                                                   *)

\* A connection that was opened has a client at its other end.
OwnedOK == \A h \in Connections : status[h] # "unused" => owner[h] \in Clients

\* A thread that is to answer has the key of the client.
ThreadOK ==
  \A r \in Requests : thread[r].at \notin {"none", "ended"} => thread[r].key \in Clients

ServerInv ==
  /\ ServerTypeOK /\ OwnedOK /\ ThreadOK /\ NoStaleEntry

Places == {"none", "ack", "sendAck", "answer", "sendAnswer", "ended"}
Threads == [at : Places, key : Clients \cup {Nil}, hdl : Connections \cup {Nil}]

\* The steps of the server's thread but for onMessage leave the requests alone.
Serving ==
  \E h \in Connections : \/ \E k \in Clients : onOpen(h, k)
                         \/ addConnection(h) \/ leave(h) \/ onClose(h)

\* They keep the invariant.
LEMMA ServingStep ==
  ASSUME ServerInv, Serving PROVE ServerInv'
<1> USE DEF ServerInv
<1>0. UNCHANGED <<thread, via, received>>
  BY DEF Serving, onOpen, addConnection, leave, onClose
<1>1. ThreadOK'
  BY <1>0 DEF ThreadOK
<1>2. ASSUME NEW h \in Connections, NEW k \in Clients, onOpen(h, k)
      PROVE  ServerTypeOK' /\ OwnedOK' /\ NoStaleEntry'
  <2>1. overlapped' \subseteq Clients
    BY <1>2 DEF onOpen, ServerTypeOK
  <2>2. ServerTypeOK'
    BY <1>0, <1>2, <2>1 DEF onOpen, ServerTypeOK
  <2>3. \A c \in Connections \ {h} : status'[c] = status[c] /\ owner'[c] = owner[c]
    BY <1>2 DEF onOpen, ServerTypeOK
  <2>4. owner'[h] = k /\ m_connections' = m_connections /\ status[h] = "unused"
    BY <1>2 DEF onOpen, ServerTypeOK
  <2>5. OwnedOK'
    BY <2>3, <2>4 DEF OwnedOK
  <2>6. NoStaleEntry'
    BY <2>3, <2>4 DEF NoStaleEntry, ServerTypeOK
  <2>7. QED BY <2>2, <2>5, <2>6
<1>3. ASSUME NEW h \in Connections, addConnection(h)
      PROVE  ServerTypeOK' /\ OwnedOK' /\ NoStaleEntry'
  <2>1. /\ status[h] = "open" /\ owner[h] \in Clients /\ UNCHANGED <<status, owner, overlapped>>
        /\ greeted' = greeted \cup {h}
    BY <1>3 DEF addConnection, OwnedOK
  <2>2. m_connections' = [m_connections EXCEPT ![owner[h]] = IF @ = Nil THEN h ELSE @]
    BY <1>3 DEF addConnection
  <2>3. ServerTypeOK'
    BY <1>0, <2>1, <2>2 DEF ServerTypeOK
  <2>4. \A c \in Clients : m_connections'[c] = m_connections[c] \/ (c = owner[h] /\ m_connections'[c] = h)
    BY <2>2 DEF ServerTypeOK
  <2>5. NoStaleEntry'
    BY <2>1, <2>4 DEF NoStaleEntry
  <2>6. QED BY <2>1, <2>3, <2>5 DEF OwnedOK
<1>4. ASSUME NEW h \in Connections, leave(h)
      PROVE  ServerTypeOK' /\ OwnedOK' /\ NoStaleEntry'
  <2>1. ServerTypeOK'
    BY <1>0, <1>4 DEF leave, ServerTypeOK
  <2>2. /\ UNCHANGED <<owner, m_connections>> /\ status[h] = "open"
        /\ \A c \in Connections : status'[c] = IF c = h THEN "leaving" ELSE status[c]
    BY <1>4 DEF leave, ServerTypeOK
  <2>3. OwnedOK' /\ NoStaleEntry'
    BY <2>2 DEF OwnedOK, NoStaleEntry, ServerTypeOK
  <2>4. QED BY <2>1, <2>3
<1>5. ASSUME NEW h \in Connections, onClose(h)
      PROVE  ServerTypeOK' /\ OwnedOK' /\ NoStaleEntry'
  <2>1. /\ UNCHANGED <<owner, greeted, overlapped>> /\ status[h] = "leaving"
        /\ status' \in [Connections -> {"unused", "open", "leaving", "closed"}]
        /\ \A c \in Connections : status'[c] = IF c = h THEN "closed" ELSE status[c]
    BY <1>5 DEF onClose, ServerTypeOK
  <2>2. m_connections' = [k \in Clients |-> IF k = getKeyFromHdl(h) THEN Nil ELSE m_connections[k]]
    BY <1>5 DEF onClose
  <2>3. m_connections' \in [Clients -> Connections \cup {Nil}]
    BY <2>2 DEF ServerTypeOK
  <2>4. ServerTypeOK'
    BY <1>0, <2>1, <2>3 DEF ServerTypeOK
  <2>5. ASSUME NEW k \in Clients, m_connections[k] = h PROVE getKeyFromHdl(h) = k
    <3>1. h # Nil
      BY ServerAssumption
    <3>2. \A c \in Clients : m_connections[c] = h => c = owner[h]
      BY <3>1 DEF NoStaleEntry
    <3>3. QED BY <2>5, <3>2 DEF getKeyFromHdl
  <2>6. \A k \in Clients : m_connections'[k] = Nil \/ (m_connections'[k] = m_connections[k] /\ m_connections[k] # h)
    BY <2>2, <2>5
  <2>7. NoStaleEntry'
    BY <2>1, <2>6 DEF NoStaleEntry, ServerTypeOK
  <2>8. OwnedOK'
    BY <2>1 DEF OwnedOK
  <2>9. QED BY <2>4, <2>7, <2>8
<1>6. QED BY <1>1, <1>2, <1>3, <1>4, <1>5 DEF Serving

\* What an entry, a connection or a key is does not depend on the threads.
LEMMA RequestStep ==
  ASSUME ServerInv, UNCHANGED connectionVars, thread' \in [Requests -> Threads],
         via' \in [Requests -> Connections \cup {Nil}],
         received' \subseteq Requests \X {"ack", "answer"}, ThreadOK'
  PROVE  ServerInv'
<1>1. ServerTypeOK'
  BY DEF ServerInv, ServerTypeOK, connectionVars, Threads, Places
<1>2. OwnedOK' /\ NoStaleEntry'
  BY DEF ServerInv, OwnedOK, NoStaleEntry, connectionVars
<1>3. QED BY <1>1, <1>2 DEF ServerInv

\* One thread goes on, to a place where it needs the key only if it has it.
LEMMA OneThread ==
  ASSUME ServerInv, NEW r \in Requests, NEW t \in Threads, thread' = [thread EXCEPT ![r] = t],
         t.at \notin {"none", "ended"} => t.key \in Clients
  PROVE  thread' \in [Requests -> Threads] /\ ThreadOK'
<1>1. thread \in [Requests -> Threads]
  BY DEF ServerInv, ServerTypeOK, Threads, Places
<1>2. \A q \in Requests : thread'[q] = IF q = r THEN t ELSE thread[q]
  BY <1>1
<1>3. QED BY <1>1, <1>2 DEF ServerInv, ThreadOK

\* Every step does.
LEMMA ServerStep == ServerInv /\ [ServerNext]_serverVars => ServerInv'
<1> SUFFICES ASSUME ServerInv, [ServerNext]_serverVars PROVE ServerInv'
  OBVIOUS
<1>0. \A r \in Requests : thread[r] \in Threads
  BY DEF ServerInv, ServerTypeOK, Threads, Places
<1>1. CASE Serving
  BY <1>1, ServingStep
<1>2. ASSUME NEW h \in Connections, NEW r \in Requests, onMessage(h, r) PROVE ServerInv'
  <2> DEFINE k == getKeyFromHdl(h)
             t == IF k = Nil THEN [NoThread EXCEPT !.at = "ended"]
                  ELSE [NoThread EXCEPT !.at = "ack", !.key = k]
  <2>1. k \in Clients \cup {Nil}
    BY DEF getKeyFromHdl
  <2>2. t \in Threads /\ (t.at \notin {"none", "ended"} => t.key \in Clients)
    BY <2>1 DEF Threads, Places, NoThread
  <2>3. /\ thread' = [thread EXCEPT ![r] = t] /\ via' = [via EXCEPT ![r] = h]
        /\ UNCHANGED connectionVars /\ received' = received
    BY <1>2 DEF onMessage
  <2> HIDE DEF t
  <2>4. thread' \in [Requests -> Threads] /\ ThreadOK'
    BY <2>2, <2>3, OneThread
  <2>5. QED BY <2>3, <2>4, RequestStep DEF ServerInv, ServerTypeOK
<1>3. ASSUME NEW r \in Requests, getDataFromKey(r) PROVE ServerInv'
  <2> DEFINE t == thread[r]
             x == m_connections[t.key]
             a == IF t.at = "ack" THEN "sendAck" ELSE "sendAnswer"
             g == IF x = Nil THEN [t EXCEPT !.at = "ended"] ELSE [t EXCEPT !.at = a, !.hdl = x]
  <2>1. t \in Threads /\ t.key \in Clients /\ a \in Places /\ "ended" \in Places
    BY <1>0, <1>3 DEF getDataFromKey, ServerInv, ThreadOK, Places
  <2>2. x \in Connections \cup {Nil}
    BY <2>1 DEF ServerInv, ServerTypeOK
  <2>3. thread' = [thread EXCEPT ![r] = g]
    BY <1>3 DEF getDataFromKey
  <2>4. UNCHANGED connectionVars /\ via' = via /\ received' = received
    BY <1>3 DEF getDataFromKey
  <2> HIDE DEF t, x, a
  <2>5. g \in Threads /\ g.key \in Clients
    <3>1. CASE x = Nil
      BY <2>1, <3>1 DEF Threads
    <3>2. CASE x # Nil
      BY <2>1, <2>2, <3>2 DEF Threads
    <3>3. QED BY <3>1, <3>2
  <2> HIDE DEF g
  <2>6. thread' \in [Requests -> Threads] /\ ThreadOK'
    BY <2>3, <2>5, OneThread
  <2>7. QED BY <2>4, <2>6, RequestStep DEF ServerInv, ServerTypeOK
<1>4. ASSUME NEW r \in Requests, sendThreaded(r) PROVE ServerInv'
  <2> DEFINE t == thread[r]
  <2>1. t \in Threads /\ t.key \in Clients /\ "answer" \in Places /\ "ended" \in Places
    BY <1>0, <1>4 DEF sendThreaded, ServerInv, ThreadOK, Places
  <2>2. \/ thread' = [thread EXCEPT ![r] = [t EXCEPT !.at = "answer"]]
        \/ thread' = [thread EXCEPT ![r] = [t EXCEPT !.at = "ended"]]
    BY <1>4, Zenon DEF sendThreaded
  <2>3. PICK a \in {"answer", "ended"} : thread' = [thread EXCEPT ![r] = [t EXCEPT !.at = a]]
    BY <2>2
  <2>4. UNCHANGED connectionVars /\ via' = via
    BY <1>4 DEF sendThreaded
  <2>5. received' \subseteq received \cup ({r} \X {"ack", "answer"})
    BY <1>4 DEF sendThreaded
  <2> DEFINE g == [t EXCEPT !.at = a]
  <2>6. g \in Threads /\ g.key \in Clients
    BY <2>1, <2>3 DEF Threads
  <2> HIDE DEF g
  <2>7. thread' \in [Requests -> Threads] /\ ThreadOK'
    BY <2>3, <2>6, OneThread DEF g
  <2>8. received' \subseteq Requests \X {"ack", "answer"}
    BY <2>5 DEF ServerInv, ServerTypeOK
  <2>9. QED BY <2>4, <2>7, <2>8, RequestStep DEF ServerInv, ServerTypeOK
<1>5. CASE UNCHANGED serverVars
  BY <1>5 DEF serverVars, ServerInv, ServerTypeOK, OwnedOK, ThreadOK, NoStaleEntry
<1>6. QED BY <1>1, <1>2, <1>3, <1>4, <1>5 DEF ServerNext, Serving

\* At the start no connection is open.
LEMMA ServerInitial == ServerInit => ServerInv
<1>1. QED
  BY DEF ServerInit, ServerInv, ServerTypeOK, OwnedOK, ThreadOK, NoStaleEntry, NoThread

-----------------------------------------------------------------------------
(* Threads that go on.                                                      *)

NotClosed(h) == status[h] \in {"open", "leaving"}

\* A client that never overlapped has one connection at a time.
OneUnclosed ==
  \A g, h \in Connections :
    owner[g] = owner[h] /\ owner[h] \notin overlapped /\ NotClosed(g) /\ NotClosed(h) => g = h

GreetedOK == \A h \in greeted : status[h] # "unused"

\* It is filed under its key from its connectionRequest until it is closed.
FiledOK ==
  \A h \in greeted : NotClosed(h) /\ owner[h] \notin overlapped => m_connections[owner[h]] = h

\* A request was answered, or its thread has the key and the handle it needs.
GoesOn(r) ==
  \/ <<r, "answer">> \in received
  \/ /\ thread[r].at \in {"ack", "sendAck", "answer", "sendAnswer"}
     /\ thread[r].key = owner[via[r]]
     /\ thread[r].at \in {"sendAck", "sendAnswer"} => thread[r].hdl = via[r]

\* So it is for a client that keeps the connection.
AskedOK ==
  \A r \in Requests :
    via[r] # Nil => /\ via[r] \in greeted
                    /\ status[via[r]] = "open" /\ owner[via[r]] \notin overlapped => GoesOn(r)

AnswerInv == ServerInv /\ OneUnclosed /\ GreetedOK /\ FiledOK /\ AskedOK

\* The key of a handle that is filed is that of the client.
LEMMA KeyOfHandle ==
  ASSUME ServerInv, NEW h \in Connections
  PROVE  /\ \A k \in Clients : m_connections[k] = h => getKeyFromHdl(h) = k
         /\ getKeyFromHdl(h) \in Clients => m_connections[getKeyFromHdl(h)] = h
<1>1. \A k \in Clients : m_connections[k] = h => k = owner[h]
  BY ServerAssumption DEF ServerInv, NoStaleEntry
<1>2. CASE \E k \in Clients : m_connections[k] = h
  BY <1>1, <1>2 DEF getKeyFromHdl
<1>3. CASE ~ \E k \in Clients : m_connections[k] = h
  <2>1. getKeyFromHdl(h) = Nil
    BY <1>3 DEF getKeyFromHdl
  <2>2. QED BY <1>3, <2>1, ServerAssumption
<1>4. QED BY <1>2, <1>3

\* Requests stay as they are while the server's thread does something else.
LEMMA AskedStays ==
  ASSUME AnswerInv, UNCHANGED <<thread, via, received>>, greeted \subseteq greeted',
         overlapped \subseteq overlapped',
         \A h \in greeted : owner'[h] = owner[h] /\ (status'[h] = "open" => status[h] = "open")
  PROVE  AskedOK'
<1>1. ASSUME NEW r \in Requests, via'[r] # Nil
      PROVE  /\ via'[r] \in greeted'
             /\ status'[via'[r]] = "open" /\ owner'[via'[r]] \notin overlapped' => GoesOn(r)'
  <2>1. via'[r] = via[r] /\ via[r] \in greeted
    BY <1>1 DEF AnswerInv, AskedOK
  <2>2. owner'[via[r]] = owner[via[r]] /\ (status'[via[r]] = "open" => status[via[r]] = "open")
    BY <2>1
  <2>3. GoesOn(r) => GoesOn(r)'
    BY <2>1, <2>2 DEF GoesOn
  <2>4. status[via[r]] = "open" /\ owner[via[r]] \notin overlapped => GoesOn(r)
    BY <1>1, <2>1 DEF AnswerInv, AskedOK
  <2>5. QED BY <2>1, <2>2, <2>3, <2>4
<1>2. QED BY <1>1 DEF AskedOK

\* The server's thread files a connection as long as it is open.
LEMMA ServingAnswers ==
  ASSUME AnswerInv, Serving PROVE OneUnclosed' /\ GreetedOK' /\ FiledOK' /\ AskedOK'
<1>0. UNCHANGED <<thread, via, received>> /\ greeted \subseteq Connections /\ ServerInv
  BY DEF Serving, onOpen, addConnection, leave, onClose,
         AnswerInv, ServerInv, ServerTypeOK
<1>1. ASSUME NEW h \in Connections, NEW k \in Clients, onOpen(h, k)
      PROVE  OneUnclosed' /\ GreetedOK' /\ FiledOK' /\ AskedOK'
  <2>1. status[h] = "unused" /\ UNCHANGED <<greeted, m_connections>>
    BY <1>1 DEF onOpen
  <2>2. /\ status'[h] = "open" /\ owner'[h] = k
        /\ \A g \in Connections \ {h} : status'[g] = status[g] /\ owner'[g] = owner[g]
    BY <1>0, <1>1 DEF onOpen, ServerInv, ServerTypeOK
  <2>3. overlapped \subseteq overlapped' /\ (k \in overlapped' \/ Unclosed(k) = {})
    BY <1>1 DEF onOpen
  <2>4. k \in overlapped' \/ \A g \in Connections : owner[g] = k => ~NotClosed(g)
    BY <2>3 DEF Unclosed, NotClosed
  <2>5. OneUnclosed'
    BY <2>2, <2>3, <2>4 DEF AnswerInv, OneUnclosed, NotClosed
  <2>6. h \notin greeted
    BY <2>1 DEF AnswerInv, GreetedOK
  <2>7. GreetedOK' /\ FiledOK'
    BY <1>0, <2>1, <2>2, <2>3, <2>6 DEF AnswerInv, GreetedOK, FiledOK, NotClosed
  <2>8. AskedOK'
    BY <1>0, <2>1, <2>2, <2>3, <2>6, AskedStays
  <2>9. QED BY <2>5, <2>7, <2>8
<1>2. ASSUME NEW h \in Connections, addConnection(h)
      PROVE  OneUnclosed' /\ GreetedOK' /\ FiledOK' /\ AskedOK'
  <2>1. /\ status[h] = "open" /\ owner[h] \in Clients /\ UNCHANGED <<status, owner, overlapped>>
        /\ greeted' = greeted \cup {h}
    BY <1>0, <1>2 DEF addConnection, ServerInv, OwnedOK
  <2>2. m_connections' = [m_connections EXCEPT ![owner[h]] = IF @ = Nil THEN h ELSE @]
    BY <1>2 DEF addConnection
  <2>3. /\ m_connections'[owner[h]] = IF m_connections[owner[h]] = Nil THEN h ELSE m_connections[owner[h]]
        /\ \A c \in Clients : m_connections[c] # Nil => m_connections'[c] = m_connections[c]
    BY <1>0, <2>1, <2>2 DEF ServerInv, ServerTypeOK
  <2>4. OneUnclosed' /\ GreetedOK'
    BY <2>1 DEF AnswerInv, OneUnclosed, GreetedOK, NotClosed
  <2>5. ASSUME owner[h] \notin overlapped PROVE m_connections'[owner[h]] = h
    <3>1. CASE m_connections[owner[h]] = Nil
      BY <2>3, <3>1
    <3>2. CASE m_connections[owner[h]] # Nil
      <4> DEFINE g == m_connections[owner[h]]
      <4>1. g \in Connections /\ owner[g] = owner[h] /\ NotClosed(g) /\ NotClosed(h)
        BY <1>0, <2>1, <3>2 DEF ServerInv, ServerTypeOK, NoStaleEntry, NotClosed
      <4>2. g = h
        BY <2>5, <4>1 DEF AnswerInv, OneUnclosed
      <4>3. QED BY <2>3, <3>2, <4>2
    <3>3. QED BY <3>1, <3>2
  <2>6. ASSUME NEW g \in greeted, NotClosed(g), owner[g] \notin overlapped PROVE m_connections'[owner[g]] = g
    <3>1. m_connections[owner[g]] = g /\ g # Nil /\ owner[g] \in Clients
      BY <1>0, <2>6, ServerAssumption DEF AnswerInv, FiledOK, GreetedOK, ServerInv, OwnedOK
    <3>2. QED BY <2>3, <3>1
  <2>7. FiledOK'
    BY <2>1, <2>5, <2>6 DEF FiledOK, NotClosed
  <2>8. AskedOK'
    BY <1>0, <2>1, AskedStays
  <2>9. QED BY <2>4, <2>7, <2>8
<1>3. ASSUME NEW h \in Connections, leave(h)
      PROVE  OneUnclosed' /\ GreetedOK' /\ FiledOK' /\ AskedOK'
  <2>1. /\ UNCHANGED <<owner, greeted, m_connections, overlapped>> /\ status[h] = "open"
        /\ status'[h] = "leaving" /\ \A g \in Connections \ {h} : status'[g] = status[g]
    BY <1>0, <1>3 DEF leave, ServerInv, ServerTypeOK
  <2>2. OneUnclosed' /\ GreetedOK' /\ FiledOK'
    BY <1>0, <2>1 DEF AnswerInv, OneUnclosed, GreetedOK, FiledOK, NotClosed
  <2>3. AskedOK'
    BY <1>0, <2>1, AskedStays
  <2>4. QED BY <2>2, <2>3
<1>4. ASSUME NEW h \in Connections, onClose(h)
      PROVE  OneUnclosed' /\ GreetedOK' /\ FiledOK' /\ AskedOK'
  <2>1. /\ UNCHANGED <<owner, greeted, overlapped>> /\ status[h] = "leaving"
        /\ status'[h] = "closed" /\ \A g \in Connections \ {h} : status'[g] = status[g]
    BY <1>0, <1>4 DEF onClose, ServerInv, ServerTypeOK
  <2>2. \A k \in Clients : m_connections'[k] = IF k = getKeyFromHdl(h) THEN Nil ELSE m_connections[k]
    BY <1>4 DEF onClose
  <2>3. \A k \in Clients : m_connections[k] # h => m_connections'[k] = m_connections[k]
    BY <1>0, <2>2, KeyOfHandle
  <2>4. OneUnclosed' /\ GreetedOK'
    BY <1>0, <2>1 DEF AnswerInv, OneUnclosed, GreetedOK, NotClosed
  <2>5. FiledOK'
    BY <1>0, <2>1, <2>3 DEF AnswerInv, FiledOK, GreetedOK, NotClosed, ServerInv, OwnedOK
  <2>6. AskedOK'
    BY <1>0, <2>1, AskedStays
  <2>7. QED BY <2>4, <2>5, <2>6
<1>5. QED BY <1>1, <1>2, <1>3, <1>4 DEF Serving

\* A step of the thread of request r, or of another.
LEMMA AskedByOne ==
  ASSUME AnswerInv, UNCHANGED connectionVars, received \subseteq received',
         NEW r \in Requests, \A q \in Requests \ {r} : thread'[q] = thread[q] /\ via'[q] = via[q],
         via'[r] # Nil =>
           /\ via'[r] \in greeted
           /\ status[via'[r]] = "open" /\ owner[via'[r]] \notin overlapped => GoesOn(r)'
  PROVE  OneUnclosed' /\ GreetedOK' /\ FiledOK' /\ AskedOK'
<1>1. OneUnclosed' /\ GreetedOK' /\ FiledOK'
  BY DEF AnswerInv, OneUnclosed, GreetedOK, FiledOK, NotClosed, connectionVars
<1>2. UNCHANGED <<status, owner, greeted, overlapped>>
  BY DEF connectionVars
<1>3. ASSUME NEW q \in Requests, via'[q] # Nil
      PROVE  /\ via'[q] \in greeted'
             /\ status'[via'[q]] = "open" /\ owner'[via'[q]] \notin overlapped' => GoesOn(q)'
  <2>1. CASE q = r
    BY <1>2, <1>3, <2>1
  <2>2. CASE q # r
    <3>1. thread'[q] = thread[q] /\ via'[q] = via[q]
      BY <2>2
    <3>2. GoesOn(q) => GoesOn(q)'
      BY <1>2, <3>1 DEF GoesOn
    <3>3. /\ via[q] \in greeted
          /\ status[via[q]] = "open" /\ owner[via[q]] \notin overlapped => GoesOn(q)
      BY <1>3, <3>1 DEF AnswerInv, AskedOK
    <3>4. QED BY <1>2, <3>1, <3>2, <3>3
  <2>3. QED BY <2>1, <2>2
<1>4. QED BY <1>1, <1>3 DEF AskedOK

\* Every step keeps threads going.
LEMMA AnswerStep == AnswerInv /\ [ServerNext]_serverVars => AnswerInv'
<1> SUFFICES ASSUME AnswerInv, [ServerNext]_serverVars
             PROVE  OneUnclosed' /\ GreetedOK' /\ FiledOK' /\ AskedOK'
  BY ServerStep DEF AnswerInv
<1>0. /\ ServerInv /\ thread \in [Requests -> Threads] /\ \A r \in Requests : thread[r] \in Threads
      /\ via \in [Requests -> Connections \cup {Nil}]
  BY DEF AnswerInv, ServerInv, ServerTypeOK, Threads, Places
<1>1. CASE Serving
  BY <1>1, ServingAnswers
<1>2. ASSUME NEW h \in Connections, NEW r \in Requests, onMessage(h, r)
      PROVE  OneUnclosed' /\ GreetedOK' /\ FiledOK' /\ AskedOK'
  <2> DEFINE k == getKeyFromHdl(h)
  <2>1. /\ status[h] = "open" /\ h \in greeted /\ via' = [via EXCEPT ![r] = h]
        /\ UNCHANGED connectionVars /\ received' = received
        /\ k # Nil => thread' = [thread EXCEPT ![r] =
                                    [NoThread EXCEPT !.at = "ack", !.key = k]]
    BY <1>2 DEF onMessage
  <2>2. \A q \in Requests \ {r} : thread'[q] = thread[q] /\ via'[q] = via[q]
    BY <1>0, <1>2 DEF onMessage
  <2>3. via'[r] = h
    BY <1>0, <2>1
  <2>4. ASSUME owner[h] \notin overlapped PROVE GoesOn(r)'
    <3>1. owner[h] \in Clients /\ m_connections[owner[h]] = h
      BY <1>0, <2>1, <2>4 DEF AnswerInv, FiledOK, NotClosed, ServerInv, OwnedOK
    <3>2. k = owner[h] /\ k # Nil
      BY <1>0, <3>1, KeyOfHandle, ServerAssumption
    <3> HIDE DEF k
    <3>3. thread'[r].at = "ack" /\ thread'[r].key = owner[h] /\ owner' = owner
      BY <1>0, <2>1, <3>2 DEF NoThread, connectionVars
    <3>4. QED BY <2>3, <3>3 DEF GoesOn
  <2>5. QED BY <2>1, <2>2, <2>3, <2>4, AskedByOne
<1>3. ASSUME NEW r \in Requests, getDataFromKey(r)
      PROVE  OneUnclosed' /\ GreetedOK' /\ FiledOK' /\ AskedOK'
  <2> DEFINE t == thread[r]
             x == m_connections[t.key]
  <2>1. UNCHANGED connectionVars /\ received' = received /\ via' = via /\ t.at \in {"ack", "answer"}
    BY <1>3 DEF getDataFromKey
  <2>2. \A q \in Requests \ {r} : thread'[q] = thread[q]
    BY <1>0, <1>3 DEF getDataFromKey
  <2>3. ASSUME via[r] # Nil, status[via[r]] = "open", owner[via[r]] \notin overlapped,
               <<r, "answer">> \notin received
        PROVE  GoesOn(r)'
    <3>1. t.key = owner[via[r]] /\ via[r] \in greeted
      BY <2>3 DEF AnswerInv, AskedOK, GoesOn
    <3>2. x = via[r] /\ x # Nil
      BY <2>3, <3>1 DEF AnswerInv, FiledOK, NotClosed
    <3>3. PICK a \in {"sendAck", "sendAnswer"} : thread' = [thread EXCEPT ![r] = [t EXCEPT !.at = a, !.hdl = x]]
      BY <1>3, <3>2 DEF getDataFromKey
    <3> HIDE DEF x
    <3>4. [t EXCEPT !.at = a, !.hdl = x].at = a /\ [t EXCEPT !.at = a, !.hdl = x].hdl = x
          /\ [t EXCEPT !.at = a, !.hdl = x].key = t.key
      BY <1>0 DEF Threads
    <3>5. thread'[r].at = a /\ thread'[r].hdl = x /\ thread'[r].key = t.key
      BY <1>0, <3>3, <3>4
    <3>6. QED BY <2>1, <3>1, <3>2, <3>3, <3>5 DEF GoesOn, connectionVars
  <2>4. <<r, "answer">> \in received => GoesOn(r)'
    BY <2>1 DEF GoesOn
  <2>5. via[r] # Nil => via[r] \in greeted
    BY DEF AnswerInv, AskedOK
  <2>6. QED BY <2>1, <2>2, <2>3, <2>4, <2>5, AskedByOne
<1>4. ASSUME NEW r \in Requests, sendThreaded(r)
      PROVE  OneUnclosed' /\ GreetedOK' /\ FiledOK' /\ AskedOK'
  <2> DEFINE t == thread[r]
  <2>1. UNCHANGED connectionVars /\ via' = via /\ t.at \in {"sendAck", "sendAnswer"}
    BY <1>4 DEF sendThreaded
  <2>2. received \subseteq received'
    BY <1>4 DEF sendThreaded
  <2>3. \A q \in Requests \ {r} : thread'[q] = thread[q]
    BY <1>0, <1>4 DEF sendThreaded
  <2>4. ASSUME via[r] # Nil, status[via[r]] = "open", owner[via[r]] \notin overlapped,
               <<r, "answer">> \notin received
        PROVE  GoesOn(r)'
    <3>1. t.key = owner[via[r]] /\ t.hdl = via[r] /\ status[t.hdl] = "open"
      BY <2>1, <2>4 DEF AnswerInv, AskedOK, GoesOn
    <3>2. CASE t.at = "sendAck"
      <4>1. thread' = [thread EXCEPT ![r] = [t EXCEPT !.at = "answer"]]
        BY <1>4, <3>1, <3>2 DEF sendThreaded
      <4>2. [t EXCEPT !.at = "answer"].at = "answer" /\ [t EXCEPT !.at = "answer"].key = t.key
        BY <1>0 DEF Threads
      <4>3. thread'[r].at = "answer" /\ thread'[r].key = t.key
        BY <1>0, <4>1, <4>2
      <4>4. QED BY <2>1, <3>1, <4>3 DEF GoesOn, connectionVars
    <3>3. CASE t.at # "sendAck"
      <4>1. <<r, "answer">> \in received'
        BY <1>4, <3>1, <3>3 DEF sendThreaded
      <4>2. QED BY <4>1 DEF GoesOn
    <3>4. QED BY <3>2, <3>3
  <2>5. <<r, "answer">> \in received => GoesOn(r)'
    BY <2>2 DEF GoesOn
  <2>6. via[r] # Nil => via[r] \in greeted
    BY DEF AnswerInv, AskedOK
  <2>7. QED BY <2>1, <2>2, <2>3, <2>4, <2>5, <2>6, AskedByOne
<1>5. CASE UNCHANGED serverVars
  <2>1. UNCHANGED <<thread, via, received, status, owner, greeted, m_connections, overlapped>>
    BY <1>5 DEF serverVars
  <2>2. AskedOK'
    BY <2>1, AskedStays
  <2>3. QED BY <2>1, <2>2 DEF AnswerInv, OneUnclosed, GreetedOK, FiledOK, NotClosed
<1>6. QED BY <1>1, <1>2, <1>3, <1>4, <1>5 DEF ServerNext, Serving

-----------------------------------------------------------------------------
\* However clients open, leave and open again, and whenever the server notices, an
\* entry of m_connections is the handle of a connection of that client that the
\* server has not closed.
THEOREM NoStaleEntryCorrect == ServerSpec => []NoStaleEntry
<1>1. ServerInv => NoStaleEntry
  BY DEF ServerInv
<1>2. QED BY <1>1, ServerInitial, ServerStep, PTL DEF ServerSpec

\* No thread gives up on a client that keeps its connection: the request was
\* answered, or its thread goes on.
AnswerIsOnItsWay ==
  \A r \in Requests, h \in Connections :
    via[r] = h /\ status[h] = "open" /\ owner[h] \notin overlapped =>
      <<r, "answer">> \in received \/ thread[r].at # "ended"

\* Whatever other clients do, and whatever the client did with earlier connections,
\* the thread of a request finds the handle it needs as long as the client keeps
\* the connection, unless the client once overlapped.
THEOREM AnswerIsOnItsWayCorrect == ServerSpec => []AnswerIsOnItsWay
<1>1. ServerInit => AnswerInv
  <2> SUFFICES ASSUME ServerInit PROVE AnswerInv
    OBVIOUS
  <2>1. ServerInv
    BY ServerInitial
  <2>2. OneUnclosed /\ GreetedOK /\ FiledOK /\ AskedOK
    BY DEF ServerInit, OneUnclosed, GreetedOK, FiledOK, AskedOK, NotClosed
  <2>3. QED BY <2>1, <2>2 DEF AnswerInv
<1>2. AnswerInv => AnswerIsOnItsWay
  BY ServerAssumption DEF AnswerInv, AskedOK, GoesOn, AnswerIsOnItsWay
<1>3. QED BY <1>1, <1>2, AnswerStep, PTL DEF ServerSpec
=============================================================================
