---------------------------- MODULE NodeRegistry ----------------------------
(***************************************************************************)
(* What masters know about other nodes.  A node that starts gossips a      *)
(* connectionRequest to all masters; a master that gets one from another   *)
(* master sends it the nodes it knows.  Nodes are kept in maps, and the    *)
(* keys of verifiers and storage nodes also in vectors, from which one is  *)
(* picked by an index below the size of the map.  The storage node for     *)
(* blocks and the one for state changes are agreed on through a DHT key    *)
(* that the first master to need it puts.                                  *)
(*                                                                         *)
(* Sources: BlockChainCommon/functions.cpp, MasterNodeLib.cpp,             *)
(* MasterNode/main.cpp (storageurl, syncNodes).                            *)
(***************************************************************************)
EXTENDS Integers, Sequences, FiniteSets, SequencesExt

CONSTANTS
  Masters, Verifiers, StorageNodes,
  Roles,       \* what a storage node is chosen for: "block" and "state" (changes)
  FirstUp,     \* the masters that are up from the start
  MaxUrls,     \* bound on the storageurl requests to a master with one storage node
  EmptyKey,    \* the key "": a node no one has
  None,        \* a storage node that is not chosen yet
  MaxConnects, \* bound on the connection requests of verifiers and storage nodes
  MaxStops     \* bound on the masters that stop

ASSUME RegistryAssumption ==
  /\ MaxConnects \in Nat /\ MaxStops \in Nat /\ MaxUrls \in Nat /\ FirstUp \subseteq Masters
  /\ {EmptyKey, None} \cap (Masters \cup Verifiers \cup StorageNodes) = {}
  /\ EmptyKey # None /\ Roles \subseteq {"block", "state"}

Workers == Verifiers \cup StorageNodes

VARIABLES
  up,            \* the masters that are up
  masterNodes, verifierNodes, storageNodes,  \* per master, the keys in its maps
  verifierKeys, storageKeys,                 \* per master, its vectors
  messages,      \* connectionRequests and syncNodes in flight
  syncing,       \* per master, the masters its addNode threads have to send nodes to
  connects,      \* connection requests of verifiers and storage nodes so far
  at,            \* per master and role, where its search for a storage node is
  chosen,        \* per master and role, the storage node it uses
  dhtValues,     \* per role, the values under sn_block_close_key (sn_state_change_key)
  raced,         \* the roles for which two masters found the DHT key empty at once
  owed,          \* <<m, x, o>>: master o was up and knew node x when m booted
  stops,         \* masters that stopped so far
  urls           \* storageurl requests so far

mapVars == <<masterNodes, verifierNodes, storageNodes, verifierKeys, storageKeys>>
roleVars == <<at, chosen, dhtValues, raced>>
vars == <<up, mapVars, messages, syncing, connects, roleVars, owed, stops, urls>>

-----------------------------------------------------------------------------
Keys == StorageNodes \cup {EmptyKey}

connectionRequest(m, n, nr) == [to |-> m, type |-> "connectionRequest", node |-> n, nr |-> nr]
syncMessage(m, o, nr) ==
  [to |-> m, type |-> "syncNodes", from |-> o, nr |-> nr, m |-> masterNodes[o],
   v |-> verifierNodes[o], s |-> storageNodes[o]]

Knows(m) == verifierNodes[m] \cup storageNodes[m]

\* Types of the registry.
TypeOK ==
  /\ up \subseteq Masters
  /\ masterNodes \in [Masters -> SUBSET Masters]
  /\ verifierNodes \in [Masters -> SUBSET Verifiers]
  /\ storageNodes \in [Masters -> SUBSET Keys]
  /\ verifierKeys \in [Masters -> Seq(Verifiers)] /\ storageKeys \in [Masters -> Seq(Keys)]
  /\ syncing \in [Masters -> SUBSET Masters] /\ connects \in 0..MaxConnects
  /\ at \in [Masters -> [Roles -> {"idle", "put"}]]
  /\ chosen \in [Masters -> [Roles -> Keys \cup {None}]]
  /\ dhtValues \in [Roles -> SUBSET Keys] /\ raced \subseteq Roles
  /\ owed \subseteq Masters \X (Verifiers \cup Keys) \X Masters /\ stops \in 0..MaxStops /\ urls \in 0..MaxUrls

Nothing == [m \in Masters |-> {}]

Init ==
  /\ up = FirstUp /\ masterNodes = Nothing /\ verifierNodes = Nothing /\ storageNodes = Nothing
  /\ verifierKeys = [m \in Masters |-> <<>>] /\ storageKeys = [m \in Masters |-> <<>>]
  /\ messages = {} /\ syncing = Nothing /\ connects = 0
  /\ at = [m \in Masters |-> [r \in Roles |-> "idle"]]
  /\ chosen = [m \in Masters |-> [r \in Roles |-> None]]
  /\ dhtValues = [r \in Roles |-> {}] /\ raced = {} /\ owed = {} /\ stops = 0 /\ urls = 0

-----------------------------------------------------------------------------
(* Nodes come and go.                                                       *)

\* A verifier or a storage node starts, for the first time or again.
connect(n) ==
  /\ connects < MaxConnects
  /\ connects' = connects + 1
  /\ messages' = messages \cup {connectionRequest(m, n, connects) : m \in up}
  /\ UNCHANGED <<up, mapVars, syncing, roleVars, owed, stops, urls>>

boot(m) ==
  /\ m \notin up
  /\ up' = up \cup {m}
  /\ messages' = messages \cup {connectionRequest(o, m, stops) : o \in up}
  /\ owed' = owed \cup UNION {{<<m, x, o>> : x \in Knows(o)} : o \in up}
  /\ UNCHANGED <<mapVars, syncing, connects, roleVars, stops, urls>>

\* Its memory is lost, and messages that were sent to it are too old for its
\* next life.
stop(m) ==
  /\ m \in up /\ stops < MaxStops
  /\ stops' = stops + 1
  /\ up' = up \ {m}
  /\ masterNodes' = [masterNodes EXCEPT ![m] = {}]
  /\ verifierNodes' = [verifierNodes EXCEPT ![m] = {}]
  /\ storageNodes' = [storageNodes EXCEPT ![m] = {}]
  /\ verifierKeys' = [verifierKeys EXCEPT ![m] = <<>>]
  /\ storageKeys' = [storageKeys EXCEPT ![m] = <<>>]
  /\ messages' = {msg \in messages : msg.to # m}
  /\ syncing' = [syncing EXCEPT ![m] = {}]
  /\ at' = [at EXCEPT ![m] = [r \in Roles |-> "idle"]]
  /\ chosen' = [chosen EXCEPT ![m] = [r \in Roles |-> None]]
  /\ owed' = {p \in owed : m \notin {p[1], p[3]}}
  /\ UNCHANGED <<connects, dhtValues, raced, urls>>

-----------------------------------------------------------------------------
(* addNode and syncNodes.                                                   *)

\* Mutant: only a master that was not known is sent the nodes.
addNode_OnlyNew(m, n) ==
  /\ masterNodes' = IF n \in Masters THEN [masterNodes EXCEPT ![m] = @ \cup {n}] ELSE masterNodes
  /\ syncing' = IF n \in Masters \ masterNodes[m] THEN [syncing EXCEPT ![m] = @ \cup {n}]
                ELSE syncing
  /\ verifierNodes' = IF n \in Verifiers THEN [verifierNodes EXCEPT ![m] = @ \cup {n}]
                      ELSE verifierNodes
  /\ verifierKeys' = IF n \in Verifiers THEN [verifierKeys EXCEPT ![m] = Append(@, n)]
                     ELSE verifierKeys
  /\ storageNodes' = IF n \in StorageNodes THEN [storageNodes EXCEPT ![m] = @ \cup {n}]
                     ELSE storageNodes
  /\ storageKeys' = IF n \in StorageNodes THEN [storageKeys EXCEPT ![m] = Append(@, n)]
                    ELSE storageKeys

\* addNode under nodesSyncMutex: the map keeps one entry per node, the vector
\* gets one more each time.
addNode(m, n) ==
  /\ masterNodes' = IF n \in Masters THEN [masterNodes EXCEPT ![m] = @ \cup {n}] ELSE masterNodes
  /\ syncing' = IF n \in Masters THEN [syncing EXCEPT ![m] = @ \cup {n}] ELSE syncing
  /\ verifierNodes' = IF n \in Verifiers THEN [verifierNodes EXCEPT ![m] = @ \cup {n}]
                      ELSE verifierNodes
  /\ verifierKeys' = IF n \in Verifiers THEN [verifierKeys EXCEPT ![m] = Append(@, n)]
                     ELSE verifierKeys
  /\ storageNodes' = IF n \in StorageNodes THEN [storageNodes EXCEPT ![m] = @ \cup {n}]
                     ELSE storageNodes
  /\ storageKeys' = IF n \in StorageNodes THEN [storageKeys EXCEPT ![m] = Append(@, n)]
                    ELSE storageKeys

onConnectionRequest(msg) ==
  /\ msg.type = "connectionRequest"
  /\ addNode(msg.to, msg.node)
  /\ messages' = messages \ {msg}
  /\ UNCHANGED <<up, connects, roleVars, owed, stops, urls>>

\* addNode after the lock: buildSyncNodesInput as the maps are by then.
sendNodes(o, m) ==
  /\ m \in syncing[o]
  /\ syncing' = [syncing EXCEPT ![o] = @ \ {m}]
  /\ messages' = IF m \in up THEN messages \cup {syncMessage(m, o, stops)} ELSE messages
  /\ UNCHANGED <<up, mapVars, connects, roleVars, owed, stops, urls>>

\* The keys of a map in the order of its JSON object: the empty key is first.
Sorted(S) ==
  (IF EmptyKey \in S THEN <<EmptyKey>> ELSE <<>>) \o SetToSeq(S \ {EmptyKey})

\* Mutant: the vector gets only the keys that are new to the map.
syncNodes_MapOnly(msg) ==
  LET m == msg.to
  IN /\ msg.type = "syncNodes"
     /\ masterNodes' = [masterNodes EXCEPT ![m] = @ \cup msg.m]
     /\ verifierNodes' = [verifierNodes EXCEPT ![m] = @ \cup msg.v]
     /\ storageNodes' = [storageNodes EXCEPT ![m] = @ \cup msg.s]
     /\ messages' = messages \ {msg}
     /\ UNCHANGED <<up, verifierKeys, storageKeys, syncing, connects, roleVars, owed, stops, urls>>

\* All keys are pushed, also those the vector already has.
syncNodes(msg) ==
  LET m == msg.to
  IN /\ msg.type = "syncNodes"
     /\ masterNodes' = [masterNodes EXCEPT ![m] = @ \cup msg.m]
     /\ verifierNodes' = [verifierNodes EXCEPT ![m] = @ \cup msg.v]
     /\ verifierKeys' = [verifierKeys EXCEPT ![m] = @ \o Sorted(msg.v)]
     /\ storageNodes' = [storageNodes EXCEPT ![m] = @ \cup msg.s]
     /\ storageKeys' = [storageKeys EXCEPT ![m] = @ \o Sorted(msg.s)]
     /\ messages' = messages \ {msg}
     /\ UNCHANGED <<up, syncing, connects, roleVars, owed, stops, urls>>

-----------------------------------------------------------------------------
(* Picking nodes.                                                           *)

\* Unchecked: the callers give an index below the size of the map.
getVerifierNodeKey(m, n) == verifierKeys[m][n + 1]

\* Mutant: the length is compared without the equality.
getStorageNodeKey_Longer(m, n) ==
  IF Len(storageKeys[m]) > n + 1 THEN storageKeys[m][n + 1] ELSE EmptyKey

getStorageNodeKey(m, n) ==
  IF Len(storageKeys[m]) >= n + 1 THEN storageKeys[m][n + 1] ELSE EmptyKey

\* What an index below the size of the map may give: a random one, or that of a
\* role.
VerifierPicks(m) == {getVerifierNodeKey(m, n) : n \in 0..Cardinality(verifierNodes[m]) - 1}
StoragePicks(m) == {getStorageNodeKey(m, n) : n \in 0..Cardinality(storageNodes[m]) - 1}

\* The storageurl handler, asked of a master that knows one storage node: the
\* random index is drawn from the empty range 1..0, is not below the length of
\* the vector, and looking up the empty key adds it to the map.  With more
\* nodes the handler changes nothing.
storageurl(m) ==
  /\ m \in up /\ Cardinality(storageNodes[m]) = 1 /\ urls < MaxUrls
  /\ urls' = urls + 1
  /\ storageNodes' = [storageNodes EXCEPT ![m] = @ \cup {EmptyKey}]
  /\ UNCHANGED <<up, masterNodes, verifierNodes, verifierKeys, storageKeys, messages,
                 syncing, connects, roleVars, owed, stops>>

Index(role) == IF role = "block" THEN 0 ELSE 1

\* getBlockStorageNode and getStateChangeStorageNode: when there are enough
\* storage nodes, what others have put, or the own choice ...
getStorageNode(m, role) ==
  /\ m \in up /\ at[m][role] = "idle" /\ chosen[m][role] \in {None, EmptyKey}
  /\ Cardinality(storageNodes[m]) >= Index(role) + 1
  /\ \E v \in IF dhtValues[role] = {} THEN {EmptyKey} ELSE dhtValues[role] :
       IF v # EmptyKey
       THEN /\ chosen' = [chosen EXCEPT ![m][role] = v]
            /\ UNCHANGED <<at, raced>>
       ELSE /\ chosen' = [chosen EXCEPT ![m][role] = getStorageNodeKey(m, Index(role))]
            /\ at' = [at EXCEPT ![m][role] = "put"]
            /\ raced' = IF \E o \in Masters : at[o][role] = "put"
                        THEN raced \cup {role} ELSE raced
  /\ UNCHANGED <<up, mapVars, messages, syncing, connects, dhtValues, owed, stops, urls>>

\* Mutant: the choice is kept and not put.
putStorageNode_NoPut(m, role) ==
  /\ at[m][role] = "put"
  /\ at' = [at EXCEPT ![m][role] = "idle"]
  /\ UNCHANGED <<up, mapVars, messages, syncing, connects, chosen, dhtValues, raced,
                 owed, stops, urls>>

\* ... which is put for others.
putStorageNode(m, role) ==
  /\ at[m][role] = "put"
  /\ dhtValues' = [dhtValues EXCEPT ![role] = @ \cup {chosen[m][role]}]
  /\ at' = [at EXCEPT ![m][role] = "idle"]
  /\ UNCHANGED <<up, mapVars, messages, syncing, connects, chosen, raced, owed, stops, urls>>

-----------------------------------------------------------------------------
Handle == \E msg \in messages : onConnectionRequest(msg) \/ syncNodes(msg)

Next ==
  \/ \E n \in Workers : connect(n)
  \/ \E m \in Masters : boot(m) \/ stop(m) \/ storageurl(m)
  \/ \E o, m \in Masters : sendNodes(o, m)
  \/ Handle
  \/ \E m \in Masters, r \in Roles :
       getStorageNode(m, r) \/ putStorageNode(m, r)

\* Messages are handled and threads run.
Spec ==
  /\ Init /\ [][Next]_vars
  /\ WF_vars(Handle)
  /\ \A o, m \in Masters : WF_vars(sendNodes(o, m))

-----------------------------------------------------------------------------
(* Properties.                                                              *)

\* A key that is picked by an index below the size of the map is one of the map:
\* sendToVerifier never reads past the vector, and asking the map for the node
\* of a storage key adds nothing to it, also when the empty key is in it.  As long
\* as no key is in the vector twice, every node of the map can be picked.
PickIsKnown ==
  \A m \in Masters :
    /\ Cardinality(verifierNodes[m]) <= Len(verifierKeys[m])
    /\ VerifierPicks(m) \subseteq verifierNodes[m] /\ StoragePicks(m) \subseteq storageNodes[m]
    /\ IsInjective(verifierKeys[m]) => VerifierPicks(m) = verifierNodes[m]
    /\ IsInjective(storageKeys[m]) => StoragePicks(m) = storageNodes[m]

\* The verifier a transaction goes to is a random one: each that is known can be
\* picked, also after one of them connected twice.
AnyVerifierIsPicked == \A m \in Masters : VerifierPicks(m) = verifierNodes[m]

\* All masters use the same storage node for blocks, and the same for state
\* changes, whatever the order in which they came to know them and whoever
\* restarted; unless two of them found the DHT key empty at the same time, or one
\* put the empty key there.
StorageNodeAgreed ==
  \A r \in Roles \ raced :
    EmptyKey \notin dhtValues[r] => Cardinality({chosen[m][r] : m \in Masters} \ {None}) <= 1

\* A master that has counted enough storage nodes finds a key at its index of the
\* vector, whatever it was told twice: it uses the empty key, and puts it for the
\* others, only when a storageurl that came too early left it in its own map.
ChosenIsFound ==
  \A m \in Masters, r \in Roles : chosen[m][r] = EmptyKey => EmptyKey \in storageNodes[m]

\* Nothing a master has to learn is lost: it knows the node, or its request to the
\* master that knew it is on its way, or that master's thread is about to send
\* the nodes, or has sent them with this one.
OwedIsOnItsWay ==
  \A p \in owed :
    LET m == p[1]  x == p[2]  o == p[3]
    IN \/ x \in Knows(m) \/ m \in syncing[o]
       \/ \E msg \in messages : \/ msg.type = "connectionRequest" /\ msg.to = o /\ msg.node = m
                                \/ msg.type = "syncNodes" /\ msg.to = m /\ x \in msg.v \cup msg.s

\* A master that boots learns every verifier and storage node that a master
\* knew which was up then and stays up, also when it boots again and the
\* others know it from before.
BootedMasterLearns ==
  \A x \in Workers :
    (\E m, o \in Masters : <<m, x, o>> \in owed /\ x \notin Knows(m)) ~>
      \A m, o \in Masters : <<m, x, o>> \in owed => x \in Knows(m)
=============================================================================
