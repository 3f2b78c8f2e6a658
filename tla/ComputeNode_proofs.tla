------------------------- MODULE ComputeNode_proofs -------------------------
(***************************************************************************)
(* Proofs about the Compute & Verifier Node, for any requests,             *)
(* transactions and scripts.                                               *)
(***************************************************************************)
EXTENDS ComputeNode, TLAPS

\* A request that has a result or an exception has ended, whoever was woken by a
\* notification that was meant for another.
EndedOK == \A r \in results \cup exceptions : pc[r] = "ended"

\* State changes are held for what was computed here.
HeldOK == \A t \in trs : \E r \in ComputeRequests \cap results : TxOf[r] = t

ComputeInv == TypeOK /\ OneOutcome /\ EndedOK /\ HeldOK /\ OnlyComputedIsApplied

\* The node starts with the invariant.
LEMMA ComputeInit == Init => ComputeInv
<1> SUFFICES ASSUME Init PROVE ComputeInv
  OBVIOUS
<1>1. TypeOK
  BY DEF Init, TypeOK, Places
<1>2. QED
  BY <1>1 DEF Init, ComputeInv, OneOutcome, EndedOK, HeldOK, OnlyComputedIsApplied

\* A step that moves one request to another place and sends nothing.
LEMMA Goes ==
  ASSUME ComputeInv, NEW r \in Requests, NEW place \in Places, goes(r, place),
         pc[r] \notin {"new", "ended"}, place # "new",
         rds' = rds, results' = results, exceptions' = exceptions,
         UNCHANGED <<trs, committed, stateChanges>>,
         fetched' \subseteq Requests, documents' \subseteq Requests,
         dds' \subseteq Requests, notifying' \subseteq Requests
  PROVE  ComputeInv'
<1>1. /\ pc' \in [Requests -> Places]
      /\ \A s \in Requests : pc'[s] = IF s = r THEN place ELSE pc[s]
  BY DEF goes, ComputeInv, TypeOK
<1>2. TypeOK'
  BY <1>1 DEF ComputeInv, TypeOK
<1>3. OneOutcome' /\ EndedOK'
  BY <1>1 DEF ComputeInv, TypeOK, OneOutcome, EndedOK
<1>4. HeldOK' /\ OnlyComputedIsApplied'
  BY DEF ComputeInv, HeldOK, OnlyComputedIsApplied
<1>5. QED BY <1>2, <1>3, <1>4 DEF ComputeInv

\* Every step keeps it.
LEMMA ComputeStep == ComputeInv /\ [Next]_vars => ComputeInv'
<1> SUFFICES ASSUME ComputeInv, [Next]_vars PROVE ComputeInv'
  OBVIOUS
<1>1. ASSUME NEW r \in Requests, processRequest(r) PROVE ComputeInv'
  <2>1. /\ pc[r] = "new" /\ rds' = rds \cup {r} /\ goes(r, "asked")
        /\ UNCHANGED <<documentVars, outcomeVars>>
    BY <1>1 DEF processRequest
  <2>2. /\ pc' \in [Requests -> Places]
        /\ \A s \in Requests : pc'[s] = IF s = r THEN "asked" ELSE pc[s]
    BY <2>1 DEF goes, ComputeInv, TypeOK, Places
  <2>3. TypeOK'
    BY <2>1, <2>2 DEF ComputeInv, TypeOK, documentVars, outcomeVars
  <2>4. OneOutcome' /\ EndedOK'
    BY <2>1, <2>2 DEF ComputeInv, TypeOK, OneOutcome, EndedOK, outcomeVars
  <2>5. HeldOK' /\ OnlyComputedIsApplied'
    BY <2>1 DEF ComputeInv, HeldOK, OnlyComputedIsApplied, outcomeVars
  <2>6. QED BY <2>3, <2>4, <2>5 DEF ComputeInv
<1>2. ASSUME NEW r \in Requests, executeJsCode(r) \/ functionNotFound(r) \/ sleep(r)
      PROVE  ComputeInv'
  <2>1. PICK place \in {"running", "died", "asleep"} :
          /\ goes(r, place) /\ pc[r] \in {"asked", "tested"}
          /\ UNCHANGED <<rds, documentVars, outcomeVars>>
    BY <1>2 DEF executeJsCode, functionNotFound, sleep
  <2>2. QED BY <2>1, Goes DEF ComputeInv, TypeOK, documentVars, outcomeVars, Places
<1>3. ASSUME NEW r \in Requests, fetchDocument(r) PROVE ComputeInv'
  BY <1>3, Goes DEF fetchDocument, ComputeInv, TypeOK, outcomeVars, Places
<1>4. ASSUME NEW r \in Requests, testDocument(r) PROVE ComputeInv'
  <2>1. PICK place \in {"running", "tested"} : goes(r, place)
    BY <1>4 DEF testDocument
  <2>2. /\ pc[r] = "waiting" /\ UNCHANGED <<rds, documents, notifying, outcomeVars>>
        /\ dds' \subseteq Requests /\ fetched' \subseteq Requests
    BY <1>4 DEF testDocument, ComputeInv, TypeOK
  <2>3. QED BY <2>1, <2>2, Goes DEF ComputeInv, TypeOK, outcomeVars, Places
<1>5. ASSUME NEW r \in Requests, updateDocumentMap(r) PROVE ComputeInv'
  BY <1>5
  DEF updateDocumentMap, ComputeInv, TypeOK, OneOutcome, EndedOK, HeldOK,
      OnlyComputedIsApplied, outcomeVars
<1>6. ASSUME NEW r \in Requests, notifyOne(r) PROVE ComputeInv'
  <2>1. /\ notifying' \subseteq Requests /\ UNCHANGED <<rds, fetched, documents, dds, outcomeVars>>
        /\ pc' = pc \/ \E s \in Asleep : goes(s, "waiting")
    BY <1>6 DEF notifyOne, ComputeInv, TypeOK
  <2>2. CASE pc' = pc
    BY <2>1, <2>2
    DEF ComputeInv, TypeOK, OneOutcome, EndedOK, HeldOK, OnlyComputedIsApplied, outcomeVars
  <2>3. CASE \E s \in Asleep : goes(s, "waiting")
    BY <2>1, <2>3, Goes DEF Asleep, ComputeInv, TypeOK, outcomeVars, Places
  <2>4. QED BY <2>1, <2>2, <2>3
<1>7. ASSUME NEW r \in Requests, sendResult(r) PROVE ComputeInv'
  <2>1. /\ pc[r] = "running" /\ goes(r, "ended") /\ results' = results \cup {r}
        /\ rds' = rds \ {r} /\ trs' = IF r \in ComputeRequests THEN trs \cup {TxOf[r]} ELSE trs
        /\ UNCHANGED <<documentVars, exceptions, committed, stateChanges>>
    BY <1>7 DEF sendResult, keepsCommands
  <2>2. /\ pc' \in [Requests -> Places]
        /\ \A s \in Requests : pc'[s] = IF s = r THEN "ended" ELSE pc[s]
    BY <2>1 DEF goes, ComputeInv, TypeOK, Places
  <2>3. TxOf[r] \in Txs /\ r \notin exceptions
    BY <2>1 DEF Txs, ComputeInv, EndedOK
  <2>4. TypeOK'
    BY <2>1, <2>2, <2>3 DEF ComputeInv, TypeOK, documentVars
  <2>5. OneOutcome' /\ EndedOK'
    BY <2>1, <2>2, <2>3 DEF ComputeInv, TypeOK, OneOutcome, EndedOK
  <2>6. HeldOK' /\ OnlyComputedIsApplied'
    BY <2>1 DEF ComputeInv, HeldOK, OnlyComputedIsApplied
  <2>7. QED BY <2>4, <2>5, <2>6 DEF ComputeInv
<1>8. ASSUME NEW r \in Requests, sendException(r) PROVE ComputeInv'
  <2>1. /\ pc[r] = "running" /\ goes(r, "ended") /\ exceptions' = exceptions \cup {r}
        /\ UNCHANGED <<rds, documentVars, trs, results, committed, stateChanges>>
    BY <1>8 DEF sendException
  <2>2. /\ pc' \in [Requests -> Places]
        /\ \A s \in Requests : pc'[s] = IF s = r THEN "ended" ELSE pc[s]
    BY <2>1 DEF goes, ComputeInv, TypeOK, Places
  <2>3. r \notin results
    BY <2>1 DEF ComputeInv, EndedOK
  <2>4. TypeOK'
    BY <2>1, <2>2 DEF ComputeInv, TypeOK, documentVars
  <2>5. OneOutcome' /\ EndedOK'
    BY <2>1, <2>2, <2>3 DEF ComputeInv, TypeOK, OneOutcome, EndedOK
  <2>6. HeldOK' /\ OnlyComputedIsApplied'
    BY <2>1 DEF ComputeInv, HeldOK, OnlyComputedIsApplied
  <2>7. QED BY <2>4, <2>5, <2>6 DEF ComputeInv
<1>9. ASSUME NEW t \in Txs, processStateChangeCmds(t) PROVE ComputeInv'
  BY <1>9
  DEF processStateChangeCmds, ComputeInv, TypeOK, OneOutcome, EndedOK, HeldOK,
      OnlyComputedIsApplied, documentVars
<1>10. CASE UNCHANGED vars
  BY <1>10
  DEF vars, ComputeInv, TypeOK, OneOutcome, EndedOK, HeldOK, OnlyComputedIsApplied
<1>11. QED
  BY <1>1, <1>2, <1>3, <1>4, <1>5, <1>6, <1>7, <1>8, <1>9, <1>10 DEF Next, Thread

\* The invariant of the node.
LEMMA ComputeInvariant == Spec => []ComputeInv
  BY ComputeInit, ComputeStep, PTL DEF Spec

\* However threads wake each other on the condition variable they share, no request
\* ends both with a result to master21 and with an exception to its master, and its
\* data stays in memory from processRequest until its result is sent.
THEOREM OneOutcomeCorrect == Spec => []OneOutcome
<1>1. ComputeInv => OneOutcome
  BY DEF ComputeInv
<1>2. QED BY <1>1, ComputeInvariant, PTL

\* canCommit makes the node send only state changes of a transaction whose output
\* this node computed and sent: what it collected as a verifier is never applied,
\* also when it has both parts in one transaction.
THEOREM OnlyComputedIsAppliedCorrect == Spec => []OnlyComputedIsApplied
<1>1. ComputeInv => OnlyComputedIsApplied
  BY DEF ComputeInv
<1>2. QED BY <1>1, ComputeInvariant, PTL
=============================================================================
