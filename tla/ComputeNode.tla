---------------------------- MODULE ComputeNode ----------------------------
(***************************************************************************)
(* A Compute & Verifier Node.  A codeDelivery is remembered in rds and the *)
(* function is fetched from the Storage Node; its answer is executed in a  *)
(* thread of its own.  A script may fetch a document: the thread asks the  *)
(* Storage Node and waits on a condition variable that all threads share,  *)
(* while the handler of the answer fills the document map and notifies     *)
(* without the mutex.  The Compute Node of a transaction keeps the state   *)
(* changes until the master's canCommit.                                   *)
(*                                                                         *)
(* Sources: ComputeNode/main.cpp, ComputeNodeLib/JsProcessor.cpp,          *)
(* StorageNode/StorageNode.cpp (fetchFunction, findDocument).              *)
(***************************************************************************)
EXTENDS Naturals, FiniteSets

CONSTANTS
  Requests,         \* codeDelivery messages, each with its own reqId
  TxOf,             \* TxOf[r]: the transaction
  ComputeRequests,  \* the ones with NodeType::Compute, the others verify
  Fetchers          \* the ones whose script fetches a document

Txs == {TxOf[r] : r \in Requests}

ASSUME RequestsAssumption ==
  /\ DOMAIN TxOf = Requests
  /\ ComputeRequests \subseteq Requests /\ Fetchers \subseteq Requests

VARIABLES
  pc,            \* per request, where its processing is
  rds,           \* the requests in memory
  fetched,       \* the requests whose script has its document
  documents,     \* document requests the Storage Node has not answered
  dds,           \* the documents that have arrived and were not taken
  notifying,     \* updateDocumentMap threads between the map and notify_one
  trs,           \* the transactions whose state changes are held
  results,       \* the requests whose result was sent to master21
  exceptions,    \* the requests whose exception was sent to the master
  committed,     \* the transactions canCommit came for
  stateChanges   \* the transactions whose commands were sent to the Storage Node

vars == <<pc, rds, fetched, documents, dds, notifying, trs, results, exceptions,
          committed, stateChanges>>

documentVars == <<fetched, documents, dds, notifying>>
outcomeVars == <<trs, results, exceptions, committed, stateChanges>>

\* "new", "asked" (for the function), "running", "waiting" (in cv.wait, about
\* to test with the mutex), "tested" (and found nothing; the mutex is held),
\* "asleep", "ended", "died" (of an exception nobody catches).
Places == {"new", "asked", "running", "waiting", "tested", "asleep", "ended", "died"}

\* Types of the node's state.
TypeOK ==
  /\ pc \in [Requests -> Places]
  /\ \A s \in {rds, fetched, documents, dds, notifying, results, exceptions} :
       s \subseteq Requests
  /\ \A s \in {trs, committed, stateChanges} : s \subseteq Txs

Init ==
  /\ pc = [r \in Requests |-> "new"]
  /\ rds = {} /\ fetched = {} /\ documents = {} /\ dds = {} /\ notifying = {}
  /\ trs = {} /\ results = {} /\ exceptions = {} /\ committed = {} /\ stateChanges = {}

goes(r, place) == pc' = [pc EXCEPT ![r] = place]

-----------------------------------------------------------------------------
\* Mutant: the request is not kept in memory.
processRequest_NotKept(r) ==
  /\ pc[r] = "new"
  /\ goes(r, "asked")
  /\ UNCHANGED <<rds, documentVars, outcomeVars>>

processRequest(r) ==
  /\ pc[r] = "new"
  /\ rds' = rds \cup {r}
  /\ goes(r, "asked")
  /\ UNCHANGED <<documentVars, outcomeVars>>

\* executeJsCode: the answer to fetchFunction holds the code.
executeJsCode(r) ==
  /\ pc[r] = "asked" /\ r \in rds
  /\ goes(r, "running")
  /\ UNCHANGED <<rds, documentVars, outcomeVars>>

\* The answer is "not found" or empty: parsing it throws before the try block.
functionNotFound(r) ==
  /\ pc[r] = "asked"
  /\ goes(r, "died")
  /\ UNCHANGED <<rds, documentVars, outcomeVars>>

\* The script calls fetchDocument.
fetchDocument(r) ==
  /\ pc[r] = "running" /\ r \in Fetchers \ fetched
  /\ documents' = documents \cup {r}
  /\ goes(r, "waiting")
  /\ UNCHANGED <<rds, fetched, dds, notifying, outcomeVars>>

MutexIsFree == \A r \in Requests : pc[r] # "tested"

\* cv.wait tests its condition with the mutex, before it sleeps and whenever
\* it is notified.
testDocument(r) ==
  /\ pc[r] = "waiting" /\ MutexIsFree
  /\ IF r \in dds
     THEN /\ dds' = dds \ {r} /\ fetched' = fetched \cup {r}
          /\ goes(r, "running")
     ELSE /\ goes(r, "tested")
          /\ UNCHANGED <<dds, fetched>>
  /\ UNCHANGED <<rds, documents, notifying, outcomeVars>>

\* The thread sleeps and the mutex is released, in one step.
sleep(r) ==
  /\ pc[r] = "tested"
  /\ goes(r, "asleep")
  /\ UNCHANGED <<rds, documentVars, outcomeVars>>

\* updateDocumentMap stores the Storage Node's answer, without the mutex ...
updateDocumentMap(r) ==
  /\ r \in documents
  /\ documents' = documents \ {r}
  /\ dds' = dds \cup {r}
  /\ notifying' = notifying \cup {r}
  /\ UNCHANGED <<pc, rds, fetched, outcomeVars>>

Asleep == {s \in Requests : pc[s] = "asleep"}

\* ... and wakes one of the threads that sleep, if there is any.
notifyOne(r) ==
  /\ r \in notifying
  /\ notifying' = notifying \ {r}
  /\ IF Asleep = {} THEN UNCHANGED pc ELSE \E s \in Asleep : goes(s, "waiting")
  /\ UNCHANGED <<rds, fetched, documents, dds, outcomeVars>>

\* Mutant: a verifier keeps the state changes as well.
keepsCommands_Always(r) == TRUE

keepsCommands(r) == r \in ComputeRequests

\* The rest of executeJsCode.
sendResult(r) ==
  /\ pc[r] = "running" /\ r \notin Fetchers \ fetched
  /\ trs' = IF keepsCommands(r) THEN trs \cup {TxOf[r]} ELSE trs
  /\ results' = results \cup {r}
  /\ rds' = rds \ {r}
  /\ goes(r, "ended")
  /\ UNCHANGED <<documentVars, exceptions, committed, stateChanges>>

\* Mutant: the script goes on after the catch.
sendException_GoesOn(r) ==
  /\ pc[r] = "running" /\ r \notin exceptions
  /\ exceptions' = exceptions \cup {r}
  /\ UNCHANGED <<pc, rds, documentVars, trs, results, committed, stateChanges>>

\* The script throws: only its master hears of it.
sendException(r) ==
  /\ pc[r] = "running"
  /\ exceptions' = exceptions \cup {r}
  /\ goes(r, "ended")
  /\ UNCHANGED <<rds, documentVars, trs, results, committed, stateChanges>>

\* canCommit.  Masters send it once (TxVerification).
processStateChangeCmds(t) ==
  /\ t \notin committed
  /\ committed' = committed \cup {t}
  /\ stateChanges' = IF t \in trs THEN stateChanges \cup {t} ELSE stateChanges
  /\ UNCHANGED <<pc, rds, documentVars, trs, results, exceptions>>

Thread(r) ==
  \/ executeJsCode(r) \/ fetchDocument(r) \/ testDocument(r) \/ sleep(r)
  \/ updateDocumentMap(r) \/ notifyOne(r) \/ sendResult(r)

Next ==
  \/ \E r \in Requests : \/ processRequest(r) \/ Thread(r)
                         \/ functionNotFound(r) \/ sendException(r)
  \/ \E t \in Txs : processStateChangeCmds(t)

Spec == Init /\ [][Next]_vars

\* The Storage Node answers, and threads that can go on do: a thread that
\* waits for the mutex gets it in the end.
FairSpec == Spec /\ \A r \in Requests : WF_vars(Thread(r)) /\ SF_vars(testDocument(r))

-----------------------------------------------------------------------------
(* Properties.                                                              *)

\* A request ends with a result or with an exception and never with both, and
\* its data is only dropped once its result was sent.
OneOutcome ==
  /\ results \cap exceptions = {}
  /\ \A r \in Requests : r \in rds \cup results <=> pc[r] # "new"

\* State changes reach the Storage Node only for a transaction this node sent
\* the output of: what a verifier's execution collects is never applied.
OnlyComputedIsApplied ==
  \A t \in stateChanges : \E r \in ComputeRequests \cap results : TxOf[r] = t

\* A request whose script fetches nothing ends, whatever the scripts that
\* wait for documents do: master21 gets its result or its master the
\* exception, unless the function was not found.
RequestIsAnswered ==
  \A r \in Requests \ Fetchers :
    pc[r] = "asked" ~> r \in results \cup exceptions \/ pc[r] = "died"

\* A script whose document has arrived gets it ("Wait until receive notification",
\* ComputeNode/main.cpp:168).
DocumentIsTaken == \A r \in Requests : r \in dds ~> r \in fetched
=============================================================================
