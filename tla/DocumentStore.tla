--------------------------- MODULE DocumentStore ---------------------------
(***************************************************************************)
(* The Storage Node's documents, templates and functions, composed with    *)
(* the state change queues: while its queue is in "execute", a worker goes *)
(* through the reads and writes of IPFS and of the DHT that its command is *)
(* made of, and its last step is the queue's executeStateChangeCommand.    *)
(* The DHT has an entry per object and a root per tree; nothing locks a    *)
(* tree between the read of its root and the write.                        *)
(*                                                                         *)
(* A command that adds an object stands for the object's id.  An object is *)
(* stood for by the commands that made it what it is; the empty set is the *)
(* empty hash.  A root is its links: the levels of a data tree (index,     *)
(* value, documents) are folded into one, the index "id".                  *)
(*                                                                         *)
(* Source: StorageNode/StorageNode.cpp.                                    *)
(***************************************************************************)
EXTENDS StateChangeQueue

CONSTANTS
  Op,           \* Op[c]: the operation of command c
  Target,       \* Target[c]: the function or template it names (its own id when it adds one)
  Selects,      \* Selects[c]: the documents its filter expression matches
  Invalid,      \* the documents whose text is no JSON
  Sessions,     \* bound on the commands that arrive: those of one session
  MaxFailures   \* bound on the commands that meet a failure

Adds == {"addFunction", "addTemplate"}
Updates == {"updateFunction", "updateTemplate"}
Deletes == {"deleteFunction", "deleteTemplate"}
DocumentLoops == {"updateDocument", "deleteDocument"}
DocumentOps == DocumentLoops \cup {"addDocument"}

ASSUME OpsAssumption ==
  /\ Op \in [Commands -> Adds \cup Updates \cup Deletes \cup DocumentOps]
  /\ Target \in [Commands -> Commands]
  /\ Selects \in [Commands -> SUBSET Commands] /\ Invalid \subseteq Commands
  /\ Sessions \subseteq SUBSET Commands /\ MaxFailures \in Nat

Documents == {c \in Commands : Op[c] = "addDocument"}
Templates == {c \in Commands : Op[c] = "addTemplate"}

\* A command names an object of the kind its operation is about, and no id is
\* the name of an operation or of a tree.  Only a document's text may be no JSON.
ASSUME TargetsAssumption ==
  /\ \A c \in Commands :
       /\ Op[c] \in Adds => Target[c] = c
       /\ Op[c] \in {"updateFunction", "deleteFunction"} => Op[Target[c]] = "addFunction"
       /\ Op[c] \in {"updateTemplate", "deleteTemplate"} \cup DocumentOps =>
            Target[c] \in Templates
  /\ Commands \cap (Adds \cup Updates \cup Deletes \cup {"functions", "templates"}) = {}
  /\ Invalid \subseteq Documents

\* Mutant: one queue per kind of command, for documents too.
keyOf_PerOp == [c \in Commands |-> Op[c]]

\* The queue a command goes to: documents by their entity, others by their
\* operation.
keyOf == [c \in Commands |-> IF Op[c] \in DocumentOps THEN Target[c] ELSE Op[c]]

VARIABLES
  entry,    \* per id, the object its DHT entry leads to
  root,     \* per tree, its root
  work,     \* per key, how far its worker is within a command
  answers,  \* what clients were told: "ok" or "exception"
  failed,   \* commands that met a failure of IPFS or the DHT, or whose client was gone
  deleted   \* documents taken out of their data tree

docVars == <<entry, root, answers, failed, deleted>>
storeVars == <<vars, docVars, work>>

-----------------------------------------------------------------------------
(* State.                                                                   *)

Objects == SUBSET Commands
Links == [Commands -> Objects]
NoLinks == [c \in Commands |-> {}]
Roots == [exists : BOOLEAN, links : Links]
NoRoot == [exists |-> FALSE, links |-> NoLinks]
EmptyRoot == [exists |-> TRUE, links |-> NoLinks]

\* The trees of functions and templates, and the data tree of each template.
Trees == {"functions", "templates"} \cup Templates

treeOf(c) ==
  IF Op[c] \in {"addFunction", "updateFunction", "deleteFunction"}
  THEN "functions" ELSE "templates"

\* A worker: its place, the documents left to handle, the one it handles, the
\* documents as the search saw them, the object to link, and its copy of a root.
Idle == [at |-> "start", todo |-> {}, doc |-> NoCommand, seen |-> NoLinks,
         hash |-> {}, copy |-> NoRoot]

Places == {"start", "put", "readRoot", "link", "unlink", "dataTree", "clearData",
           "search", "next", "document", "index"}

\* Types of the store's state.
StoreTypeOK ==
  /\ TypeOK
  /\ entry \in Links /\ root \in [Trees -> Roots]
  /\ work \in [Keys -> [at : Places, todo : SUBSET Documents,
                        doc : Documents \cup {NoCommand}, seen : Links,
                        hash : Objects, copy : Roots]]
  /\ answers \subseteq Commands \X {"ok", "exception"}
  /\ failed \subseteq Commands /\ deleted \subseteq Documents

StoreInit ==
  /\ Init
  /\ entry = NoLinks /\ root = [tr \in Trees |-> NoRoot]
  /\ work = [k \in Keys |-> Idle]
  /\ answers = {} /\ failed = {} /\ deleted = {}

-----------------------------------------------------------------------------
(* Steps.                                                                   *)

\* (the queue of key k is in "execute")
At(k, place) == work[k].at = place

\* The worker goes on within its command.
Go(k, w) == work' = [work EXCEPT ![k] = w] /\ UNCHANGED vars

\* The command is over, by a return or by an exception that
\* executeStateChangeCommand catches.
End(k) == work' = [work EXCEPT ![k] = Idle] /\ executeStateChangeCommand(k)

Fail(c) ==
  /\ c \in failed \/ Cardinality(failed) < MaxFailures
  /\ failed' = failed \cup {c}

FailIf(bad, c) == IF bad THEN Fail(c) ELSE UNCHANGED failed

\* dhtGet of a root: a lookup that fails looks like a root that does not exist.
dhtGet(c, tr, r) == r \in {root[tr], NoRoot} /\ FailIf(r # root[tr], c)

\* addObject: the empty hash when IPFS fails.  send: throws when the client's
\* connection is gone.
addObjectAndSend(c, object, hash, sent) ==
  /\ hash \in {object, {}} /\ sent \in BOOLEAN
  /\ FailIf(hash # object \/ ~sent, c)
  /\ answers' = IF sent THEN answers \cup {<<c, "ok">>} ELSE answers

tell(c, what) == answers' = answers \cup {<<c, what>>}

\* updateChildNode up to the new object: what it merges is the linked object.
\* An id that is not linked makes map.at throw.
updateChildNode(k) ==
  LET c == top[k]  tr == treeOf(c)
  IN /\ At(k, "start") /\ Op[c] \in Updates
     /\ \E r \in {root[tr], NoRoot} :
          /\ dhtGet(c, tr, r)
          /\ CASE ~r.exists -> tell(c, "exception") /\ End(k)
               [] r.exists /\ r.links[Target[c]] = {} -> End(k) /\ UNCHANGED answers
               [] OTHER -> /\ Go(k, [Idle EXCEPT !.at = "put",
                                                 !.hash = r.links[Target[c]] \cup {c}])
                           /\ UNCHANGED answers
     /\ UNCHANGED <<entry, root, deleted>>

\* ... and when IPFS does not give it the links or the object.
updateChildNode_Fails(k) ==
  LET c == top[k]
  IN /\ At(k, "start") /\ Op[c] \in Updates /\ root[treeOf(c)].exists
     /\ Fail(c) /\ End(k)
     /\ UNCHANGED <<entry, root, answers, deleted>>

\* The object of addChildNode or updateChildNode: stored, put in the DHT, and
\* the client is told, before the object is linked.
putChild(k) ==
  LET c == top[k]
      object == IF Op[c] \in Adds THEN {c} ELSE work[k].hash
  IN /\ IF Op[c] \in Adds THEN At(k, "start") ELSE At(k, "put")
     /\ \E hash \in {object, {}}, sent \in BOOLEAN :
          /\ addObjectAndSend(c, object, hash, sent)
          /\ entry' = [entry EXCEPT ![Target[c]] = hash]
          /\ IF sent THEN Go(k, [Idle EXCEPT !.at = "readRoot", !.hash = hash])
                     ELSE End(k)
     /\ UNCHANGED <<root, deleted>>

\* deleteObject up to its answer.
deleteObject(k) ==
  LET c == top[k]
  IN /\ At(k, "start") /\ Op[c] \in Deletes
     /\ entry' = [entry EXCEPT ![Target[c]] = {}]
     /\ \E sent \in BOOLEAN :
          /\ addObjectAndSend(c, {}, {}, sent)
          /\ IF sent THEN Go(k, [Idle EXCEPT !.at = "readRoot"]) ELSE End(k)
     /\ UNCHANGED <<root, deleted>>

\* linkToRoot and deleteObject read the root ...
readRoot(k) ==
  LET c == top[k]  tr == treeOf(c)
  IN /\ At(k, "readRoot")
     /\ \E r \in {root[tr], NoRoot} :
          /\ dhtGet(c, tr, r)
          /\ Go(k, [work[k] EXCEPT !.copy = r,
                                   !.at = IF Op[c] \in Deletes THEN "unlink" ELSE "link"])
     /\ UNCHANGED <<entry, root, answers, deleted>>

\* ... and write it.  A root that is not there is made, with this one link.
linkToRoot(k) ==
  LET c == top[k]  w == work[k]
  IN /\ At(k, "link") /\ w.hash # {}
     /\ root' = [root EXCEPT ![treeOf(c)] =
                   [exists |-> TRUE, links |-> [w.copy.links EXCEPT ![Target[c]] = w.hash]]]
     /\ IF Op[c] = "addTemplate" THEN Go(k, [Idle EXCEPT !.at = "dataTree"]) ELSE End(k)
     /\ UNCHANGED <<entry, answers, failed, deleted>>

unLinkToRoot(k) ==
  LET c == top[k]  w == work[k]
  IN /\ At(k, "unlink") /\ w.copy.links[Target[c]] # {}
     /\ root' = [root EXCEPT ![treeOf(c)] = [w.copy EXCEPT !.links[Target[c]] = {}]]
     /\ IF Op[c] = "deleteTemplate" THEN Go(k, [Idle EXCEPT !.at = "clearData"]) ELSE End(k)
     /\ UNCHANGED <<entry, answers, failed, deleted>>

\* IPFS rejects a link to the empty hash and the removal of a link that is not
\* there, and it may fail.
linkThrows(k) ==
  LET c == top[k]  w == work[k]
  IN /\ At(k, "link") \/ At(k, "unlink") \/ At(k, "dataTree")
     /\ IF \/ w.at = "link" /\ w.hash = {}
           \/ w.at = "unlink" /\ w.copy.links[Target[c]] = {}
        THEN UNCHANGED failed ELSE Fail(c)
     /\ End(k)
     /\ UNCHANGED <<entry, root, answers, deleted>>

\* Mutant: the new data tree is not put in the DHT.
buildDataTree_NoPut(k) ==
  /\ At(k, "dataTree") /\ End(k) /\ UNCHANGED docVars

\* addChildNode, last: the empty data tree of a new template.
buildDataTree(k) ==
  /\ At(k, "dataTree")
  /\ root' = [root EXCEPT ![top[k]] = EmptyRoot]
  /\ End(k)
  /\ UNCHANGED <<entry, answers, failed, deleted>>

\* deleteObject, last: the data tree of a deleted template.
clearDataTree(k) ==
  /\ At(k, "clearData")
  /\ root' = [root EXCEPT ![Target[top[k]]] = NoRoot]
  /\ End(k)
  /\ UNCHANGED <<entry, answers, failed, deleted>>

-----------------------------------------------------------------------------
(* Documents.                                                               *)

\* updateOrDeleteDocument looks whether there is a data tree ...
updateOrDeleteDocument(k) ==
  LET c == top[k]
  IN /\ At(k, "start") /\ Op[c] \in DocumentLoops
     /\ \E r \in {root[Target[c]], NoRoot} :
          /\ dhtGet(c, Target[c], r)
          /\ IF r.exists THEN Go(k, [Idle EXCEPT !.at = "search"]) /\ UNCHANGED answers
                         ELSE End(k) /\ tell(c, "exception")
     /\ UNCHANGED <<entry, root, deleted>>

\* ... and searches it.
searchDocument(k) ==
  LET c == top[k]  r == root[Target[c]]
      found == {d \in Selects[c] : r.links[d] # {}}
  IN /\ At(k, "search") /\ found # {}
     /\ Go(k, [Idle EXCEPT !.at = "next", !.todo = found, !.seen = r.links])
     /\ UNCHANGED docVars

\* An empty array is answered.  The empty string, which searchDocument returns
\* for an id it does not find, for a root that is gone and for an exception, is
\* not empty() as JSON: indexing it throws and nobody is told.
searchDocument_Nothing(k) ==
  LET c == top[k]  r == root[Target[c]]
      none == \A d \in Selects[c] : r.links[d] = {}
  IN /\ At(k, "search")
     /\ \/ r.exists /\ none /\ tell(c, "exception") /\ UNCHANGED failed
        \/ UNCHANGED answers /\ FailIf(~none, c)
     /\ End(k)
     /\ UNCHANGED <<entry, root, deleted>>

\* The loop over the documents found goes on, or the added document is done.
NextDocument(k, d) ==
  IF Op[top[k]] = "addDocument" THEN End(k)
  ELSE Go(k, [Idle EXCEPT !.at = "next", !.todo = work[k].todo \ {d}, !.seen = work[k].seen])

\* Mutant: one copy of the root for the whole loop.
openDocument_OneCopy(k) ==
  LET c == top[k]  t == Target[c]
      docs == IF Op[c] = "addDocument" THEN {c} ELSE work[k].todo
  IN /\ IF Op[c] = "addDocument" THEN At(k, "start") ELSE At(k, "next")
     /\ \E d \in docs :
          /\ Go(k, [work[k] EXCEPT !.at = "document", !.doc = d,
                      !.copy = IF Op[c] = "addDocument" THEN root[t]
                               ELSE [exists |-> TRUE, links |-> work[k].seen]])
     /\ UNCHANGED docVars

\* createOrDeleteDocument reads the data tree once more.  A text that is no
\* JSON is answered, and stored all the same.
openDocument(k) ==
  LET c == top[k]  t == Target[c]
      docs == IF Op[c] = "addDocument" THEN {c} ELSE work[k].todo
  IN /\ IF Op[c] = "addDocument" THEN At(k, "start") ELSE At(k, "next")
     /\ \E d \in docs, r \in {root[t], NoRoot} :
          /\ dhtGet(c, t, r)
          /\ IF r.exists
             THEN Go(k, [work[k] EXCEPT !.at = "document", !.doc = d, !.copy = r])
             ELSE NextDocument(k, d)
          /\ IF ~r.exists \/ (d = c /\ c \in Invalid)
             THEN tell(c, "exception") ELSE UNCHANGED answers
     /\ UNCHANGED <<entry, root, deleted>>

\* Mutant: the DHT entry is written only where there is a new object.
putDocument_KeepsEntry(k) ==
  LET c == top[k]  w == work[k]
      object == IF Op[c] = "addDocument" THEN {c} ELSE w.seen[w.doc] \cup {c}
  IN /\ At(k, "document")
     /\ entry' = IF Op[c] = "deleteDocument" THEN entry
                 ELSE [entry EXCEPT ![w.doc] = object]
     /\ Go(k, [w EXCEPT !.at = "index", !.hash = object])
     /\ UNCHANGED <<root, answers, failed, deleted>>

\* The document's DHT entry; who adds it is told before it is indexed.
putDocument(k) ==
  LET c == top[k]  w == work[k]
      object == IF Op[c] = "deleteDocument" THEN {} ELSE
                IF Op[c] = "addDocument" THEN {c} ELSE w.seen[w.doc] \cup {c}
      told == Op[c] = "addDocument"
  IN /\ At(k, "document")
     /\ \E hash \in {object, {}}, sent \in {TRUE, ~told} :
          /\ IF told THEN addObjectAndSend(c, object, hash, sent)
                     ELSE FailIf(hash # object, c) /\ UNCHANGED answers
          /\ entry' = [entry EXCEPT ![w.doc] = hash]
          /\ IF sent THEN Go(k, [w EXCEPT !.at = "index", !.hash = hash]) ELSE End(k)
     /\ UNCHANGED <<root, deleted>>

\* Whether a patch of the index throws whatever IPFS does: no JSON, the empty
\* hash, or the removal of a link that is not there.
PatchThrows(c, w) ==
  \/ c \in Invalid
  \/ Op[c] # "deleteDocument" /\ w.hash = {}
  \/ Op[c] # "addDocument" /\ w.copy.links[w.doc] = {}

\* The index "id" of the data tree, patched in the worker's copy of the root.
indexDocument(k) ==
  LET c == top[k]  w == work[k]
  IN /\ At(k, "index") /\ ~PatchThrows(c, w)
     /\ root' = [root EXCEPT ![Target[c]] =
                   [w.copy EXCEPT !.links[w.doc] =
                      IF Op[c] = "deleteDocument" THEN {} ELSE w.hash]]
     /\ deleted' = IF Op[c] = "deleteDocument" THEN deleted \cup {w.doc} ELSE deleted
     /\ NextDocument(k, w.doc)
     /\ UNCHANGED <<entry, answers, failed>>

\* What goes wrong there: the indices cannot be listed, and the document is left
\* out; the values of one cannot be listed, and an added document comes under
\* another value; or a patch throws, which ends the command.
indexDocument_Fails(k) ==
  LET c == top[k]  w == work[k]
  IN /\ At(k, "index")
     /\ \/ ~PatchThrows(c, w) /\ Fail(c) /\ NextDocument(k, w.doc) /\ UNCHANGED root
        \/ /\ ~PatchThrows(c, w) /\ Op[c] = "addDocument" /\ Fail(c)
           /\ root' = [root EXCEPT ![Target[c]] = w.copy] /\ End(k)
        \/ FailIf(~PatchThrows(c, w), c) /\ End(k) /\ UNCHANGED root
     /\ UNCHANGED <<entry, answers, deleted>>

\* The loop is over: the client is told, if it is still there.
answerLoop(k) ==
  LET c == top[k]
  IN /\ At(k, "next") /\ work[k].todo = {}
     /\ \E sent \in BOOLEAN : addObjectAndSend(c, {}, {}, sent)
     /\ End(k)
     /\ UNCHANGED <<entry, root, deleted>>

-----------------------------------------------------------------------------
\* A client names only functions and templates whose ids it was told.
arrive(c) ==
  /\ \E s \in Sessions : arrived \cup {c} \subseteq s
  /\ Target[c] = c \/ <<Target[c], "ok">> \in answers
  /\ onStateChange(c)
  /\ UNCHANGED <<docVars, work>>

Execute(k) ==
  \/ updateChildNode(k) \/ updateChildNode_Fails(k) \/ putChild(k) \/ deleteObject(k)
  \/ readRoot(k) \/ linkToRoot(k) \/ unLinkToRoot(k) \/ linkThrows(k)
  \/ buildDataTree(k) \/ clearDataTree(k)
  \/ updateOrDeleteDocument(k) \/ searchDocument(k) \/ searchDocument_Nothing(k)
  \/ openDocument(k) \/ putDocument(k) \/ indexDocument(k) \/ indexDocument_Fails(k)
  \/ answerLoop(k)

StoreWorker(k) ==
  \/ (takeTop(k) \/ popTop(k)) /\ UNCHANGED <<docVars, work>>
  \/ pc[k] = "execute" /\ Execute(k)

StoreNext ==
  \/ \E c \in Commands : arrive(c)
  \/ \E k \in Keys : StoreWorker(k) \/ (removeQueue(k) /\ UNCHANGED <<docVars, work>>)

\* A worker thread runs on as long as there is work for it.
StoreSpec ==
  /\ StoreInit /\ [][StoreNext]_storeVars
  /\ \A k \in Keys : WF_storeVars(StoreWorker(k))

-----------------------------------------------------------------------------
(* Properties.                                                              *)

\* The commands that write document d.
Writers(d) == {d} \cup {c \in Commands : Op[c] \in DocumentLoops /\ d \in Selects[c]}

Writing(d) ==
  LET k == Target[d] IN k \in Keys /\ work[k].at = "index" /\ work[k].doc = d

\* The index of a data tree leads to the same object as the document's own DHT
\* entry, except while the document is being written and unless a command that
\* writes it met a failure: the writes of other documents, of the template, and
\* failures of those, do not tear them apart.
IndexMatchesEntries ==
  \A d \in Documents \ Invalid :
    root[Target[d]].exists /\ ~Writing(d) /\ Writers(d) \cap failed = {} =>
      root[Target[d]].links[d] = entry[d]

\* A document that was taken out of its data tree does not come back, neither
\* as an entry nor in the index, whatever its template's other commands do.
DeletedStaysDeleted ==
  \A d \in deleted : entry[d] = {} /\ root[Target[d]].links[d] = {}

\* A write of a data tree takes no update of any document back.
UpdatesAreKept ==
  [][\A d \in Documents :
       LET old == root[Target[d]].links[d]  new == root'[Target[d]].links[d]
       IN old # {} /\ new # {} => old \subseteq new]_storeVars

Dropped(t) == \E c \in arrived : Op[c] = "deleteTemplate" /\ Target[c] = t

Usable(c) == IF c \in Documents THEN root[Target[c]].links[c] # {} ELSE root[c].exists

\* What a client was told is stored can be found at some time: a document in
\* its index, a template with its data tree; unless it was deleted, or storing
\* it met a failure after the answer.
AnsweredIsUsable ==
  \A c \in (Documents \cup Templates) \ Invalid :
    <<c, "ok">> \in answers ~>
      Usable(c) \/ c \in deleted \cup failed \/ Dropped(Target[c])
=============================================================================
