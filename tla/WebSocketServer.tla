-------------------------- MODULE WebSocketServer --------------------------
(***************************************************************************)
(* The web socket server of a node.  A client opens a connection, sends a  *)
(* connectionRequest with its key, and then its requests.  The server      *)
(* files the connection's handle under the key.  A request is handled in a *)
(* thread that sends an acknowledgement and later an answer, each to the   *)
(* handle it finds under the key at that time.  Opening, messages and      *)
(* closing are handled by the one thread of the server.                    *)
(*                                                                         *)
(* Source: BlockChainCommon/webSocketServer.cpp, functions.cpp             *)
(* (processIncomingData).  websocketpp is external.                        *)
(***************************************************************************)
EXTENDS Naturals, FiniteSets

CONSTANTS
  Clients,      \* by their keys
  Connections,  \* by their handles
  Requests,
  Nil,          \* no handle, no client, no connection
  MaxOverlaps   \* bound on connections opened before the server saw the last one close

ASSUME ServerAssumption ==
  /\ Nil \notin Clients \cup Connections /\ MaxOverlaps \in Nat

VARIABLES
  status,        \* per connection: "unused", "open", "leaving" (closed by the client), "closed"
  owner,         \* per connection, the client at its other end
  greeted,       \* connections whose connectionRequest was handled
  m_connections, \* per key, the handle filed under it
  thread,        \* per request, its thread: its place, the key and the handle it found
  via,           \* per request, the connection it came over
  received,      \* what clients have received: pairs of a request and "ack" or "answer"
  overlapped     \* clients that opened a connection before their last one was closed

serverVars == <<status, owner, greeted, m_connections, thread, via, received, overlapped>>
connectionVars == <<status, owner, greeted, m_connections, overlapped>>

NoThread == [at |-> "none", key |-> Nil, hdl |-> Nil]

\* Types of the server's state.
ServerTypeOK ==
  /\ status \in [Connections -> {"unused", "open", "leaving", "closed"}]
  /\ owner \in [Connections -> Clients \cup {Nil}] /\ greeted \subseteq Connections
  /\ m_connections \in [Clients -> Connections \cup {Nil}]
  /\ thread \in [Requests -> [at : {"none", "ack", "sendAck", "answer", "sendAnswer", "ended"},
                              key : Clients \cup {Nil}, hdl : Connections \cup {Nil}]]
  /\ via \in [Requests -> Connections \cup {Nil}]
  /\ received \subseteq Requests \X {"ack", "answer"} /\ overlapped \subseteq Clients

ServerInit ==
  /\ status = [h \in Connections |-> "unused"] /\ owner = [h \in Connections |-> Nil]
  /\ greeted = {} /\ m_connections = [k \in Clients |-> Nil]
  /\ thread = [r \in Requests |-> NoThread] /\ via = [r \in Requests |-> Nil]
  /\ received = {} /\ overlapped = {}

-----------------------------------------------------------------------------
(* The thread of the server.                                                *)

Unclosed(k) == {h \in Connections : owner[h] = k /\ status[h] \in {"open", "leaving"}}

\* onOpen does nothing.
onOpen(h, k) ==
  /\ status[h] = "unused"
  /\ IF Unclosed(k) = {} THEN UNCHANGED overlapped
     ELSE /\ k \in overlapped \/ Cardinality(overlapped) < MaxOverlaps
          /\ overlapped' = overlapped \cup {k}
  /\ status' = [status EXCEPT ![h] = "open"]
  /\ owner' = [owner EXCEPT ![h] = k]
  /\ UNCHANGED <<greeted, m_connections, thread, via, received>>

\* onMessage, connectionRequest: a key that exists keeps its handle.
addConnection(h) ==
  LET k == owner[h]
  IN /\ status[h] = "open" /\ h \notin greeted
     /\ greeted' = greeted \cup {h}
     /\ m_connections' = [m_connections EXCEPT ![k] = IF @ = Nil THEN h ELSE @]
     /\ UNCHANGED <<status, owner, thread, via, received, overlapped>>

\* The key a handle is filed under.
getKeyFromHdl(h) ==
  IF \E k \in Clients : m_connections[k] = h
  THEN CHOOSE k \in Clients : m_connections[k] = h ELSE Nil

\* onMessage, any other command: thrown away when the handle has no key.
onMessage(h, r) ==
  LET k == getKeyFromHdl(h)
  IN /\ status[h] = "open" /\ h \in greeted /\ via[r] = Nil
     /\ via' = [via EXCEPT ![r] = h]
     /\ thread' = [thread EXCEPT ![r] =
                     IF k = Nil THEN [NoThread EXCEPT !.at = "ended"]
                     ELSE [NoThread EXCEPT !.at = "ack", !.key = k]]
     /\ UNCHANGED <<connectionVars, received>>

leave(h) ==
  /\ status[h] = "open"
  /\ status' = [status EXCEPT ![h] = "leaving"]
  /\ UNCHANGED <<owner, greeted, m_connections, thread, via, received, overlapped>>

\* Mutant: the key is looked up and not erased.
onClose_NoErase(h) ==
  /\ status[h] = "leaving"
  /\ status' = [status EXCEPT ![h] = "closed"]
  /\ UNCHANGED <<owner, greeted, m_connections, thread, via, received, overlapped>>

\* The entry with this handle goes; erasing the empty key does nothing.
onClose(h) ==
  /\ status[h] = "leaving"
  /\ status' = [status EXCEPT ![h] = "closed"]
  /\ m_connections' = [k \in Clients |-> IF k = getKeyFromHdl(h) THEN Nil
                                         ELSE m_connections[k]]
  /\ UNCHANGED <<owner, greeted, thread, via, received, overlapped>>

-----------------------------------------------------------------------------
(* The threads of the requests.                                             *)

\* send, first half: without an entry it throws, which ends the thread.
getDataFromKey(r) ==
  LET t == thread[r]  hdl == m_connections[t.key]
  IN /\ t.at \in {"ack", "answer"}
     /\ thread' = [thread EXCEPT ![r] =
                     IF hdl = Nil THEN [t EXCEPT !.at = "ended"]
                     ELSE [t EXCEPT !.at = IF t.at = "ack" THEN "sendAck" ELSE "sendAnswer",
                                    !.hdl = hdl]]
     /\ UNCHANGED <<connectionVars, via, received>>

\* send, second half: throws on a connection that is closed, and is lost on one
\* the client has left.  After the acknowledgement the request is handled.
sendThreaded(r) ==
  LET t == thread[r]
      what == IF t.at = "sendAck" THEN "ack" ELSE "answer"
  IN /\ t.at \in {"sendAck", "sendAnswer"}
     /\ received' = IF status[t.hdl] = "open" THEN received \cup {<<r, what>>} ELSE received
     /\ thread' = [thread EXCEPT ![r] =
                     IF what = "ack" /\ status[t.hdl] # "closed"
                     THEN [t EXCEPT !.at = "answer"] ELSE [t EXCEPT !.at = "ended"]]
     /\ UNCHANGED <<connectionVars, via>>

ServerNext ==
  \/ \E h \in Connections : \/ \E k \in Clients : onOpen(h, k)
                            \/ \E r \in Requests : onMessage(h, r)
                            \/ addConnection(h) \/ leave(h) \/ onClose(h)
  \/ \E r \in Requests : getDataFromKey(r) \/ sendThreaded(r)

\* The server notices a connection that was closed, and threads run.
ServerSpec ==
  /\ ServerInit /\ [][ServerNext]_serverVars
  /\ \A h \in Connections : WF_serverVars(onClose(h))
  /\ \A r \in Requests : WF_serverVars(getDataFromKey(r) \/ sendThreaded(r))

-----------------------------------------------------------------------------
(* Properties.                                                              *)

\* No entry outlives its connection: an entry that did would keep its client
\* from being filed again, and every answer to it would throw.
NoStaleEntry ==
  \A k \in Clients :
    m_connections[k] # Nil => /\ owner[m_connections[k]] = k
                              /\ status[m_connections[k]] \in {"open", "leaving"}

\* A client that keeps the connection it asked over is answered, whatever its
\* earlier connections and other clients did; unless it once opened a connection
\* before the server saw its last one close.
RequestIsAnswered ==
  \A r \in Requests, h \in Connections :
    via[r] = h ~> <<r, "answer">> \in received \/ status[h] # "open" \/ owner[h] \in overlapped
=============================================================================
