--------------------------- MODULE RDMAConnection ---------------------------
(***************************************************************************)
(* How nodes become connected: RDMAClient::connect on the thread of the    *)
(* application, RDMAServer::connectQueue on the thread of the server, and  *)
(* the NodeIDSequencer both ask (ReliableRDMA queue pairs, no SRQ).        *)
(*                                                                         *)
(* A node has one application thread, which connects to one server after   *)
(* the other; a server has a second thread, which answers one request at a *)
(* time.  The two threads share the node's maps and vectors.  connect      *)
(* holds m_connLock only while it looks at m_NodeIDsQPs; connectQueue      *)
(* holds it from its first to its last line.                               *)
(***************************************************************************)
EXTENDS NodeIDSequencer

CONSTANTS
  Dials,        \* <<node, server>>: the connect calls applications may make
  Programs,     \* deployments: how often each of them is made
  StartFirst,   \* servers whose program starts them before it connects
  Retries,      \* Config::RDMA_GET_NODE_ID_RETRIES
  MaxFailures,  \* bound: calls of verbs or of ProtoClient that fail
  NoID,         \* m_ownNodeID before requestNodeID
  NoQP          \* a queue pair that is not there

ASSUME DialsAssumption == Dials \subseteq Nodes \X Servers /\ StartFirst \subseteq Servers
ASSUME ProgramsAssumption == Programs \subseteq [Dials -> Nat]
ASSUME BoundsAssumption == Retries \in Nat /\ MaxFailures \in Nat
ASSUME NoIDAssumption == NoID \notin Nat

(* A queue pair has the name of the call that creates it: connect or       *)
(* connectQueue of `owner`, to talk to `peer`.                             *)
QueuePairs == [owner : Nodes, peer : Nodes, by : {"connect", "connectQueue"}]

ASSUME NoQPAssumption == NoQP \notin QueuePairs

VARIABLES
  m_ownNodeID,    \* node -> its id, or NoID
  listening,      \* servers whose ProtoServer has been started
  protoSockets,   \* node -> keys of ProtoClient::m_connections
  m_connections,  \* node -> (server -> id), as far as looked up
  m_NodeIDsQPs,   \* node -> ids whose flag is true
  m_qps,          \* node -> (id -> queue pair)
  m_connected,    \* node -> ids in m_connected
  qp,             \* queue pair -> [state, remote], for those created
  lost,           \* history: queue pairs that a failing call has left behind
  app,            \* node -> where its application thread is
  requests,       \* server -> RDMAConnRequests not received yet
  serving,        \* server -> the request connectQueue is at work on
  returned,       \* <<node, server>> -> what the last connect returned
  calls,          \* <<node, server>> -> connect calls still to be made
  failures        \* calls that failed

ownState  == <<m_ownNodeID, listening>>
nodeState == <<protoSockets, m_connections>>
qpState   == <<m_NodeIDsQPs, m_qps, m_connected, qp, lost>>
vars == <<sequencer, ownState, nodeState, qpState, app, requests, serving,
          returned, calls, failures>>

Request == [from : Nodes, id : Nat, qp : QueuePairs]
NoRequest == [from |-> NoQP, id |-> 0, qp |-> NoQP]

Idle == [at |-> "idle", server |-> NoQP, tries |-> 0, answer |-> NoQP]
NotCalled == [result |-> "none", id |-> 0]

Init ==
  /\ SequencerInit
  /\ m_ownNodeID = [n \in Nodes |-> NoID]
  /\ listening = {}
  /\ protoSockets = [n \in Nodes |-> {}]
  /\ m_connections = [n \in Nodes |-> [s \in {} |-> 0]]
  /\ m_NodeIDsQPs = [n \in Nodes |-> {}]
  /\ m_qps = [n \in Nodes |-> [id \in {} |-> NoQP]]
  /\ m_connected = [n \in Nodes |-> {}]
  /\ qp = [q \in {} |-> [state |-> "INIT", remote |-> NoQP]]
  /\ lost = {}
  /\ app = [n \in Nodes |-> Idle]
  /\ requests = [s \in Servers |-> {}]
  /\ serving = [s \in Servers |-> NoRequest]
  /\ returned = [d \in Dials |-> NotCalled]
  /\ calls \in Programs
  /\ failures = 0

At(n, where) == app[n].at = where
Go(n, where) == app' = [app EXCEPT ![n].at = where]

(* connect ends and hands `id` back through retServerNodeID. *)
Return(n, result, id) ==
  /\ app' = [app EXCEPT ![n] = Idle]
  /\ returned' = [returned EXCEPT ![<<n, app[n].server>>] = [result |-> result, id |-> id]]

LockFree(n) == n \in Servers => serving[n] = NoRequest

Put(f, k, v) == [x \in DOMAIN f \cup {k} |-> IF x = k THEN v ELSE f[x]]

-----------------------------------------------------------------------------
(* requestNodeID; the id is kept once the sequencer's socket is known. *)
requestNodeID(n) ==
  IF m_ownNodeID[n] = NoID
  THEN NodeIDRequest(n) /\ m_ownNodeID' = [m_ownNodeID EXCEPT ![n] = m_nextNodeID]
  ELSE UNCHANGED <<sequencer, m_ownNodeID>>

(* RDMAServer::startServer: an id, then the server thread and its socket. *)
startServer(s) ==
  /\ At(s, "idle")
  /\ s \notin listening
  /\ requestNodeID(s)
  /\ listening' = listening \cup {s}
  /\ UNCHANGED <<nodeState, qpState, app, requests, serving, returned, calls, failures>>

MayConnect(n, s) ==
  /\ At(n, "idle")
  /\ n \in StartFirst => n \in listening
  /\ calls[<<n, s>>] > 0

(* connect to an ip:port that ProtoClient has no socket for. *)
ConnectFirst(n, s) ==
  /\ MayConnect(n, s)
  /\ s \notin protoSockets[n]
  /\ requestNodeID(n)
  /\ protoSockets' = [protoSockets EXCEPT ![n] = @ \cup {s}]
  /\ app' = [app EXCEPT ![n] = [Idle EXCEPT !.at = "lookup", !.server = s]]
  /\ calls' = [calls EXCEPT ![<<n, s>>] = @ - 1]
  /\ UNCHANGED <<listening, m_connections, qpState, requests, serving, returned, failures>>

(* connect to an ip:port it has a socket for: whatever m_connections has,  *)
(* and operator[] has 0 for a key it did not know.                         *)
ConnectAgain(n, s) ==
  /\ MayConnect(n, s)
  /\ s \in protoSockets[n]
  /\ m_connections' = [m_connections EXCEPT ![n] =
       IF s \in DOMAIN @ THEN @ ELSE Put(@, s, 0)]
  /\ returned' = [returned EXCEPT ![<<n, s>>] =
       [result |-> "true", id |-> m_connections'[n][s]]]
  /\ calls' = [calls EXCEPT ![<<n, s>>] = @ - 1]
  /\ UNCHANGED <<sequencer, ownState, protoSockets, qpState, app, requests, serving, failures>>

(* GetNodeIDForIpPortRequest: one attempt and `Retries` more. *)
LookupMisses(n) ==
  /\ At(n, "lookup")
  /\ ~ Known(app[n].server)
  /\ IF app[n].tries < Retries
     THEN app' = [app EXCEPT ![n].tries = @ + 1] /\ UNCHANGED returned
     ELSE Return(n, "false", 0)
  /\ UNCHANGED <<sequencer, ownState, nodeState, qpState, requests, serving, calls, failures>>

(* ... which throws when the sequencer cannot be reached. *)
LookupThrows(n) ==
  /\ At(n, "lookup")
  /\ failures < MaxFailures
  /\ Return(n, "throw", 0)
  /\ failures' = failures + 1
  /\ UNCHANGED <<sequencer, ownState, nodeState, qpState, requests, serving, calls>>

LookupFinds(n) ==
  LET s == app[n].server
  IN  /\ At(n, "lookup")
      /\ Known(s)
      /\ m_connections' = [m_connections EXCEPT ![n] = Put(@, s, EntryFor(s).nodeID)]
      /\ Go(n, "mark")
      /\ UNCHANGED <<sequencer, ownState, protoSockets, qpState, requests, serving,
                     returned, calls, failures>>

-----------------------------------------------------------------------------
(* The test and set of m_NodeIDsQPs, under m_connLock.  The flag is true   *)
(* when the server has called connect itself and its request was here      *)
(* first: connect returns true and leaves it to the server thread.         *)
FoundMarked(n) ==
  LET id == m_connections[n][app[n].server]
  IN  /\ At(n, "mark")
      /\ LockFree(n)
      /\ id \in m_NodeIDsQPs[n]
      /\ Return(n, "true", id)
      /\ UNCHANGED <<sequencer, ownState, nodeState, qpState, requests, serving,
                     calls, failures>>

(* ... or false: a queue pair outside m_qps is created, and its number     *)
(* sent to the server.                                                     *)
MarkAndRequest(n) ==
  LET s  == app[n].server
      id == m_connections[n][s]
      q  == [owner |-> n, peer |-> s, by |-> "connect"]
  IN  /\ At(n, "mark")
      /\ LockFree(n)
      /\ id \notin m_NodeIDsQPs[n]
      /\ m_NodeIDsQPs' = [m_NodeIDsQPs EXCEPT ![n] = @ \cup {id}]
      /\ qp' = Put(qp, q, [state |-> "INIT", remote |-> NoQP])
      /\ requests' = [requests EXCEPT ![s] = @ \cup {[from |-> n, id |-> m_ownNodeID[n], qp |-> q]}]
      /\ Go(n, "wait")
      /\ UNCHANGED <<sequencer, ownState, nodeState, m_qps, m_connected, lost, serving,
                     returned, calls, failures>>

(* initQPWithSuppliedID fails: there is no queue pair, or there is one that *)
(* modifyQPToInit could not bring up, which nobody keeps.                  *)
InitFails(q) ==
  \/ UNCHANGED <<qp, lost>>
  \/ qp' = Put(qp, q, [state |-> "RESET", remote |-> NoQP]) /\ lost' = lost \cup {q}

(* It throws in connect: the flag is set, the socket known. *)
MarkAndThrow(n) ==
  LET s  == app[n].server
      id == m_connections[n][s]
  IN  /\ At(n, "mark")
      /\ LockFree(n)
      /\ failures < MaxFailures
      /\ id \notin m_NodeIDsQPs[n]
      /\ m_NodeIDsQPs' = [m_NodeIDsQPs EXCEPT ![n] = @ \cup {id}]
      /\ InitFails([owner |-> n, peer |-> s, by |-> "connect"])
      /\ Return(n, "throw", id)
      /\ failures' = failures + 1
      /\ UNCHANGED <<sequencer, ownState, nodeState, m_qps, m_connected, requests,
                     serving, calls>>

(* The exchange with the server throws: the request cannot be sent, or the *)
(* reply does not come in time, and the server may be at work on it then.  *)
ExchangeThrows(n) ==
  LET s == app[n].server
      q == [owner |-> n, peer |-> s, by |-> "connect"]
      r == [from |-> n, id |-> m_ownNodeID[n], qp |-> q]
  IN  /\ At(n, "wait") \/ At(n, "answered") \/ At(n, "refused")
      /\ failures < MaxFailures
      /\ \/ UNCHANGED requests
         \/ requests' = [requests EXCEPT ![s] = @ \ {r}]
      /\ lost' = lost \cup {q}
      /\ Return(n, "throw", m_connections[n][s])
      /\ failures' = failures + 1
      /\ UNCHANGED <<sequencer, ownState, nodeState, m_NodeIDsQPs, m_qps, m_connected, qp,
                     serving, calls>>

-----------------------------------------------------------------------------
(* The updates of m_qps, m_lconns, m_rconns, m_qpNum2connID and            *)
(* m_connected that follow a successful exchange: connect makes them       *)
(* without m_connLock, connectQueue with it.                               *)
Installing(n) == At(n, "install")
InConnectQueue(n) == n \in Servers /\ serving[n] # NoRequest

(* setQP grows and writes the vector m_qps.  With both threads in there at *)
(* once (a data race) the write may land in the storage that the other     *)
(* thread's resize is about to discard.  (The outcomes that end the        *)
(* process, storage freed twice or a null read back, are not modelled.)    *)
setQP(n, id, q) ==
  \/ m_qps' = [m_qps EXCEPT ![n] = Put(@, id, q)]
  \/ Installing(n) /\ InConnectQueue(n) /\ UNCHANGED m_qps

(* connectQP moves the queue pair to RTS, unless the id is in m_connected: *)
(* "if QP is connected return" looks at the id, not at the queue pair.     *)
connectQP(n, id, q, remote) ==
  /\ m_connected' = [m_connected EXCEPT ![n] = @ \cup {id}]
  /\ qp' = IF id \in m_connected[n] THEN qp
           ELSE [qp EXCEPT ![q] = [state |-> "RTS", remote |-> remote]]

(* The reply of the server thread reaches the application, if it waits. *)
Reply(s, n, answer) ==
  IF At(n, "wait") /\ app[n].server = s
  THEN app' = [app EXCEPT ![n].at = IF answer = NoQP THEN "refused" ELSE "answered",
                          ![n].answer = answer]
  ELSE UNCHANGED app

(* Slips: nobody backs off, both do, or whoever has the smaller id does. *)
BacksOffNever(s, id) == FALSE
BacksOffBoth(s, id) == id \in m_NodeIDsQPs[s]
BacksOffSmaller(s, id) == id < m_ownNodeID[s]

(* connectQueue's tie-break between two servers that connect to each other *)
(* at the same time: the request of the node with the smaller id loses.    *)
BacksOff(s, id) == id \in m_NodeIDsQPs[s] /\ id < m_ownNodeID[s]

(* Slip: connect holds m_connLock over its exchange with the server. *)
ReceivesUnlessWaiting(s, r) ==
  /\ s \in listening
  /\ serving[s] = NoRequest /\ ~ At(s, "wait")
  /\ r \in requests[s]

Receives(s, r) ==
  /\ s \in listening
  /\ serving[s] = NoRequest
  /\ r \in requests[s]

BackOff(s, r) ==
  /\ Receives(s, r)
  /\ BacksOff(s, r.id)
  /\ requests' = [requests EXCEPT ![s] = @ \ {r}]
  /\ Reply(s, r.from, NoQP)
  /\ UNCHANGED <<sequencer, ownState, nodeState, qpState, serving, returned, calls, failures>>

(* connectQueue up to initQPWithSuppliedID ... *)
BeginConnectQueue(s, r) ==
  /\ Receives(s, r)
  /\ ~ BacksOff(s, r.id)
  /\ requests' = [requests EXCEPT ![s] = @ \ {r}]
  /\ serving' = [serving EXCEPT ![s] = r]
  /\ m_NodeIDsQPs' = [m_NodeIDsQPs EXCEPT ![s] = @ \cup {r.id}]
  /\ qp' = Put(qp, [owner |-> s, peer |-> r.from, by |-> "connectQueue"],
                  [state |-> "INIT", remote |-> NoQP])
  /\ UNCHANGED <<sequencer, ownState, nodeState, m_qps, m_connected, lost, app, returned,
                 calls, failures>>

(* ... and from setQP to the response. *)
FinishConnectQueue(s) ==
  LET r == serving[s]
      q == [owner |-> s, peer |-> r.from, by |-> "connectQueue"]
  IN  /\ r # NoRequest
      /\ setQP(s, r.id, q)
      /\ connectQP(s, r.id, q, r.qp)
      /\ serving' = [serving EXCEPT ![s] = NoRequest]
      /\ Reply(s, r.from, q)
      /\ UNCHANGED <<sequencer, ownState, nodeState, m_NodeIDsQPs, lost, requests, returned,
                     calls, failures>>

(* A verbs call throws in initQPWithSuppliedID or in connectQP.  The answer *)
(* is the ErrorMessage of a back-off.                                      *)
InitQPFails(s, r) ==
  /\ Receives(s, r)
  /\ ~ BacksOff(s, r.id)
  /\ failures < MaxFailures
  /\ requests' = [requests EXCEPT ![s] = @ \ {r}]
  /\ m_NodeIDsQPs' = [m_NodeIDsQPs EXCEPT ![s] = @ \cup {r.id}]
  /\ InitFails([owner |-> s, peer |-> r.from, by |-> "connectQueue"])
  /\ Reply(s, r.from, NoQP)
  /\ failures' = failures + 1
  /\ UNCHANGED <<sequencer, ownState, nodeState, m_qps, m_connected, serving, returned, calls>>

(* connectQP fails at its first step or at its second.  The queue pair     *)
(* stays in m_qps.                                                         *)
ConnectFails(q, remote) ==
  \/ UNCHANGED qp
  \/ qp' = [qp EXCEPT ![q] = [state |-> "RTR", remote |-> remote]]

(* Slip: what fails is the response, when the queue pair is connected.     *)
ResponseFails(s) ==
  LET r == serving[s]
      q == [owner |-> s, peer |-> r.from, by |-> "connectQueue"]
  IN  /\ r # NoRequest
      /\ failures < MaxFailures
      /\ setQP(s, r.id, q)
      /\ connectQP(s, r.id, q, r.qp)
      /\ serving' = [serving EXCEPT ![s] = NoRequest]
      /\ Reply(s, r.from, NoQP)
      /\ failures' = failures + 1
      /\ UNCHANGED <<sequencer, ownState, nodeState, m_NodeIDsQPs, lost, requests, returned, calls>>

ConnectQPFails(s) ==
  LET r == serving[s]
      q == [owner |-> s, peer |-> r.from, by |-> "connectQueue"]
  IN  /\ r # NoRequest
      /\ r.id \notin m_connected[s]
      /\ failures < MaxFailures
      /\ setQP(s, r.id, q)
      /\ ConnectFails(q, r.qp)
      /\ serving' = [serving EXCEPT ![s] = NoRequest]
      /\ Reply(s, r.from, NoQP)
      /\ failures' = failures + 1
      /\ UNCHANGED <<sequencer, ownState, nodeState, m_NodeIDsQPs, m_connected, lost,
                     requests, returned, calls>>

(* Back in connect: an RDMAConnResponse ... *)
BeginInstall(n) ==
  /\ At(n, "answered")
  /\ Go(n, "install")
  /\ UNCHANGED <<sequencer, ownState, nodeState, qpState, requests, serving, returned,
                 calls, failures>>

FinishInstall(n) ==
  LET s  == app[n].server
      id == m_connections[n][s]
      q  == [owner |-> n, peer |-> s, by |-> "connect"]
  IN  /\ Installing(n)
      /\ setQP(n, id, q)
      /\ connectQP(n, id, q, app[n].answer)
      /\ Return(n, "true", id)
      /\ UNCHANGED <<sequencer, ownState, nodeState, m_NodeIDsQPs, lost, requests, serving,
                     calls, failures>>

(* connectQP throws. *)
InstallThrows(n) ==
  LET s  == app[n].server
      id == m_connections[n][s]
      q  == [owner |-> n, peer |-> s, by |-> "connect"]
  IN  /\ Installing(n)
      /\ id \notin m_connected[n]
      /\ failures < MaxFailures
      /\ setQP(n, id, q)
      /\ ConnectFails(q, app[n].answer)
      /\ Return(n, "throw", id)
      /\ failures' = failures + 1
      /\ UNCHANGED <<sequencer, ownState, nodeState, m_NodeIDsQPs, m_connected, lost,
                     requests, serving, calls>>

(* ... or an ErrorMessage: "other Server already connected". *)
DropQueuePair(n) ==
  LET s == app[n].server
      q == [owner |-> n, peer |-> s, by |-> "connect"]
  IN  /\ At(n, "refused")
      /\ qp' = [qp EXCEPT ![q].state = "DESTROYED"]
      /\ Return(n, "true", m_connections[n][s])
      /\ UNCHANGED <<sequencer, ownState, nodeState, m_NodeIDsQPs, m_qps, m_connected, lost,
                     requests, serving, calls, failures>>

(* Its destruction throws, before or after the queue pair is gone. *)
DropThrows(n) ==
  LET s == app[n].server
      q == [owner |-> n, peer |-> s, by |-> "connect"]
  IN  /\ At(n, "refused")
      /\ failures < MaxFailures
      /\ \/ lost' = lost \cup {q} /\ UNCHANGED qp
         \/ qp' = [qp EXCEPT ![q].state = "DESTROYED"] /\ UNCHANGED lost
      /\ Return(n, "throw", m_connections[n][s])
      /\ failures' = failures + 1
      /\ UNCHANGED <<sequencer, ownState, nodeState, m_NodeIDsQPs, m_qps, m_connected,
                     requests, serving, calls>>

-----------------------------------------------------------------------------
Call(n) == \E s \in Servers : <<n, s>> \in Dials /\ (ConnectFirst(n, s) \/ ConnectAgain(n, s))

InCall(n) ==
  \/ LookupMisses(n) \/ LookupFinds(n)
  \/ FoundMarked(n) \/ MarkAndRequest(n)
  \/ BeginInstall(n) \/ FinishInstall(n) \/ DropQueuePair(n)

ServerThread(s) ==
  \/ \E r \in requests[s] : BackOff(s, r) \/ BeginConnectQueue(s, r)
  \/ FinishConnectQueue(s)

(* A failing call at either end. *)
CallFails ==
  \/ \E n \in Nodes :
       LookupThrows(n) \/ MarkAndThrow(n) \/ ExchangeThrows(n) \/ InstallThrows(n) \/ DropThrows(n)
  \/ \E s \in Servers : ConnectQPFails(s) \/ \E r \in requests[s] : InitQPFails(s, r)

Next ==
  \/ \E s \in Servers : startServer(s) \/ ServerThread(s)
  \/ \E n \in Nodes : Call(n) \/ InCall(n)
  \/ CallFails

(* A thread inside connect or the server loop runs on; programs start the  *)
(* servers they have.  Nothing obliges an application to call connect.     *)
Fairness ==
  /\ \A n \in Nodes : WF_vars(InCall(n))
  /\ \A s \in Servers : WF_vars(ServerThread(s)) /\ WF_vars(startServer(s))

Spec == Init /\ [][Next]_vars
FairSpec == Spec /\ Fairness

-----------------------------------------------------------------------------
TypeOK ==
  /\ SequencerTypeOK
  /\ m_ownNodeID \in [Nodes -> Nat \cup {NoID}]
  /\ listening \subseteq Servers
  /\ protoSockets \in [Nodes -> SUBSET Servers]
  /\ \A n \in Nodes :
       /\ DOMAIN m_connections[n] \subseteq Servers
       /\ \A s \in DOMAIN m_connections[n] : m_connections[n][s] \in Nat
       /\ m_NodeIDsQPs[n] \subseteq Nat /\ m_connected[n] \subseteq Nat
       /\ DOMAIN m_qps[n] \subseteq Nat
       /\ \A id \in DOMAIN m_qps[n] : m_qps[n][id] \in DOMAIN qp
  /\ DOMAIN qp \subseteq QueuePairs
  /\ \A q \in DOMAIN qp : qp[q] \in [state : {"RESET", "INIT", "RTR", "RTS", "DESTROYED"},
                                     remote : QueuePairs \cup {NoQP}]
  /\ lost \subseteq DOMAIN qp
  /\ \A n \in Nodes :
       app[n] \in [at : {"idle", "lookup", "mark", "wait", "answered", "install", "refused"},
                   server : Servers \cup {NoQP}, tries : 0 .. Retries,
                   answer : QueuePairs \cup {NoQP}]
  /\ \A s \in Servers : requests[s] \subseteq Request /\ serving[s] \in Request \cup {NoRequest}
  /\ returned \in [Dials -> [result : {"none", "true", "false", "throw"}, id : Nat]]
  /\ calls \in [Dials -> Nat] /\ failures \in 0 .. MaxFailures

(* The queue pair of n that sends to node m. *)
Has(n, m) == m_ownNodeID[m] \in DOMAIN m_qps[n]
QueuePair(n, m) == m_qps[n][m_ownNodeID[m]]
Usable(n, m) == Has(n, m) /\ qp[QueuePair(n, m)].state = "RTS"

Linked(n, m) ==
  /\ Usable(n, m) /\ Usable(m, n)
  /\ qp[QueuePair(n, m)].remote = QueuePair(m, n)
  /\ qp[QueuePair(m, n)].remote = QueuePair(n, m)

(* No two nodes go by the same id: every map and vector of a node is       *)
(* indexed with the ids of its peers (requestNodeID, NodeIDRequest).  And  *)
(* the sequencer finds a node's own entry for its ip:port.                 *)
UniqueIDs ==
  \A m, n \in Nodes : m # n /\ m_ownNodeID[m] # NoID => m_ownNodeID[m] # m_ownNodeID[n]

IDsIdentify == UniqueIDs /\ EntriesIndexed

(* Every queue pair is listed in m_qps, where destroyQPs finds it, or in   *)
(* the hands of a thread that will list or destroy it, unless the call in  *)
(* whose hands it was has failed; a failing call leaves one at most.  (A   *)
(* server that connects to one node while it serves another may lose       *)
(* either in the race of setQP.)                                           *)
MayRace(n) ==
  /\ n \in Servers /\ protoSockets[n] # {}
  /\ \E q, r \in DOMAIN qp : q.owner = n /\ r.owner = n /\ q.peer # r.peer

NoStrayQueuePairs ==
  /\ Cardinality(lost) <= failures
  /\ \A q \in DOMAIN qp \ lost :
       qp[q].state # "DESTROYED" /\ ~ MayRace(q.owner) =>
       \/ \E id \in DOMAIN m_qps[q.owner] : m_qps[q.owner][id] = q
       \/ q.by = "connect" /\ app[q.owner].server = q.peer
       \/ q.by = "connectQueue" /\ serving[q.owner].from = q.peer

(* A connected queue pair is aimed at one of the peer it is listed for,    *)
(* which is not destroyed and, once connected, aims back: whatever the     *)
(* interleaving of connect and connectQueue at both ends, data sent to m   *)
(* arrives at m, over one pair of queue pairs, and no other is left over   *)
(* but what failing calls have lost.                                       *)
QueuePairsMatch ==
  /\ TypeOK
  /\ NoStrayQueuePairs
  /\ \A n, m \in Nodes : Usable(n, m) =>
       LET remote == qp[QueuePair(n, m)].remote
       IN  /\ remote.owner = m /\ remote.peer = n
           /\ qp[remote].state # "DESTROYED"
           /\ qp[remote].state = "RTS" => qp[remote].remote = QueuePair(n, m)

(* When a client's connect has got past the lookup and is over, both ends  *)
(* are connected, unless a call failed: a client, unlike a server, has no  *)
(* second thread to wait for.  (A server that has called connect itself    *)
(* may lose the entry in the race of setQP.)                               *)
ClientIsLinked ==
  \A n \in Clients, s \in Servers :
    /\ failures = 0
    /\ protoSockets[s] = {}
    /\ m_ownNodeID[s] \in m_NodeIDsQPs[n] /\ At(n, "idle")
    => Linked(n, s)

(* A link is never taken down by a request that crosses it. *)
LinksStay == [][\A n, m \in Nodes : Linked(n, m) => Linked(n, m)']_vars

(* Every connect returns: two servers that connect to each other never     *)
(* wait for each other.                                                    *)
CallsReturn == \A n \in Nodes : ~ At(n, "idle") ~> At(n, "idle")

(* Once connect has marked the server, both ends become connected, also at *)
(* the server whose own request lost the tie-break, unless a call fails or *)
(* an entry is lost in the race of setQP.                                  *)
BothEndsConnect ==
  \A n, s \in Nodes :
    m_ownNodeID[s] \in m_NodeIDsQPs[n] /\ n # s ~>
      Linked(n, s) \/ failures > 0 \/ MayRace(n) \/ MayRace(s)

(* "@return true success" (RDMAClient.h:186): connect has handed back the  *)
(* server's id, and data can be sent to it.                                *)
ConnectTrueMeansReady ==
  \A d \in Dials : returned[d].result = "true" =>
    /\ returned[d].id = m_ownNodeID[d[2]]
    /\ Usable(d[1], d[2])
=============================================================================
