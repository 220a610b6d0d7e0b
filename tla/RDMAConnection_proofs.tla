------------------------- MODULE RDMAConnection_proofs ----------------------
(***************************************************************************)
(* Proofs about connections, for any number of nodes, calls, retries and   *)
(* failures.                                                               *)
(*                                                                         *)
(* First the numbering of nodes: every step either leaves the sequencer    *)
(* alone or gives its next id to one node that has none.  Then connect and *)
(* connectQueue: ConnectInv says, of every two nodes, how far the exchange *)
(* between them has come and what it has left in their maps and vectors.   *)
(***************************************************************************)
EXTENDS RDMAConnection, FiniteSetTheorems, TLAPS

(* A node gets the sequencer's next id. *)
Registers(n) ==
  /\ m_ownNodeID[n] = NoID
  /\ NodeIDRequest(n)
  /\ m_ownNodeID' = [m_ownNodeID EXCEPT ![n] = m_nextNodeID]

IDsGiven ==
  /\ m_nextNodeID \in Nat
  /\ m_ownNodeID \in [Nodes -> Nat \cup {NoID}]
  /\ \A n \in Nodes : m_ownNodeID[n] # NoID => m_ownNodeID[n] < m_nextNodeID

EntriesTyped ==
  /\ m_entries \in Seq(NodeEntry)
  /\ DOMAIN m_ipPortToNodeIDMapping \subseteq Servers
  /\ \A s \in DOMAIN m_ipPortToNodeIDMapping : m_ipPortToNodeIDMapping[s] \in Nat

IInv == IDsGiven /\ UniqueIDs /\ EntriesTyped /\ EntriesIndexed

-----------------------------------------------------------------------------
LEMMA StepsOfTheSequencer ==
  ASSUME [Next]_vars
  PROVE  UNCHANGED <<sequencer, m_ownNodeID>> \/ \E n \in Nodes : Registers(n)
<1>1. ASSUME NEW n \in Nodes, requestNodeID(n)
      PROVE  UNCHANGED <<sequencer, m_ownNodeID>> \/ Registers(n)
  BY <1>1 DEF requestNodeID, Registers
<1>2. ASSUME NEW s \in Servers, startServer(s)
      PROVE  UNCHANGED <<sequencer, m_ownNodeID>> \/ \E n \in Nodes : Registers(n)
  <2>1. s \in Nodes /\ requestNodeID(s)
    BY <1>2 DEF startServer, Nodes
  <2>2. QED
    BY <1>1, <2>1
<1>3. ASSUME NEW n \in Nodes, NEW s \in Servers, ConnectFirst(n, s)
      PROVE  UNCHANGED <<sequencer, m_ownNodeID>> \/ \E m \in Nodes : Registers(m)
  <2>1. requestNodeID(n)
    BY <1>3 DEF ConnectFirst
  <2>2. QED
    BY <1>1, <2>1
<1>4. ASSUME NEW n \in Nodes, NEW s \in Servers, ConnectAgain(n, s)
      PROVE  UNCHANGED <<sequencer, m_ownNodeID>>
  BY <1>4 DEF ConnectAgain, ownState
<1>5. ASSUME NEW n \in Nodes, InCall(n)
      PROVE  UNCHANGED <<sequencer, m_ownNodeID>>
  BY <1>5 DEF InCall, LookupMisses, LookupFinds, FoundMarked, MarkAndRequest, BeginInstall,
              FinishInstall, DropQueuePair, ownState
<1>6. ASSUME NEW s \in Servers, ServerThread(s)
      PROVE  UNCHANGED <<sequencer, m_ownNodeID>>
  BY <1>6 DEF ServerThread, BackOff, BeginConnectQueue, FinishConnectQueue, ownState
<1>7. CASE CallFails
  BY <1>7 DEF CallFails, LookupThrows, MarkAndThrow, ExchangeThrows, InstallThrows, DropThrows,
              ConnectQPFails, InitQPFails, ownState
<1>8. CASE UNCHANGED vars
  BY <1>8 DEF vars, ownState
<1>9. QED
  BY <1>2, <1>3, <1>4, <1>5, <1>6, <1>7, <1>8 DEF Next, Call

LEMMA RegisteringKeepsIDs ==
  ASSUME IInv, NEW n \in Nodes, Registers(n)
  PROVE  IDsGiven' /\ UniqueIDs'
<1>1. m_nextNodeID \in Nat /\ m_nextNodeID' = m_nextNodeID + 1
  BY DEF IInv, IDsGiven, Registers, NodeIDRequest, getNextNodeID
<1>2. m_ownNodeID' = [m_ownNodeID EXCEPT ![n] = m_nextNodeID]
  BY DEF Registers
<1>3. \A m \in Nodes : m_ownNodeID'[m] = IF m = n THEN m_nextNodeID ELSE m_ownNodeID[m]
  BY <1>2 DEF IInv, IDsGiven
<1>4. IDsGiven'
  BY <1>1, <1>2, <1>3, NoIDAssumption DEF IInv, IDsGiven
<1>5. UniqueIDs'
  BY <1>1, <1>3, NoIDAssumption DEF IInv, IDsGiven, UniqueIDs
<1>6. QED
  BY <1>4, <1>5

LEMMA RegisteringKeepsEntries ==
  ASSUME IInv, NEW n \in Nodes, Registers(n)
  PROVE  EntriesTyped' /\ EntriesIndexed'
<1> DEFINE id == m_nextNodeID
           entry == [IP |-> n, nodeID |-> id]
<1>1. id \in Nat /\ id = Len(m_entries) /\ entry \in NodeEntry /\ m_entries \in Seq(NodeEntry)
  BY DEF IInv, IDsGiven, EntriesIndexed, EntriesTyped, NodeEntry
<1>2. m_nextNodeID' = id + 1 /\ m_entries' = Append(m_entries, entry)
  BY DEF Registers, NodeIDRequest, getNextNodeID
<1>3. /\ m_entries' \in Seq(NodeEntry)
      /\ Len(m_entries') = id + 1
      /\ \A i \in 1 .. id : m_entries'[i] = m_entries[i]
      /\ m_entries'[id + 1] = entry
  BY <1>1, <1>2
<1>4. \A i \in DOMAIN m_entries' : m_entries'[i].nodeID = i - 1
  <2> SUFFICES ASSUME NEW i \in 1 .. (id + 1) PROVE m_entries'[i].nodeID = i - 1
    BY <1>1, <1>3
  <2>1. CASE i = id + 1
    BY <1>1, <1>3, <2>1
  <2>2. CASE i \in 1 .. id
    BY <1>1, <1>3, <2>2, SMTT(60) DEF IInv, EntriesIndexed
  <2>3. QED
    BY <1>1, <2>1, <2>2
<1>5. /\ DOMAIN m_ipPortToNodeIDMapping' \subseteq Servers
      /\ \A s \in DOMAIN m_ipPortToNodeIDMapping' :
           \/ s = n /\ m_ipPortToNodeIDMapping'[s] = id
           \/ /\ s \in DOMAIN m_ipPortToNodeIDMapping
              /\ m_ipPortToNodeIDMapping'[s] = m_ipPortToNodeIDMapping[s]
  BY DEF IInv, EntriesTyped, Registers, NodeIDRequest
<1>6. ASSUME NEW s \in Servers, Known(s)'
      PROVE  m_ipPortToNodeIDMapping'[s] < m_nextNodeID' /\ EntryFor(s)'.IP = s
  <2>1. CASE s = n /\ m_ipPortToNodeIDMapping'[s] = id
    BY <1>1, <1>2, <1>3, <2>1 DEF EntryFor
  <2>2. CASE /\ s \in DOMAIN m_ipPortToNodeIDMapping
             /\ m_ipPortToNodeIDMapping'[s] = m_ipPortToNodeIDMapping[s]
    <3> DEFINE k == m_ipPortToNodeIDMapping[s]
    <3>1. k \in Nat /\ k < id /\ m_entries[k + 1].IP = s
      BY <2>2 DEF IInv, EntriesTyped, EntriesIndexed, Known, EntryFor
    <3>2. m_entries'[k + 1] = m_entries[k + 1]
      BY <1>1, <1>3, <3>1
    <3>3. QED
      BY <1>1, <1>2, <2>2, <3>1, <3>2 DEF EntryFor
  <2>3. QED
    BY <1>5, <1>6, <2>1, <2>2 DEF Known
<1>7. EntriesTyped'
  BY <1>1, <1>3, <1>5 DEF IInv, EntriesTyped
<1>8. EntriesIndexed'
  BY <1>2, <1>3, <1>4, <1>6 DEF EntriesIndexed
<1>9. QED
  BY <1>7, <1>8

LEMMA NextKeepsInvariant ==
  ASSUME IInv, [Next]_vars
  PROVE  IInv'
<1>1. CASE UNCHANGED <<sequencer, m_ownNodeID>>
  BY <1>1 DEF IInv, sequencer, IDsGiven, UniqueIDs, EntriesTyped, EntriesIndexed, Known, EntryFor
<1>2. ASSUME NEW n \in Nodes, Registers(n)
      PROVE  IInv'
  BY <1>2, RegisteringKeepsIDs, RegisteringKeepsEntries DEF IInv
<1>3. QED
  BY <1>1, <1>2, StepsOfTheSequencer

LEMMA InitInvariant == Init => IInv
<1> SUFFICES ASSUME Init PROVE IInv
  OBVIOUS
<1>1. m_nextNodeID = 0 /\ m_entries = <<>> /\ DOMAIN m_ipPortToNodeIDMapping = {}
  BY DEF Init, SequencerInit
<1>2. \A n \in Nodes : m_ownNodeID[n] = NoID
  BY DEF Init
<1>3. IDsGiven /\ UniqueIDs
  BY <1>1, <1>2 DEF Init, IDsGiven, UniqueIDs
<1>4. EntriesTyped /\ EntriesIndexed
  BY <1>1 DEF EntriesTyped, EntriesIndexed, Known
<1>5. QED
  BY <1>3, <1>4 DEF IInv

LEMMA Invariance == Spec => []IInv
<1>1. QED
  BY InitInvariant, NextKeepsInvariant, PTL DEF Spec

-----------------------------------------------------------------------------
(* No two nodes ever go by the same id, and the sequencer's vector is      *)
(* indexed by id: an ip:port is answered with the entry of that very node, *)
(* so that connect never throws "Fetched IP ... did not match requested    *)
(* IP".                                                                    *)
THEOREM IDsAlwaysIdentify == Spec => []IDsIdentify
<1>1. IInv => IDsIdentify
  BY DEF IInv, IDsIdentify
<1>2. QED
  BY <1>1, Invariance, PTL
-----------------------------------------------------------------------------
(* Connections.  What connect of n and connectQueue of s make for the      *)
(* request of n to s:                                                      *)
Dialed(n, s) == [owner |-> n, peer |-> s, by |-> "connect"]
Served(s, n) == [owner |-> s, peer |-> n, by |-> "connectQueue"]

(* A program connects to other nodes.  (connect to one's own ip:port marks  *)
(* the own id and sends the request to the own server thread, whose tie-    *)
(* break compares the id with itself; m_qps has one slot for two ends.)     *)
NoSelfDials == \A d \in Dials : d[1] # d[2]

ID(n) == m_ownNodeID[n]
Made(q) == q \in DOMAIN qp
Is(q, state) == Made(q) /\ qp[q].state = state
Holds(n, m, q) == ID(m) \in DOMAIN m_qps[n] /\ m_qps[n][ID(m)] = q

(* n has sent its request to s, and its connect is not over. *)
Busy(n, s) ==
  app[n].server = s /\ app[n].at \in {"wait", "answered", "install", "refused"}
Serving(s, n) == s \in Servers /\ serving[s] # NoRequest /\ serving[s].from = n

(* The maps and vectors of a node have an index for every id they use. *)
GivenIDs == 0 .. (m_nextNodeID - 1)
NodesTyped ==
  /\ DOMAIN m_connections = Nodes /\ DOMAIN m_NodeIDsQPs = Nodes
  /\ DOMAIN m_qps = Nodes /\ DOMAIN m_connected = Nodes /\ DOMAIN app = Nodes
  /\ DOMAIN requests = Servers /\ DOMAIN serving = Servers
  /\ \A n \in Nodes : /\ m_NodeIDsQPs[n] \subseteq GivenIDs
                      /\ m_connected[n] \subseteq GivenIDs
                      /\ DOMAIN m_qps[n] \subseteq GivenIDs

(* The sequencer knows a server by the id that it has. *)
ServersKnown == \A s \in Servers : Known(s) => m_ipPortToNodeIDMapping[s] = ID(s)

(* Where a connect is, and what it has made by then. *)
Looking(n) ==
  At(n, "lookup") \/ At(n, "mark") => ~ Made(Dialed(n, app[n].server))
Found(n) ==
  ~ At(n, "lookup") =>
    LET s == app[n].server
    IN ID(s) # NoID /\ s \in DOMAIN m_connections[n] /\ m_connections[n][s] = ID(s)
Requested(n) ==
  LET q == Dialed(n, app[n].server)
  IN Busy(n, app[n].server) => Is(q, "INIT") /\ q \notin lost
Answered(n) ==
  LET q == Served(app[n].server, n)
  IN /\ At(n, "answered") \/ At(n, "install") => app[n].answer = q /\ Is(q, "RTS")
     /\ At(n, "refused") => ~ Is(q, "RTS")

Connecting(n) ==
  ~ At(n, "idle") =>
    /\ app[n].server \in Servers /\ app[n].server \in protoSockets[n]
    /\ app[n].server # n /\ ID(n) # NoID
    /\ Looking(n) /\ Found(n) /\ Requested(n) /\ Answered(n)
ConnectSteps == \A n \in Nodes : Connecting(n)

(* The owner of a queue pair has marked its peer, and the two ends of an   *)
(* exchange are in step.  Of two nodes that have sent requests to each     *)
(* other, only the one with the smaller id serves.                         *)
Marked(n, m) ==
  n # m /\ ID(n) # NoID /\ ID(m) # NoID /\ ID(m) \in m_NodeIDsQPs[n]
DialedInStep(n, s) ==
  LET q == Dialed(n, s)
  IN Made(q) =>
       /\ Marked(n, s) /\ s \in protoSockets[n]
       /\ Is(q, "RTS") => qp[q].remote = Served(s, n) /\ Is(Served(s, n), "RTS")
ServedInStep(s, n) ==
  LET q == Served(s, n)
  IN Made(q) =>
       /\ Marked(s, n) /\ s \in Servers /\ Made(Dialed(n, s))
       /\ Made(Dialed(s, n)) => ID(s) < ID(n)
       /\ ~ Is(q, "DESTROYED")
       /\ Is(q, "RTS") => qp[q].remote = Dialed(n, s) /\ ~ Is(Dialed(n, s), "DESTROYED")
Exchanges == \A n, m \in Nodes : DialedInStep(n, m) /\ ServedInStep(n, m)

(* A request is one of a connect that waits, or has failed meanwhile. *)
Pending(n, s) == At(n, "wait") /\ app[n].server = s
Waiting(s, r) ==
  /\ r = [from |-> r.from, id |-> ID(r.from), qp |-> Dialed(r.from, s)]
  /\ r.from \in Nodes
  /\ Pending(r.from, s) \/ Dialed(r.from, s) \in lost
Requests ==
  \A s \in Servers :
    /\ \A r \in requests[s] : Waiting(s, r) /\ ~ Made(Served(s, r.from))
    /\ serving[s] # NoRequest =>
         Waiting(s, serving[s]) /\ Is(Served(s, serving[s].from), "INIT")

(* What a node has written under the id of another one. *)
ConnectedIDs ==
  \A n, m \in Nodes :
    ID(m) \in m_connected[n] => Is(Dialed(n, m), "RTS") \/ Is(Served(n, m), "RTS")
Slots ==
  \A n, m \in Nodes : ID(m) \in DOMAIN m_qps[n] =>
    \/ Holds(n, m, Dialed(n, m)) /\ Made(Dialed(n, m)) /\ Made(Served(m, n))
    \/ Holds(n, m, Served(n, m)) /\ Made(Served(n, m))
NoneLost ==
  \A n, m \in Nodes : ~ MayRace(n) =>
    /\ Made(Dialed(n, m)) /\ ~ Is(Dialed(n, m), "DESTROYED") =>
         Holds(n, m, Dialed(n, m)) \/ Busy(n, m) \/ Dialed(n, m) \in lost
    /\ Made(Served(n, m)) =>
         Holds(n, m, Served(n, m)) \/ Serving(n, m) \/ Served(n, m) \in lost

(* What failing calls have left behind. *)
LostStay == \A q \in lost : ~ Is(q, "DESTROYED")
FewLost == IsFiniteSet(lost) /\ Cardinality(lost) <= failures

(* As long as no call fails, exchanges end with both ends connected, *)
(* but for those that the tie-break of a server that connects decides.     *)
Succeeding ==
  failures = 0 =>
    \A n, m \in Nodes :
      /\ ID(m) \in m_NodeIDsQPs[n] => Made(Dialed(n, m)) \/ Made(Served(n, m))
      /\ Made(Dialed(n, m)) =>
           Is(Dialed(n, m), "RTS") \/ Busy(n, m) \/ protoSockets[m] # {}
      /\ Busy(n, m) /\ At(n, "refused") => protoSockets[m] # {}
      /\ Made(Served(n, m)) => Is(Served(n, m), "RTS") \/ Serving(n, m)

Connections ==
  /\ ConnectSteps /\ Exchanges /\ Requests
  /\ ConnectedIDs /\ Slots /\ NoneLost /\ LostStay /\ Succeeding

ConnectInv == TypeOK /\ NodesTyped /\ ServersKnown /\ FewLost /\ Connections

-----------------------------------------------------------------------------
(* What a step never takes back, and which queue pairs exclude each other. *)
LEMMA Names ==
  /\ \A n, m \in Nodes : Dialed(n, m) \in QueuePairs /\ Served(n, m) \in QueuePairs
  /\ \A n, m, k, l \in Nodes :
       /\ Dialed(n, m) # Served(k, l)
       /\ Dialed(n, m) = Dialed(k, l) => n = k /\ m = l
       /\ Served(n, m) = Served(k, l) => n = k /\ m = l
BY DEF QueuePairs, Dialed, Served

LEMMA Fields ==
  /\ \A n, m \in Nodes : /\ Dialed(n, m).owner = n /\ Dialed(n, m).peer = m
                         /\ Served(n, m).owner = n /\ Served(n, m).peer = m
                         /\ Dialed(n, m).by = "connect" /\ Served(n, m).by = "connectQueue"
  /\ \A q \in QueuePairs : /\ q.owner \in Nodes /\ q.peer \in Nodes
                           /\ \/ q = Dialed(q.owner, q.peer)
                              \/ q = Served(q.owner, q.peer)
BY DEF QueuePairs, Dialed, Served

LEMMA IDsStay ==
  ASSUME IInv, [Next]_vars
  PROVE  /\ m_nextNodeID \in Nat /\ m_nextNodeID' \in Nat /\ m_nextNodeID <= m_nextNodeID'
         /\ \A n \in Nodes : ID(n)' = ID(n) \/ (ID(n) = NoID /\ ID(n)' = m_nextNodeID)
         /\ \A n \in Nodes : ID(n) # NoID => ID(n) \in GivenIDs
<1>1. m_nextNodeID \in Nat /\ \A n \in Nodes : ID(n) # NoID => ID(n) \in GivenIDs
  BY DEF IInv, IDsGiven, ID, GivenIDs
<1>2. CASE UNCHANGED <<sequencer, m_ownNodeID>>
  BY <1>1, <1>2 DEF sequencer, ID
<1>3. ASSUME NEW n \in Nodes, Registers(n)
      PROVE  /\ m_nextNodeID' = m_nextNodeID + 1
             /\ \A m \in Nodes : ID(m)' = ID(m) \/ (ID(m) = NoID /\ ID(m)' = m_nextNodeID)
  BY <1>3 DEF IInv, IDsGiven, Registers, NodeIDRequest, getNextNodeID, ID
<1>4. QED
  BY <1>1, <1>2, <1>3, StepsOfTheSequencer

LEMMA ServersStayKnown ==
  ASSUME IInv, ServersKnown, [Next]_vars
  PROVE  ServersKnown'
<1>1. CASE UNCHANGED <<sequencer, m_ownNodeID>>
  BY <1>1 DEF sequencer, ServersKnown, ID, Known
<1>2. ASSUME NEW n \in Nodes, Registers(n)
      PROVE  ServersKnown'
  <2>1. \A s \in Servers : ID(s)' = IF s = n THEN m_nextNodeID ELSE ID(s)
    BY <1>2 DEF IInv, IDsGiven, Registers, ID, Nodes
  <2>2. \A s \in Servers : Known(s)' =>
          IF s = n THEN m_ipPortToNodeIDMapping'[s] = m_nextNodeID
          ELSE Known(s) /\ m_ipPortToNodeIDMapping'[s] = m_ipPortToNodeIDMapping[s]
    BY <1>2 DEF Registers, NodeIDRequest, Known
  <2>3. QED
    BY <2>1, <2>2 DEF ServersKnown
<1>3. QED
  BY <1>1, <1>2, StepsOfTheSequencer

(* Sockets and queue pairs stay, whatever becomes of them. *)
Grows ==
  /\ \A n \in Nodes : protoSockets[n] \subseteq protoSockets'[n]
  /\ DOMAIN qp \subseteq DOMAIN qp'

LEMMA StepsGrow ==
  ASSUME TypeOK, [Next]_vars
  PROVE  Grows
<1>1. protoSockets \in [Nodes -> SUBSET Servers]
  BY DEF TypeOK
<1>2. ASSUME NEW s \in Servers, startServer(s)
      PROVE  Grows
  BY <1>2 DEF Grows, startServer, nodeState, qpState
<1>3. ASSUME NEW n \in Nodes, Call(n)
      PROVE  Grows
  BY <1>1, <1>3 DEF Grows, Call, ConnectFirst, ConnectAgain, qpState
<1>4. ASSUME NEW n \in Nodes, InCall(n)
      PROVE  Grows
  BY <1>4 DEF Grows, InCall, LookupMisses, LookupFinds, FoundMarked, MarkAndRequest, BeginInstall,
              FinishInstall, DropQueuePair, nodeState, qpState, Put, connectQP
<1>5. ASSUME NEW s \in Servers, ServerThread(s)
      PROVE  Grows
  BY <1>5 DEF Grows, ServerThread, BackOff, BeginConnectQueue, FinishConnectQueue,
              nodeState, qpState, Put, connectQP
<1>6. CASE CallFails
  BY <1>6 DEF Grows, CallFails, LookupThrows, MarkAndThrow, ExchangeThrows, InstallThrows,
              DropThrows, ConnectQPFails, InitQPFails, InitFails, ConnectFails, Put,
              nodeState, qpState
<1>7. CASE UNCHANGED vars
  BY <1>7 DEF Grows, vars, nodeState, qpState
<1>8. QED
  BY <1>2, <1>3, <1>4, <1>5, <1>6, <1>7 DEF Next

(* A failing call leaves a queue pair behind at most; others leave none. *)
LEMMA LostAreFew ==
  ASSUME TypeOK, FewLost, [Next]_vars
  PROVE  FewLost'
<1>1. /\ failures \in Nat /\ IsFiniteSet(lost) /\ Cardinality(lost) \in Nat
      /\ Cardinality(lost) <= failures
  BY FS_CardinalityType, BoundsAssumption DEF TypeOK, FewLost
<1>2. ASSUME UNCHANGED lost, failures' = failures \/ failures' = failures + 1
      PROVE  FewLost'
  BY <1>1, <1>2 DEF FewLost
<1>3. ASSUME NEW q, lost' = lost \cup {q}, failures' = failures + 1
      PROVE  FewLost'
  <2>1. /\ IsFiniteSet(lost')
        /\ Cardinality(lost') = Cardinality(lost) \/ Cardinality(lost') = Cardinality(lost) + 1
    BY <1>1, <1>3, FS_AddElement
  <2>2. QED
    BY <1>1, <1>3, <2>1 DEF FewLost
<1>4. CASE CallFails
  <2>1. failures' = failures + 1
    BY <1>4 DEF CallFails, LookupThrows, MarkAndThrow, ExchangeThrows, InstallThrows, DropThrows,
       ConnectQPFails, InitQPFails
  <2>2. UNCHANGED lost \/ \E q : lost' = lost \cup {q}
    BY <1>4 DEF CallFails, LookupThrows, MarkAndThrow, ExchangeThrows, InstallThrows, DropThrows,
       ConnectQPFails, InitQPFails, InitFails, qpState
  <2>3. QED
    BY <1>2, <1>3, <2>1, <2>2
<1>5. ASSUME NEW s \in Servers, startServer(s) \/ ServerThread(s)
      PROVE  UNCHANGED <<lost, failures>>
  BY <1>5 DEF startServer, ServerThread, BackOff, BeginConnectQueue, FinishConnectQueue, qpState
<1>6. ASSUME NEW n \in Nodes, Call(n) \/ InCall(n)
      PROVE  UNCHANGED <<lost, failures>>
  BY <1>6 DEF Call, ConnectFirst, ConnectAgain, InCall, LookupMisses, LookupFinds, FoundMarked,
     MarkAndRequest, BeginInstall, FinishInstall, DropQueuePair, qpState
<1>7. CASE UNCHANGED vars
  BY <1>2, <1>7 DEF vars, qpState
<1>8. QED
  BY <1>2, <1>4, <1>5, <1>6, <1>7 DEF Next

LEMMA RacesStay ==
  ASSUME Grows, NEW n \in Nodes, MayRace(n)
  PROVE  MayRace(n)'
BY DEF Grows, MayRace

(* A server that connects to one node and serves another. *)
LEMMA Races ==
  ASSUME NEW n \in Servers, NEW s \in Nodes, NEW m \in Nodes, s # m,
         s \in protoSockets[n], Made(Dialed(n, s)), Made(Served(n, m))
  PROVE  MayRace(n)
BY Fields DEF MayRace, Made, Nodes

LEMMA NotBoth ==
  ASSUME IInv, Exchanges, NEW n \in Nodes, NEW m \in Nodes
  PROVE  ~ (Made(Served(n, m)) /\ Made(Served(m, n)))
<1>1. SUFFICES ASSUME Made(Served(n, m)), Made(Served(m, n))
               PROVE  FALSE
  OBVIOUS
<1>2. Made(Dialed(n, m)) /\ Made(Dialed(m, n)) /\ ID(n) # NoID /\ ID(m) # NoID
  BY <1>1 DEF Exchanges, ServedInStep, Marked
<1>3. ID(n) < ID(m) /\ ID(m) < ID(n)
  BY <1>1, <1>2 DEF Exchanges, ServedInStep
<1>4. ID(n) \in Nat /\ ID(m) \in Nat
  BY <1>2 DEF IInv, IDsGiven, ID
<1>5. QED
  BY <1>3, <1>4

(* A thread inside connect, while others move. *)
LEMMA OthersConnect ==
  ASSUME NEW m \in Nodes, Connecting(m), app'[m] = app[m],
         \A k \in Nodes : ID(k) # NoID => ID(k)' = ID(k),
         protoSockets[m] \subseteq protoSockets'[m],
         m_connections'[m] = m_connections[m],
         \A k \in Nodes : ~ At(m, "idle") /\ k = app[m].server =>
           /\ Made(Dialed(m, k))' => Made(Dialed(m, k))
           /\ Is(Dialed(m, k), "INIT") => Is(Dialed(m, k), "INIT")'
           /\ Dialed(m, k) \in lost' => Dialed(m, k) \in lost
           /\ Is(Served(k, m), "RTS") <=> Is(Served(k, m), "RTS")'
  PROVE  Connecting(m)'
<1> SUFFICES ASSUME ~ At(m, "idle")
             PROVE  Connecting(m)'
  BY DEF Connecting, At
<1> DEFINE s == app[m].server
<1>1. /\ s \in Servers /\ s \in Nodes /\ s \in protoSockets'[m] /\ s # m /\ ID(m)' # NoID
      /\ app'[m].server = s
  BY DEF Connecting, Nodes
<1>2. Looking(m)'
  BY <1>1 DEF Connecting, Looking, At
<1>3. Found(m)'
  BY <1>1 DEF Connecting, Found, At
<1>4. Requested(m)'
  BY <1>1 DEF Connecting, Requested, Busy, At
<1>5. Answered(m)'
  BY <1>1 DEF Connecting, Answered, At
<1>6. QED
  BY <1>1, <1>2, <1>3, <1>4, <1>5 DEF Connecting

(* What a connect is at work on is not lost. *)
LEMMA NotLost ==
  ASSUME TypeOK, ConnectSteps, NEW n \in Nodes, ~ At(n, "idle")
  PROVE  Dialed(n, app[n].server) \notin lost
<1>1. Connecting(n) /\ lost \subseteq DOMAIN qp
  BY DEF ConnectSteps, TypeOK
<1>2. app[n].at \in {"lookup", "mark", "wait", "answered", "install", "refused"}
  BY DEF TypeOK, At
<1>3. CASE app[n].at \in {"lookup", "mark"}
  BY <1>1, <1>3 DEF Connecting, Looking, Made, At
<1>4. CASE app[n].at \in {"wait", "answered", "install", "refused"}
  BY <1>1, <1>4 DEF Connecting, Requested, Busy
<1>5. QED
  BY <1>2, <1>3, <1>4

-----------------------------------------------------------------------------
(* TypeOK, in parts. *)
OwnTyped ==
  /\ m_ownNodeID \in [Nodes -> Nat \cup {NoID}]
  /\ listening \subseteq Servers
  /\ protoSockets \in [Nodes -> SUBSET Servers]
ConnectionsTyped ==
  \A n \in Nodes : /\ DOMAIN m_connections[n] \subseteq Servers
                   /\ \A s \in DOMAIN m_connections[n] : m_connections[n][s] \in Nat
MarksTyped == \A n \in Nodes : m_NodeIDsQPs[n] \subseteq Nat /\ m_connected[n] \subseteq Nat
SlotsTyped ==
  \A n \in Nodes : /\ DOMAIN m_qps[n] \subseteq Nat
                   /\ \A id \in DOMAIN m_qps[n] : m_qps[n][id] \in DOMAIN qp
QPsTyped ==
  /\ DOMAIN qp \subseteq QueuePairs
  /\ \A q \in DOMAIN qp : qp[q] \in [state : {"RESET", "INIT", "RTR", "RTS", "DESTROYED"},
                                     remote : QueuePairs \cup {NoQP}]
  /\ lost \subseteq DOMAIN qp
Application ==
  [at : {"idle", "lookup", "mark", "wait", "answered", "install", "refused"},
   server : Servers \cup {NoQP}, tries : 0 .. Retries, answer : QueuePairs \cup {NoQP}]
AppTyped == \A n \in Nodes : app[n] \in Application
RequestsTyped ==
  \A s \in Servers : requests[s] \subseteq Request /\ serving[s] \in Request \cup {NoRequest}
CallsTyped ==
  /\ returned \in [Dials -> [result : {"none", "true", "false", "throw"}, id : Nat]]
  /\ calls \in [Dials -> Nat]
FailuresTyped == failures \in 0 .. MaxFailures

Types ==
  /\ SequencerTypeOK /\ OwnTyped /\ ConnectionsTyped /\ MarksTyped /\ SlotsTyped
  /\ QPsTyped /\ AppTyped /\ RequestsTyped /\ CallsTyped /\ FailuresTyped

LEMMA TypesInParts == (TypeOK <=> Types) /\ (TypeOK' <=> Types')
BY Zenon DEF TypeOK, Types, OwnTyped, ConnectionsTyped, MarksTyped, SlotsTyped, QPsTyped,
             Application, AppTyped, RequestsTyped, CallsTyped, FailuresTyped

(* The steps of a node's thread inside connect know the ids they use. *)
LEMMA InConnect ==
  ASSUME IInv, TypeOK, NodesTyped, ConnectSteps, NEW n \in Nodes, ~ At(n, "idle")
  PROVE  /\ app[n].server \in Servers /\ app[n].server \in Nodes /\ app[n].server # n
         /\ ID(n) \in GivenIDs /\ ID(n) \in Nat
         /\ ~ At(n, "lookup") =>
              /\ m_connections[n][app[n].server] = ID(app[n].server)
              /\ ID(app[n].server) \in GivenIDs /\ ID(app[n].server) \in Nat
              /\ ID(app[n].server) # ID(n)
<1> DEFINE s == app[n].server
<1>1. s \in Servers /\ s \in Nodes /\ s # n /\ ID(n) # NoID
  BY DEF ConnectSteps, Connecting, Nodes
<1>2. ~ At(n, "lookup") => ID(s) # NoID /\ m_connections[n][s] = ID(s)
  BY DEF ConnectSteps, Connecting, Found
<1>3. \A k \in Nodes : ID(k) # NoID => ID(k) \in GivenIDs /\ ID(k) \in Nat
  BY DEF IInv, IDsGiven, ID, GivenIDs
<1>4. ID(s) # NoID => ID(s) # ID(n)
  BY <1>1 DEF IInv, UniqueIDs, ID
<1>5. QED
  BY <1>1, <1>2, <1>3, <1>4

(* ... and connectQueue those of the node that asked. *)
LEMMA InRequest ==
  ASSUME IInv, TypeOK, Connections, NEW s \in Servers, NEW r, Waiting(s, r)
  PROVE  /\ s \in Nodes /\ r.from \in Nodes /\ r.from # s
         /\ r.id = ID(r.from) /\ r.qp = Dialed(r.from, s)
         /\ ID(r.from) # NoID /\ ID(r.from) \in GivenIDs /\ ID(r.from) \in Nat
         /\ Pending(r.from, s) \/ Dialed(r.from, s) \in lost
         /\ Made(Dialed(r.from, s)) /\ ~ Is(Dialed(r.from, s), "DESTROYED")
         /\ s \in protoSockets[r.from]
         /\ ID(s) # NoID /\ ID(s) \in Nat /\ ID(s) # ID(r.from)
         /\ r # NoRequest
<1> DEFINE n == r.from
           q == Dialed(n, s)
<1>1. /\ s \in Nodes /\ n \in Nodes /\ r.id = ID(n) /\ r.qp = q
      /\ Pending(n, s) \/ q \in lost
  BY DEF Waiting, Nodes
<1>2. Made(q) /\ ~ Is(q, "DESTROYED")
  <2>1. CASE Pending(n, s)
    BY <1>1, <2>1 DEF Connections, ConnectSteps, Connecting, Requested, Pending, Busy, At, Is
  <2>2. CASE q \in lost
    BY <2>2 DEF Connections, LostStay, TypeOK, Made
  <2>3. QED
    BY <1>1, <2>1, <2>2
<1>3. n # s /\ ID(n) # NoID /\ ID(s) # NoID /\ s \in protoSockets[n]
  BY <1>1, <1>2 DEF Connections, Exchanges, DialedInStep, Marked
<1>4. \A k \in Nodes : ID(k) # NoID => ID(k) \in GivenIDs /\ ID(k) \in Nat
  BY DEF IInv, IDsGiven, ID, GivenIDs
<1>5. ID(s) # ID(n)
  BY <1>1, <1>3 DEF IInv, UniqueIDs, ID
<1>6. r # NoRequest
  BY <1>1, Names, NoQPAssumption DEF NoRequest
<1>7. QED
  BY <1>1, <1>2, <1>3, <1>4, <1>5, <1>6

LEMMA ConnectsOn ==
  ASSUME NEW n \in Nodes, NEW s \in Servers, app'[n].server = s, s # n,
         ID(n)' # NoID, ID(s)' # NoID, s \in protoSockets'[n],
         s \in DOMAIN m_connections'[n], m_connections'[n][s] = ID(s)',
         Is(Dialed(n, s), "INIT")', Dialed(n, s) \notin lost',
         \/ /\ At(n, "answered")' \/ At(n, "install")'
            /\ app'[n].answer = Served(s, n) /\ Is(Served(s, n), "RTS")'
         \/ At(n, "refused")' /\ ~ Is(Served(s, n), "RTS")'
  PROVE  Connecting(n)'
<1>1. app'[n].at \in {"answered", "install", "refused"}
  BY DEF At
<1>2. Looking(n)'
  BY <1>1 DEF Looking, At
<1>3. Found(n)'
  BY DEF Found
<1>4. Requested(n)'
  BY DEF Requested
<1>5. Answered(n)'
  BY DEF Answered, At
<1>6. QED
  BY <1>2, <1>3, <1>4, <1>5 DEF Connecting

LEMMA IdleTyped == Idle \in Application
BY BoundsAssumption DEF Idle, Application

LEMMA ReturnsTyped ==
  ASSUME AppTyped, DOMAIN app = Nodes, NEW n \in Nodes, NEW result, NEW id \in Nat,
         result \in {"true", "false", "throw"}, CallsTyped, Return(n, result, id)
  PROVE  /\ AppTyped'
         /\ returned' \in [Dials -> [result : {"none", "true", "false", "throw"}, id : Nat]]
<1>1. app' = [app EXCEPT ![n] = Idle]
  BY DEF Return
<1>2. AppTyped'
  BY <1>1, IdleTyped DEF AppTyped
<1>3. QED
  BY <1>2 DEF Return, CallsTyped

LEMMA GoesTyped ==
  ASSUME AppTyped, DOMAIN app = Nodes, NEW n \in Nodes, NEW where, Go(n, where),
         where \in {"idle", "lookup", "mark", "wait", "answered", "install", "refused"}
  PROVE  AppTyped'
BY DEF AppTyped, Application, Go

LEMMA RepliesTyped ==
  ASSUME AppTyped, DOMAIN app = Nodes, NEW n \in Nodes, NEW answer \in QueuePairs \cup {NoQP},
         NEW s, Reply(s, n, answer)
  PROVE  AppTyped'
<1>1. CASE At(n, "wait") /\ app[n].server = s
  <2>1. app[n] \in Application
    BY DEF AppTyped
  <2>2. PICK at \in {"refused", "answered"} :
          app' = [app EXCEPT ![n] = [app[n] EXCEPT !.at = at, !.answer = answer]]
    BY <1>1, <2>1 DEF Reply, Application
  <2>3. [app[n] EXCEPT !.at = at, !.answer = answer] \in Application
    BY <2>1 DEF Application
  <2>4. QED
    BY <2>2, <2>3 DEF AppTyped
<1>2. CASE ~ (At(n, "wait") /\ app[n].server = s)
  BY <1>2 DEF AppTyped, Reply
<1>3. QED
  BY <1>1, <1>2

LEMMA SlotsStayTyped ==
  ASSUME SlotsTyped, NodesTyped, DOMAIN qp \subseteq DOMAIN qp', NEW n \in Nodes,
         NEW id \in Nat, NEW q \in DOMAIN qp, setQP(n, id, q)
  PROVE  SlotsTyped'
<1>1. CASE UNCHANGED m_qps
  BY <1>1 DEF SlotsTyped
<1>2. CASE m_qps' = [m_qps EXCEPT ![n] = Put(@, id, q)]
  BY <1>2 DEF SlotsTyped, NodesTyped, Put
<1>3. QED
  BY <1>1, <1>2 DEF setQP

LEMMA ConnectsTyped ==
  ASSUME QPsTyped, MarksTyped, NodesTyped, NEW n \in Nodes, NEW id \in Nat, NEW q \in DOMAIN qp,
         NEW remote \in QueuePairs \cup {NoQP}, connectQP(n, id, q, remote),
         UNCHANGED <<m_NodeIDsQPs, lost>>
  PROVE  QPsTyped' /\ MarksTyped' /\ DOMAIN qp' = DOMAIN qp
<1>1. MarksTyped'
  BY DEF MarksTyped, NodesTyped, connectQP
<1>2. QPsTyped' /\ DOMAIN qp' = DOMAIN qp
  BY DEF QPsTyped, connectQP
<1>3. QED
  BY <1>1, <1>2

LEMMA NumbersTyped ==
  ASSUME IInv'
  PROVE  SequencerTypeOK' /\ m_ownNodeID' \in [Nodes -> Nat \cup {NoID}]
BY DEF IInv, IDsGiven, EntriesTyped, SequencerTypeOK

LEMMA CallsCount ==
  ASSUME CallsTyped, NEW d, calls[d] > 0, calls' = [calls EXCEPT ![d] = @ - 1]
  PROVE  calls' \in [Dials -> Nat]
<1>1. CASE d \in Dials
  <2>1. calls[d] - 1 \in Nat
    BY <1>1 DEF CallsTyped
  <2>2. QED
    BY <2>1 DEF CallsTyped
<1>2. CASE d \notin Dials
  BY <1>2 DEF CallsTyped
<1>3. QED
  BY <1>1, <1>2

(* The steps that leave the queue pairs alone. *)
LEMMA LocalTypes ==
  ASSUME IInv, IInv', Types, NodesTyped, ServersKnown, ConnectSteps, NEW n \in Nodes
  PROVE  /\ \A s \in Servers : startServer(s) => Types'
         /\ Call(n) => Types'
         /\ LookupMisses(n) \/ LookupFinds(n) \/ LookupThrows(n) \/ FoundMarked(n)
              \/ BeginInstall(n) => Types'
<1>0. /\ OwnTyped /\ ConnectionsTyped /\ MarksTyped /\ SlotsTyped
      /\ QPsTyped /\ AppTyped /\ RequestsTyped /\ CallsTyped /\ FailuresTyped
      /\ DOMAIN app = Nodes /\ DOMAIN m_connections = Nodes
  BY DEF Types, NodesTyped
<1>1. /\ UNCHANGED <<qpState, requests, serving>> =>
             MarksTyped' /\ SlotsTyped' /\ QPsTyped' /\ RequestsTyped'
      /\ UNCHANGED failures => FailuresTyped'
  BY <1>0 DEF qpState, MarksTyped, SlotsTyped, QPsTyped, RequestsTyped, FailuresTyped
<1>2. UNCHANGED <<m_ownNodeID, listening, protoSockets>> => OwnTyped'
  BY <1>0 DEF OwnTyped
<1>3. ASSUME NEW s \in Servers, startServer(s)
      PROVE  Types'
  <2>1. OwnTyped'
    BY <1>0, <1>3, NumbersTyped DEF startServer, nodeState, OwnTyped
  <2>2. ConnectionsTyped' /\ AppTyped' /\ CallsTyped'
    BY <1>0, <1>3 DEF startServer, nodeState, ConnectionsTyped, AppTyped, CallsTyped
  <2>3. QED
    BY <1>1, <1>3, <2>1, <2>2, NumbersTyped DEF startServer, Types
<1>4. ASSUME NEW s \in Servers, ConnectFirst(n, s)
      PROVE  Types'
  <2>1. OwnTyped'
    BY <1>0, <1>4, NumbersTyped DEF ConnectFirst, OwnTyped
  <2>2. AppTyped'
    <3>1. [Idle EXCEPT !.at = "lookup", !.server = s] \in Application
      <4>1. \A i \in Application : [i EXCEPT !.at = "lookup", !.server = s] \in Application
        BY DEF Application
      <4>2. QED
        BY <4>1, IdleTyped
    <3>2. QED
      BY <1>0, <1>4, <3>1 DEF ConnectFirst, AppTyped
  <2>3. ConnectionsTyped' /\ CallsTyped'
    BY <1>0, <1>4, CallsCount DEF ConnectFirst, MayConnect, ConnectionsTyped, CallsTyped
  <2>4. QED
    BY <1>1, <1>4, <2>1, <2>2, <2>3, NumbersTyped DEF ConnectFirst, Types
<1>5. ASSUME NEW s \in Servers, ConnectAgain(n, s)
      PROVE  Types'
  <2>1. ConnectionsTyped' /\ m_connections'[n][s] \in Nat
    BY <1>0, <1>5 DEF ConnectAgain, ConnectionsTyped, Put
  <2>2. returned' \in [Dials -> [result : {"none", "true", "false", "throw"}, id : Nat]]
    BY <1>0, <1>5, <2>1 DEF ConnectAgain, CallsTyped
  <2>3. calls' \in [Dials -> Nat]
    BY <1>0, <1>5, CallsCount DEF ConnectAgain, MayConnect
  <2>4. AppTyped' /\ OwnTyped' /\ CallsTyped'
    BY <1>0, <1>2, <1>5, <2>2, <2>3 DEF ConnectAgain, ownState, AppTyped, CallsTyped
  <2>5. QED
    BY <1>1, <1>5, <2>1, <2>4, NumbersTyped DEF ConnectAgain, Types
<1>6. CASE LookupMisses(n)
  <2>1. AppTyped' /\ CallsTyped'
    <3>1. CASE Return(n, "false", 0) /\ UNCHANGED calls
      BY <1>0, <3>1, ReturnsTyped DEF CallsTyped
    <3>2. CASE /\ app[n].tries < Retries /\ app' = [app EXCEPT ![n].tries = @ + 1]
               /\ UNCHANGED <<returned, calls>>
      BY <1>0, <3>2, BoundsAssumption DEF AppTyped, Application, CallsTyped
    <3>3. QED
      BY <1>6, <3>1, <3>2 DEF LookupMisses
  <2>2. OwnTyped' /\ ConnectionsTyped'
    BY <1>0, <1>2, <1>6 DEF LookupMisses, ownState, nodeState, ConnectionsTyped
  <2>3. QED
    BY <1>1, <1>6, <2>1, <2>2, NumbersTyped DEF LookupMisses, Types
<1>7. CASE LookupFinds(n)
  <2>1. app[n].server \in Servers
    BY <1>7, InConnect, TypesInParts DEF LookupFinds, At
  <2>2. EntryFor(app[n].server).nodeID \in Nat
    BY <1>7, <2>1, SMTT(30) DEF LookupFinds, Known, EntryFor, IInv, IDsGiven, EntriesTyped,
       EntriesIndexed, NodeEntry
  <2>3. ConnectionsTyped'
    BY <1>0, <1>7, <2>1, <2>2 DEF LookupFinds, ConnectionsTyped, Put
  <2>4. AppTyped' /\ CallsTyped' /\ OwnTyped'
    BY <1>0, <1>2, <1>7, GoesTyped DEF LookupFinds, CallsTyped, ownState
  <2>5. QED
    BY <1>1, <1>7, <2>3, <2>4, NumbersTyped DEF LookupFinds, Types
<1>8. CASE FoundMarked(n)
  <2>1. m_connections[n][app[n].server] \in Nat
    BY <1>8, InConnect, TypesInParts DEF FoundMarked, At
  <2>2. AppTyped' /\ CallsTyped'
    BY <1>0, <1>8, <2>1, ReturnsTyped DEF FoundMarked, CallsTyped
  <2>3. OwnTyped' /\ ConnectionsTyped'
    BY <1>0, <1>2, <1>8 DEF FoundMarked, ownState, nodeState, ConnectionsTyped
  <2>4. QED
    BY <1>1, <1>8, <2>2, <2>3, NumbersTyped DEF FoundMarked, Types
<1>9. CASE BeginInstall(n)
  <2>1. AppTyped' /\ CallsTyped'
    BY <1>0, <1>9, GoesTyped DEF BeginInstall, CallsTyped
  <2>2. OwnTyped' /\ ConnectionsTyped'
    BY <1>0, <1>2, <1>9 DEF BeginInstall, ownState, nodeState, ConnectionsTyped
  <2>3. QED
    BY <1>1, <1>9, <2>1, <2>2, NumbersTyped DEF BeginInstall, Types
<1>10. CASE LookupThrows(n)
  <2>1. AppTyped' /\ CallsTyped'
    BY <1>0, <1>10, ReturnsTyped DEF LookupThrows, CallsTyped
  <2>2. OwnTyped' /\ ConnectionsTyped'
    BY <1>0, <1>2, <1>10 DEF LookupThrows, ownState, nodeState, ConnectionsTyped
  <2>3. FailuresTyped'
    BY <1>0, <1>10, BoundsAssumption DEF LookupThrows, FailuresTyped
  <2>4. QED
    BY <1>1, <1>10, <2>1, <2>2, <2>3, NumbersTyped DEF LookupThrows, Types
<1>11. QED
  BY <1>3, <1>4, <1>5, <1>6, <1>7, <1>8, <1>9, <1>10 DEF Call

(* The steps of an exchange. *)
LEMMA ExchangeTypes ==
  ASSUME IInv, IInv', Types, NodesTyped, Connections, NEW n \in Nodes,
         \/ MarkAndRequest(n) \/ MarkAndThrow(n)
         \/ FinishInstall(n) \/ InstallThrows(n)
         \/ DropQueuePair(n) \/ DropThrows(n) \/ ExchangeThrows(n)
  PROVE  Types'
<1> DEFINE s  == app[n].server
           id == m_connections[n][s]
           q  == Dialed(n, s)
<1>0. /\ OwnTyped /\ ConnectionsTyped /\ MarksTyped /\ SlotsTyped
      /\ QPsTyped /\ AppTyped /\ RequestsTyped /\ CallsTyped /\ FailuresTyped
      /\ DOMAIN app = Nodes /\ DOMAIN m_NodeIDsQPs = Nodes /\ DOMAIN requests = Servers
      /\ failures \in Nat
  BY DEF Types, NodesTyped, FailuresTyped
<1>1. UNCHANGED <<ownState, nodeState>> /\ UNCHANGED calls
  BY DEF MarkAndRequest, MarkAndThrow, FinishInstall, InstallThrows, DropQueuePair, DropThrows,
     ExchangeThrows
<1>2. OwnTyped' /\ ConnectionsTyped' /\ SequencerTypeOK'
  BY <1>0, <1>1, NumbersTyped DEF ownState, nodeState, OwnTyped, ConnectionsTyped
<1>3. ~ At(n, "idle") /\ ~ At(n, "lookup")
  BY DEF MarkAndRequest, MarkAndThrow, FinishInstall, InstallThrows, DropQueuePair, DropThrows,
     ExchangeThrows, At, Installing
<1>4. /\ s \in Servers /\ s \in Nodes /\ q \in QueuePairs
      /\ ID(n) \in Nat /\ id = ID(s) /\ id \in Nat
  BY <1>3, InConnect, TypesInParts, Names DEF Connections
<1>5. At(n, "install") => Made(q) /\ app[n].answer \in QueuePairs
  BY <1>4, Names DEF Connections, ConnectSteps, Connecting, Requested, Answered, Busy, Is, At
<1>6. At(n, "wait") \/ At(n, "answered") \/ At(n, "refused") => Made(q)
  BY <1>4 DEF Connections, ConnectSteps, Connecting, Requested, Busy, Is, At
<1>7. CASE MarkAndRequest(n)
  <2>1. SlotsTyped' /\ QPsTyped'
    BY <1>0, <1>4, <1>7 DEF MarkAndRequest, SlotsTyped, QPsTyped, Put, Dialed
  <2>2. MarksTyped'
    BY <1>0, <1>4, <1>7 DEF MarkAndRequest, MarksTyped
  <2>3. RequestsTyped'
    <3>1. [from |-> n, id |-> m_ownNodeID[n], qp |-> q] \in Request
      BY <1>4 DEF Request, ID
    <3>2. QED
      BY <1>0, <1>4, <1>7, <3>1 DEF MarkAndRequest, RequestsTyped, Dialed
  <2>4. AppTyped' /\ CallsTyped' /\ FailuresTyped'
    BY <1>0, <1>7, GoesTyped DEF MarkAndRequest, CallsTyped, FailuresTyped
  <2>5. QED
    BY <1>2, <2>1, <2>2, <2>3, <2>4 DEF Types
<1>8. CASE MarkAndThrow(n)
  <2>1. RequestsTyped' /\ FailuresTyped'
    BY <1>0, <1>8, BoundsAssumption DEF MarkAndThrow, RequestsTyped, FailuresTyped
  <2>2. SlotsTyped' /\ QPsTyped'
    BY <1>0, <1>4, <1>8 DEF MarkAndThrow, InitFails, SlotsTyped, QPsTyped, Put, Dialed
  <2>3. MarksTyped'
    BY <1>0, <1>4, <1>8 DEF MarkAndThrow, MarksTyped
  <2>4. AppTyped' /\ CallsTyped'
    BY <1>0, <1>4, <1>8, ReturnsTyped DEF MarkAndThrow, CallsTyped
  <2>5. QED
    BY <1>2, <2>1, <2>2, <2>3, <2>4 DEF Types
<1>9. CASE FinishInstall(n)
  <2>1. At(n, "install") /\ setQP(n, id, q) /\ connectQP(n, id, q, app[n].answer)
    BY <1>9 DEF FinishInstall, Installing, Dialed
  <2>2. UNCHANGED <<m_NodeIDsQPs, lost>>
    BY <1>9 DEF FinishInstall
  <2>3. QPsTyped' /\ MarksTyped' /\ DOMAIN qp' = DOMAIN qp
    BY <1>0, <1>4, <1>5, <2>1, <2>2, ConnectsTyped DEF Made
  <2>4. SlotsTyped'
    BY <1>0, <1>4, <1>5, <2>1, <2>3, SlotsStayTyped DEF Made
  <2>5. AppTyped' /\ CallsTyped'
    BY <1>0, <1>4, <1>9, ReturnsTyped DEF FinishInstall, CallsTyped
  <2>6. RequestsTyped' /\ FailuresTyped'
    BY <1>0, <1>9 DEF FinishInstall, RequestsTyped, FailuresTyped
  <2>7. QED
    BY <1>2, <2>3, <2>4, <2>5, <2>6 DEF Types
<1>10. CASE InstallThrows(n)
  <2>1. At(n, "install") /\ setQP(n, id, q)
    BY <1>10 DEF InstallThrows, Installing, Dialed
  <2>2. MarksTyped' /\ RequestsTyped' /\ FailuresTyped'
    BY <1>0, <1>10, BoundsAssumption DEF InstallThrows, MarksTyped, RequestsTyped, FailuresTyped
  <2>3. QPsTyped' /\ DOMAIN qp' = DOMAIN qp
    BY <1>0, <1>5, <1>10, <2>1 DEF InstallThrows, ConnectFails, QPsTyped, Made
  <2>4. SlotsTyped'
    BY <1>0, <1>4, <1>5, <2>1, <2>3, SlotsStayTyped DEF Made
  <2>5. AppTyped' /\ CallsTyped'
    BY <1>0, <1>4, <1>10, ReturnsTyped DEF InstallThrows, CallsTyped
  <2>6. QED
    BY <1>2, <2>2, <2>3, <2>4, <2>5 DEF Types
<1>11. CASE DropQueuePair(n) \/ DropThrows(n) \/ ExchangeThrows(n)
  <2>1. /\ Made(q)
        /\ \/ qp' = [qp EXCEPT ![q].state = "DESTROYED"] /\ UNCHANGED lost
           \/ UNCHANGED qp /\ lost' = lost \cup {q}
    BY <1>6, <1>11 DEF DropQueuePair, DropThrows, ExchangeThrows, Dialed
  <2>2. QPsTyped' /\ DOMAIN qp' = DOMAIN qp
    <3>1. CASE qp' = [qp EXCEPT ![q].state = "DESTROYED"] /\ UNCHANGED lost
      BY <1>0, <2>1, <3>1 DEF QPsTyped, Made
    <3>2. CASE UNCHANGED qp /\ lost' = lost \cup {q}
      BY <1>0, <2>1, <3>2 DEF QPsTyped, Made
    <3>3. QED
      BY <2>1, <3>1, <3>2
  <2>3. SlotsTyped' /\ MarksTyped'
    BY <1>0, <1>11, <2>2
       DEF DropQueuePair, DropThrows, ExchangeThrows, SlotsTyped, MarksTyped
  <2>4. RequestsTyped' /\ FailuresTyped'
    BY <1>0, <1>11, BoundsAssumption
       DEF DropQueuePair, DropThrows, ExchangeThrows, RequestsTyped, FailuresTyped
  <2>5. AppTyped' /\ CallsTyped'
    BY <1>0, <1>4, <1>11, ReturnsTyped DEF DropQueuePair, DropThrows, ExchangeThrows, CallsTyped
  <2>6. QED
    BY <1>2, <2>2, <2>3, <2>4, <2>5 DEF Types
<1>12. QED
  BY <1>7, <1>8, <1>9, <1>10, <1>11

LEMMA ServerTypes ==
  ASSUME IInv, IInv', Types, NodesTyped, Connections, NEW s \in Servers,
         \/ \E r \in requests[s] : BackOff(s, r) \/ BeginConnectQueue(s, r) \/ InitQPFails(s, r)
         \/ FinishConnectQueue(s) \/ ConnectQPFails(s)
  PROVE  Types'
<1>0. /\ OwnTyped /\ ConnectionsTyped /\ MarksTyped /\ SlotsTyped
      /\ QPsTyped /\ AppTyped /\ RequestsTyped /\ CallsTyped /\ FailuresTyped
      /\ DOMAIN app = Nodes /\ DOMAIN m_NodeIDsQPs = Nodes
      /\ DOMAIN requests = Servers /\ DOMAIN serving = Servers /\ s \in Nodes
      /\ failures \in Nat
  BY DEF Types, NodesTyped, Nodes, FailuresTyped
<1>1. UNCHANGED <<ownState, nodeState>> /\ UNCHANGED <<calls, returned>>
  BY DEF BackOff, BeginConnectQueue, InitQPFails, FinishConnectQueue, ConnectQPFails
<1>2. OwnTyped' /\ ConnectionsTyped' /\ SequencerTypeOK' /\ CallsTyped'
  BY <1>0, <1>1, NumbersTyped DEF ownState, nodeState, OwnTyped, ConnectionsTyped, CallsTyped
<1>3. ASSUME NEW r \in requests[s], BackOff(s, r)
      PROVE  Types'
  <2>1. r.from \in Nodes
    BY <1>3 DEF Connections, Requests, Waiting
  <2>2. AppTyped' /\ FailuresTyped'
    BY <1>0, <1>3, <2>1, RepliesTyped DEF BackOff, FailuresTyped
  <2>3. SlotsTyped' /\ QPsTyped' /\ MarksTyped'
    BY <1>0, <1>3 DEF BackOff, qpState, SlotsTyped, QPsTyped, MarksTyped
  <2>4. RequestsTyped'
    BY <1>0, <1>3 DEF BackOff, RequestsTyped
  <2>5. QED
    BY <1>2, <2>2, <2>3, <2>4 DEF Types
<1>4. ASSUME NEW r \in requests[s], BeginConnectQueue(s, r)
      PROVE  Types'
  <2>1. r.from \in Nodes /\ r.id \in Nat /\ r \in Request
    BY <1>0, InRequest, TypesInParts DEF Connections, Requests, RequestsTyped
  <2>2. Served(s, r.from) \in QueuePairs
    BY <1>0, <2>1, Names
  <2>3. AppTyped' /\ FailuresTyped'
    BY <1>0, <1>4 DEF BeginConnectQueue, AppTyped, FailuresTyped
  <2>4. SlotsTyped' /\ QPsTyped'
    BY <1>0, <1>4, <2>2 DEF BeginConnectQueue, SlotsTyped, QPsTyped, Put, Served
  <2>5. MarksTyped'
    BY <1>0, <1>4, <2>1 DEF BeginConnectQueue, MarksTyped
  <2>6. RequestsTyped'
    BY <1>0, <1>4, <2>1 DEF BeginConnectQueue, RequestsTyped
  <2>7. QED
    BY <1>2, <2>3, <2>4, <2>5, <2>6 DEF Types
<1>5. ASSUME NEW r \in requests[s], InitQPFails(s, r)
      PROVE  Types'
  <2>1. r.from \in Nodes /\ r.id \in Nat
    BY <1>0, InRequest, TypesInParts DEF Connections, Requests
  <2>2. Served(s, r.from) \in QueuePairs
    BY <1>0, <2>1, Names
  <2>3. AppTyped' /\ FailuresTyped'
    <3>1. Reply(s, r.from, NoQP)
      BY <1>5 DEF InitQPFails
    <3>2. AppTyped'
      BY <1>0, <2>1, <3>1, RepliesTyped
    <3>3. QED
      BY <1>0, <1>5, <3>2, BoundsAssumption DEF InitQPFails, FailuresTyped
  <2>4. SlotsTyped' /\ QPsTyped'
    <3>1. InitFails(Served(s, r.from)) /\ UNCHANGED m_qps
      BY <1>5 DEF InitQPFails, Served
    <3>2. CASE UNCHANGED <<qp, lost>>
      BY <1>0, <3>1, <3>2 DEF SlotsTyped, QPsTyped
    <3>3. CASE /\ qp' = Put(qp, Served(s, r.from), [state |-> "RESET", remote |-> NoQP])
               /\ lost' = lost \cup {Served(s, r.from)}
      BY <1>0, <2>2, <3>1, <3>3 DEF SlotsTyped, QPsTyped, Put
    <3>4. QED
      BY <3>1, <3>2, <3>3 DEF InitFails
  <2>5. MarksTyped'
    BY <1>0, <1>5, <2>1 DEF InitQPFails, MarksTyped
  <2>6. RequestsTyped'
    BY <1>0, <1>5 DEF InitQPFails, RequestsTyped
  <2>7. QED
    BY <1>2, <2>3, <2>4, <2>5, <2>6 DEF Types
<1>6. CASE FinishConnectQueue(s) \/ ConnectQPFails(s)
  <2> DEFINE r == serving[s]
             q == Served(s, r.from)
  <2>1. /\ r.from \in Nodes /\ r.id \in Nat /\ r.qp \in QueuePairs /\ q \in QueuePairs /\ Made(q)
    <3>1. Waiting(s, r) /\ Made(q)
      BY <1>6 DEF Connections, Requests, Is, FinishConnectQueue, ConnectQPFails
    <3>2. QED
      BY <1>0, <3>1, InRequest, TypesInParts, Names
  <2>2. setQP(s, r.id, q)
    BY <1>6 DEF FinishConnectQueue, ConnectQPFails, Served
  <2>3. RequestsTyped'
    BY <1>0, <1>6 DEF FinishConnectQueue, ConnectQPFails, RequestsTyped
  <2>4. CASE FinishConnectQueue(s)
    <3>1. connectQP(s, r.id, q, r.qp) /\ UNCHANGED <<m_NodeIDsQPs, lost>>
      BY <2>4 DEF FinishConnectQueue, Served
    <3>2. QPsTyped' /\ MarksTyped' /\ DOMAIN qp' = DOMAIN qp
      BY <1>0, <2>1, <3>1, ConnectsTyped DEF Made
    <3>3. SlotsTyped'
      BY <1>0, <2>1, <2>2, <3>2, SlotsStayTyped DEF Made
    <3>4. Reply(s, r.from, q) /\ FailuresTyped'
      BY <1>0, <2>4 DEF FinishConnectQueue, Served, FailuresTyped
    <3>5. AppTyped'
      BY <1>0, <2>1, <3>4, RepliesTyped
    <3>6. QED
      BY <1>2, <2>3, <3>2, <3>3, <3>4, <3>5 DEF Types
  <2>5. CASE ConnectQPFails(s)
    <3>1. MarksTyped' /\ FailuresTyped'
      BY <1>0, <2>5, BoundsAssumption DEF ConnectQPFails, MarksTyped, FailuresTyped
    <3>2. QPsTyped' /\ DOMAIN qp' = DOMAIN qp
      BY <1>0, <2>1, <2>5 DEF ConnectQPFails, ConnectFails, QPsTyped, Made, Served
    <3>3. SlotsTyped'
      BY <1>0, <2>1, <2>2, <3>2, SlotsStayTyped DEF Made
    <3>4. AppTyped'
      BY <1>0, <2>1, <2>5, RepliesTyped DEF ConnectQPFails
    <3>5. QED
      BY <1>2, <2>3, <3>1, <3>2, <3>3, <3>4 DEF Types
  <2>6. QED
    BY <1>6, <2>4, <2>5
<1>7. QED
  BY <1>3, <1>4, <1>5, <1>6

-----------------------------------------------------------------------------
LEMMA NodesStayTyped ==
  ASSUME IInv, IInv', TypeOK, NodesTyped, Connections, [Next]_vars
  PROVE  NodesTyped'
<1>1. \A i \in GivenIDs : i \in GivenIDs'
  BY IDsStay DEF GivenIDs
<1>2. ASSUME UNCHANGED qpState
      PROVE  \A n \in Nodes : /\ m_NodeIDsQPs'[n] \subseteq GivenIDs'
                              /\ m_connected'[n] \subseteq GivenIDs'
                              /\ DOMAIN m_qps'[n] \subseteq GivenIDs'
  BY <1>1, <1>2 DEF NodesTyped, qpState
<1>3. ASSUME NEW s \in Servers, startServer(s)
      PROVE  NodesTyped'
  BY <1>2, <1>3 DEF NodesTyped, startServer, nodeState, qpState
<1>4. ASSUME NEW n \in Nodes, Call(n)
      PROVE  NodesTyped'
  BY <1>2, <1>4 DEF NodesTyped, Call, ConnectFirst, ConnectAgain, qpState
<1>5. ASSUME NEW n \in Nodes,
             \/ LookupMisses(n) \/ LookupFinds(n) \/ LookupThrows(n)
             \/ FoundMarked(n) \/ BeginInstall(n)
      PROVE  NodesTyped'
  BY <1>2, <1>5 DEF NodesTyped, LookupMisses, LookupFinds, LookupThrows, FoundMarked, BeginInstall,
                    Go, Return, nodeState, qpState
<1>6. ASSUME NEW n \in Nodes,
             \/ MarkAndRequest(n) \/ MarkAndThrow(n)
             \/ FinishInstall(n) \/ InstallThrows(n)
             \/ DropQueuePair(n) \/ DropThrows(n) \/ ExchangeThrows(n)
      PROVE  NodesTyped'
  <2> DEFINE id == m_connections[n][app[n].server]
  <2>1. id \in GivenIDs
    BY <1>6, InConnect DEF Connections, MarkAndRequest, MarkAndThrow, FinishInstall, InstallThrows,
       DropQueuePair, DropThrows, ExchangeThrows, At, Installing
  <2>2. DOMAIN m_connections' = Nodes /\ DOMAIN app' = Nodes /\ DOMAIN requests' = Servers
        /\ DOMAIN serving' = Servers
    BY <1>6 DEF NodesTyped, MarkAndRequest, MarkAndThrow, FinishInstall, InstallThrows,
       DropQueuePair, DropThrows, ExchangeThrows, Go, Return, nodeState
  <2>3. DOMAIN m_NodeIDsQPs' = Nodes /\ \A k \in Nodes : m_NodeIDsQPs'[k] \subseteq GivenIDs'
    BY <1>1, <1>6, <2>1 DEF NodesTyped, MarkAndRequest, MarkAndThrow, FinishInstall, InstallThrows,
       DropQueuePair, DropThrows, ExchangeThrows
  <2>4. DOMAIN m_connected' = Nodes /\ \A k \in Nodes : m_connected'[k] \subseteq GivenIDs'
    BY <1>1, <1>6, <2>1 DEF NodesTyped, MarkAndRequest, MarkAndThrow, FinishInstall, InstallThrows,
       DropQueuePair, DropThrows, ExchangeThrows, connectQP
  <2>5. DOMAIN m_qps' = Nodes /\ \A k \in Nodes : DOMAIN m_qps'[k] \subseteq GivenIDs'
    BY <1>1, <1>6, <2>1 DEF NodesTyped, MarkAndRequest, MarkAndThrow, FinishInstall, InstallThrows,
       DropQueuePair, DropThrows, ExchangeThrows, setQP, Put
  <2>6. QED
    BY <2>2, <2>3, <2>4, <2>5 DEF NodesTyped
<1>7. ASSUME NEW s \in Servers, NEW r \in requests[s],
             BackOff(s, r) \/ BeginConnectQueue(s, r) \/ InitQPFails(s, r)
      PROVE  NodesTyped'
  <2>1. r.id \in GivenIDs
    BY InRequest DEF Connections, Requests
  <2>2. QED
    BY <1>1, <1>7, <2>1 DEF NodesTyped, BackOff, BeginConnectQueue, InitQPFails, Reply,
       nodeState, qpState
<1>8. ASSUME NEW s \in Servers, FinishConnectQueue(s) \/ ConnectQPFails(s)
      PROVE  NodesTyped'
  <2> DEFINE id == serving[s].id
  <2>1. id \in GivenIDs
    BY <1>8, InRequest DEF Connections, Requests, FinishConnectQueue, ConnectQPFails
  <2>2. /\ DOMAIN m_connections' = Nodes /\ DOMAIN app' = Nodes /\ DOMAIN requests' = Servers
        /\ DOMAIN serving' = Servers /\ DOMAIN m_NodeIDsQPs' = Nodes
        /\ \A k \in Nodes : m_NodeIDsQPs'[k] \subseteq GivenIDs'
    BY <1>1, <1>8 DEF NodesTyped, FinishConnectQueue, ConnectQPFails, Reply, nodeState
  <2>3. DOMAIN m_connected' = Nodes /\ \A k \in Nodes : m_connected'[k] \subseteq GivenIDs'
    BY <1>1, <1>8, <2>1 DEF NodesTyped, FinishConnectQueue, ConnectQPFails, connectQP
  <2>4. DOMAIN m_qps' = Nodes /\ \A k \in Nodes : DOMAIN m_qps'[k] \subseteq GivenIDs'
    BY <1>1, <1>8, <2>1 DEF NodesTyped, FinishConnectQueue, ConnectQPFails, setQP, Put
  <2>5. QED
    BY <2>2, <2>3, <2>4 DEF NodesTyped
<1>9. CASE UNCHANGED vars
  BY <1>2, <1>9 DEF NodesTyped, vars, nodeState, qpState
<1>10. QED
  BY <1>3, <1>4, <1>5, <1>6, <1>7, <1>8, <1>9 DEF Next, InCall, ServerThread, CallFails

(* A step that leaves exchanges alone. *)
Local ==
  /\ UNCHANGED <<qpState, requests, serving>>
  /\ failures' = 0 => failures = 0
  /\ \A n \in Nodes :
       /\ \A m \in Nodes : Busy(n, m)' <=> Busy(n, m)
       /\ At(n, "wait") => app'[n] = app[n]
       /\ At(n, "refused")' => app'[n] = app[n]

(* Every slot in use goes on being used as it was. *)
LinksKept ==
  \A n, m \in Nodes : Usable(n, m) =>
    LET q == QueuePair(n, m)
    IN Usable(n, m)' /\ QueuePair(n, m)' = q /\ qp'[q] = qp[q]

LEMMA LocalKeeps ==
  ASSUME IInv, TypeOK, NodesTyped, Connections, [Next]_vars, Grows, Local
  PROVE  /\ Exchanges' /\ Requests' /\ ConnectedIDs' /\ Slots' /\ NoneLost' /\ LostStay' /\ Succeeding'
         /\ LinksKept
<1>1. /\ \A n \in Nodes : ID(n) # NoID => ID(n)' = ID(n)
      /\ \A n \in Nodes : ID(n)' \in GivenIDs => ID(n)' = ID(n)
  BY IDsStay DEF GivenIDs
<1>2. UNCHANGED <<m_NodeIDsQPs, m_qps, m_connected, qp, lost, requests, serving>>
  BY DEF Local, qpState
<1>3. \A q, state : (Made(q)' <=> Made(q)) /\ (Is(q, state)' <=> Is(q, state))
  BY <1>2 DEF Made, Is
<1>4. Exchanges'
  <2>1. \A n, m \in Nodes : Marked(n, m) => Marked(n, m)'
    BY <1>1, <1>2 DEF Marked
  <2>2. ASSUME NEW n \in Nodes, NEW m \in Nodes
        PROVE  DialedInStep(n, m)' /\ ServedInStep(n, m)'
    <3>1. DialedInStep(n, m)'
      BY <1>2, <1>3, <2>1 DEF Connections, Exchanges, DialedInStep, Grows
    <3>2. ServedInStep(n, m)'
      BY <1>1, <1>2, <1>3, <2>1 DEF Connections, Exchanges, ServedInStep, Marked
    <3>3. QED
      BY <3>1, <3>2
  <2>3. QED
    BY <2>2 DEF Exchanges
<1>5. Requests'
  <2>1. ASSUME NEW s \in Servers, NEW r, Waiting(s, r)
        PROVE  Waiting(s, r)'
    <3>1. r.from \in Nodes /\ ID(r.from) # NoID
      BY <2>1, InRequest
    <3>2. ID(r.from)' = ID(r.from) /\ (At(r.from, "wait") => app'[r.from] = app[r.from])
      BY <1>1, <3>1 DEF Local
    <3>3. QED
      BY <1>2, <2>1, <3>1, <3>2 DEF Waiting, Pending, At
  <2>2. QED
    BY <1>2, <1>3, <2>1 DEF Connections, Requests
<1>6. ConnectedIDs'
  BY <1>1, <1>2, <1>3 DEF Connections, ConnectedIDs, NodesTyped
<1>7. \A n, m \in Nodes : ID(m) \in DOMAIN m_qps[n] \/ ID(m)' \in DOMAIN m_qps[n] =>
        ID(m)' = ID(m)
  <2>1. NoID \notin GivenIDs
    BY IDsStay, NoIDAssumption DEF GivenIDs
  <2>2. QED
    BY <1>1, <2>1 DEF NodesTyped
<1>8. \A n, m \in Nodes, q \in QueuePairs : Holds(n, m, q) => Holds(n, m, q)'
  BY <1>2, <1>7 DEF Holds
<1>9. Slots'
  BY <1>2, <1>3, <1>7, <1>8, Names, SMTT(30) DEF Connections, Slots
<1>10. NoneLost'
  <2>1. ASSUME NEW n \in Nodes, NEW m \in Nodes, ~ MayRace(n)'
        PROVE  /\ Made(Dialed(n, m))' /\ ~ Is(Dialed(n, m), "DESTROYED")' =>
                    Holds(n, m, Dialed(n, m))' \/ Busy(n, m)' \/ Dialed(n, m) \in lost'
               /\ Made(Served(n, m))' =>
                    Holds(n, m, Served(n, m))' \/ Serving(n, m)' \/ Served(n, m) \in lost'
    <3>1. ~ MayRace(n)
      BY <2>1, RacesStay
    <3>2. Serving(n, m) => Serving(n, m)'
      BY <1>2 DEF Serving
    <3>3. QED
      BY <1>2, <1>3, <1>8, <3>1, <3>2, Names DEF Local, Connections, NoneLost
  <2>2. QED
    BY <2>1 DEF NoneLost
<1>11. Succeeding'
  <2>1. SUFFICES ASSUME failures = 0, NEW n \in Nodes, NEW m \in Nodes
                 PROVE  /\ ID(m)' \in m_NodeIDsQPs[n] => Made(Dialed(n, m)) \/ Made(Served(n, m))
                        /\ Made(Dialed(n, m)) =>
                             Is(Dialed(n, m), "RTS") \/ Busy(n, m) \/ protoSockets'[m] # {}
                        /\ Busy(n, m) /\ At(n, "refused")' => protoSockets'[m] # {}
                        /\ Made(Served(n, m)) => Is(Served(n, m), "RTS") \/ Serving(n, m)
    BY <1>2, <1>3 DEF Succeeding, Serving, Local
  <2>2. ID(m)' \in m_NodeIDsQPs[n] => ID(m)' = ID(m)
    BY <1>1 DEF NodesTyped
  <2>3. protoSockets[m] # {} => protoSockets'[m] # {}
    BY DEF Grows
  <2>4. At(n, "refused")' => At(n, "refused")
    BY DEF Local, At
  <2>5. QED
    BY <2>1, <2>2, <2>3, <2>4 DEF Connections, Succeeding
<1>12. LinksKept
  BY <1>2, <1>7 DEF LinksKept, Usable, Has, QueuePair, ID
<1>13. LostStay'
  BY <1>2, <1>3 DEF Connections, LostStay
<1>14. QED
  BY <1>4, <1>5, <1>6, <1>9, <1>10, <1>11, <1>12, <1>13

LEMMA LocalSteps ==
  ASSUME IInv, TypeOK, NodesTyped, ServersKnown, Connections, NoSelfDials, [Next]_vars,
         \/ \E s \in Servers : startServer(s)
         \/ \E n \in Nodes : Call(n)
         \/ \E n \in Nodes : \/ LookupMisses(n) \/ LookupFinds(n) \/ LookupThrows(n)
                            \/ FoundMarked(n) \/ BeginInstall(n)
         \/ UNCHANGED vars
  PROVE  Local /\ ConnectSteps'
<1>0. /\ DOMAIN app = Nodes /\ DOMAIN m_connections = Nodes
      /\ \A n \in Nodes : ID(n) # NoID => ID(n)' = ID(n)
      /\ \A n \in Nodes : protoSockets[n] \subseteq protoSockets'[n]
  BY IDsStay, StepsGrow DEF NodesTyped, Grows
<1>1. ASSUME UNCHANGED qpState
      PROVE  /\ \A q, state : (Made(q)' <=> Made(q)) /\ (Is(q, state)' <=> Is(q, state))
             /\ \A m \in Nodes : app'[m] = app[m] /\ m_connections'[m] = m_connections[m] =>
                  Connecting(m)'
  <2>1. \A q, state : (Made(q)' <=> Made(q)) /\ (Is(q, state)' <=> Is(q, state))
    BY <1>1 DEF qpState, Made, Is
  <2>2. lost' = lost
    BY <1>1 DEF qpState
  <2>3. QED
    BY <1>0, <2>1, <2>2, OthersConnect DEF Connections, ConnectSteps
<1>2. ASSUME UNCHANGED <<qpState, requests, serving, failures, app, m_connections>>
      PROVE  Local /\ ConnectSteps'
  BY <1>1, <1>2 DEF Local, Busy, At, ConnectSteps
<1>3. ASSUME UNCHANGED <<qpState, requests, serving>>, failures' = 0 => failures = 0,
             NEW n \in Nodes, NEW to,
             app' = [app EXCEPT ![n] = to],
             \A m \in Nodes : m # n => m_connections'[m] = m_connections[m],
             ~ At(n, "wait") /\ to.at # "refused", \A m \in Nodes : Busy(n, m) <=> Busy(n, m)',
             Connecting(n)'
      PROVE  Local /\ ConnectSteps'
  <2>1. app'[n] = to /\ \A m \in Nodes : m # n => app'[m] = app[m]
    BY <1>0, <1>3
  <2>2. ConnectSteps'
    BY <1>1, <1>3, <2>1 DEF ConnectSteps
  <2>3. Local
    BY <1>3, <2>1 DEF Local, Busy, At
  <2>4. QED
    BY <2>2, <2>3
<1>4. ASSUME NEW s \in Servers, startServer(s)
      PROVE  Local /\ ConnectSteps'
  BY <1>2, <1>4 DEF startServer, nodeState
<1>5. ASSUME NEW n \in Nodes, Call(n)
      PROVE  Local /\ ConnectSteps'
  <2>1. PICK s \in Servers : <<n, s>> \in Dials /\ (ConnectFirst(n, s) \/ ConnectAgain(n, s))
    BY <1>5 DEF Call
  <2>2. At(n, "idle") /\ n # s
    BY <2>1 DEF ConnectFirst, ConnectAgain, MayConnect, NoSelfDials
  <2>3. CASE ConnectFirst(n, s)
    <3> DEFINE to == [Idle EXCEPT !.at = "lookup", !.server = s]
    <3>1. to.at = "lookup" /\ to.server = s
      BY DEF Idle
    <3>2. app' = [app EXCEPT ![n] = to] /\ app'[n] = to
      BY <1>0, <2>3 DEF ConnectFirst
    <3>3. s \in protoSockets'[n] /\ ~ Made(Dialed(n, s))
      <4>1. protoSockets \in [Nodes -> SUBSET Servers]
        BY DEF TypeOK
      <4>2. QED
        BY <2>3, <4>1 DEF ConnectFirst, Connections, Exchanges, DialedInStep, Nodes
    <3>4. ID(n)' # NoID
      BY <2>3, NoIDAssumption DEF ConnectFirst, requestNodeID, ID, IInv, IDsGiven
    <3>5. UNCHANGED <<qpState, requests, serving, failures, m_connections>>
      BY <2>3 DEF ConnectFirst
    <3>6. Connecting(n)'
      BY <1>1, <2>2, <3>1, <3>2, <3>3, <3>4, <3>5
         DEF Connecting, Looking, Found, Requested, Answered, Busy, At
    <3> HIDE DEF to
    <3>7. QED
      BY <1>3, <2>2, <3>1, <3>2, <3>5, <3>6 DEF At, Busy
  <2>4. CASE ConnectAgain(n, s)
    <3>1. UNCHANGED <<qpState, requests, serving, failures, app>>
      BY <2>4 DEF ConnectAgain
    <3>2. \A m \in Nodes : m # n => m_connections'[m] = m_connections[m]
      BY <1>0, <2>4 DEF ConnectAgain
    <3>3. Connecting(n)'
      BY <2>2, <3>1 DEF Connecting, At
    <3>4. Local /\ \A m \in Nodes : m # n => Connecting(m)'
      BY <1>1, <3>1, <3>2 DEF Local, Busy, At
    <3>5. QED
      BY <3>3, <3>4 DEF ConnectSteps
  <2>5. QED
    BY <2>1, <2>3, <2>4
<1>6. ASSUME NEW n \in Nodes, ~ At(n, "wait"), ~ At(n, "answered"), ~ At(n, "install"),
             ~ At(n, "refused"), NEW result, NEW id, Return(n, result, id),
             UNCHANGED <<qpState, requests, serving, m_connections>>, failures' = 0 => failures = 0
      PROVE  Local /\ ConnectSteps'
  <2>1. app' = [app EXCEPT ![n] = Idle] /\ Idle.at = "idle"
    BY <1>6 DEF Return, Idle
  <2>2. At(n, "idle")' /\ Connecting(n)'
    BY <1>0, <2>1 DEF Connecting, At
  <2>3. \A m \in Nodes : ~ Busy(n, m) /\ ~ Busy(n, m)'
    BY <1>6, <2>2 DEF Busy, At
  <2>4. QED
    BY <1>3, <1>6, <2>1, <2>2, <2>3
<1>7. ASSUME NEW n \in Nodes, LookupMisses(n)
      PROVE  Local /\ ConnectSteps'
  <2>1. At(n, "lookup") /\ UNCHANGED <<qpState, requests, serving, failures, nodeState>>
    BY <1>7 DEF LookupMisses
  <2>2. CASE Return(n, "false", 0)
    BY <1>6, <2>1, <2>2 DEF At, nodeState
  <2>3. CASE app' = [app EXCEPT ![n].tries = @ + 1]
    <3> DEFINE to == [app[n] EXCEPT !.tries = @ + 1]
    <3>1. app' = [app EXCEPT ![n] = to] /\ app'[n] = to
      BY <1>0, <2>3
    <3>2. to.at = app[n].at /\ to.server = app[n].server
      BY DEF TypeOK
    <3>3. At(n, "lookup")' /\ app'[n].server = app[n].server
      BY <2>1, <3>1, <3>2 DEF At
    <3>4. Connecting(n)'
      <4>1. /\ app[n].server \in Servers /\ app[n].server \in protoSockets[n]
            /\ app[n].server # n /\ ID(n) # NoID /\ Looking(n)
        BY <2>1 DEF Connections, ConnectSteps, Connecting, At
      <4>2. QED
        BY <1>0, <1>1, <2>1, <3>3, <4>1
           DEF Connecting, Looking, Found, Requested, Answered, Busy, At
    <3> HIDE DEF to
    <3>5. QED
      BY <1>3, <2>1, <3>1, <3>3, <3>4 DEF At, Busy, nodeState
  <2>4. QED
    BY <1>7, <2>2, <2>3 DEF LookupMisses
<1>8. ASSUME NEW n \in Nodes, LookupFinds(n)
      PROVE  Local /\ ConnectSteps'
  <2> DEFINE to == [app[n] EXCEPT !.at = "mark"]
  <2>0. PICK s : s = app[n].server
    OBVIOUS
  <2>1. /\ At(n, "lookup") /\ Known(s) /\ UNCHANGED <<qpState, requests, serving, failures>>
        /\ m_connections' = [m_connections EXCEPT ![n] = Put(@, s, EntryFor(s).nodeID)]
    BY <1>8, <2>0 DEF LookupFinds
  <2>2. /\ s \in Servers /\ s \in Nodes /\ s \in protoSockets[n]
        /\ s # n /\ ID(n) # NoID /\ ~ Made(Dialed(n, s))
    BY <2>0, <2>1 DEF Connections, ConnectSteps, Connecting, Looking, At, Nodes
  <2>3. app' = [app EXCEPT ![n] = to] /\ app'[n] = to
    BY <1>0, <1>8 DEF LookupFinds, Go
  <2>4. to.at = "mark" /\ to.server = s
    BY <2>0 DEF TypeOK
  <2>5. EntryFor(s).nodeID = ID(s) /\ ID(s) \in Nat
    <3>1. m_ipPortToNodeIDMapping[s] = ID(s)
      BY <2>1, <2>2 DEF ServersKnown
    <3>2. m_ipPortToNodeIDMapping[s] \in Nat /\ m_ipPortToNodeIDMapping[s] < Len(m_entries)
          /\ m_entries \in Seq(NodeEntry)
      BY <2>1, <2>2 DEF IInv, IDsGiven, EntriesTyped, EntriesIndexed, Known
    <3>3. m_ipPortToNodeIDMapping[s] + 1 \in DOMAIN m_entries
      BY <3>2
    <3>4. \A i \in DOMAIN m_entries : m_entries[i].nodeID = i - 1
      BY DEF IInv, EntriesIndexed
    <3>5. PICK i \in DOMAIN m_entries : i = m_ipPortToNodeIDMapping[s] + 1
      BY <3>3
    <3>6. m_entries[i].nodeID = i - 1 /\ EntryFor(s) = m_entries[i]
      BY <3>4, <3>5 DEF EntryFor
    <3>7. QED
      BY <3>1, <3>2, <3>5, <3>6
  <2>6. s \in DOMAIN m_connections'[n] /\ m_connections'[n][s] = ID(s)
    BY <1>0, <2>1, <2>5 DEF Put
  <2>7. ID(s)' = ID(s) /\ ID(s)' # NoID /\ ID(n)' # NoID
    BY <1>0, <2>2, <2>5, NoIDAssumption
  <2> HIDE DEF to
  <2>8. Connecting(n)'
    BY <1>0, <1>1, <2>1, <2>2, <2>3, <2>4, <2>6, <2>7
       DEF Connecting, Looking, Found, Requested, Answered, Busy, At
  <2>9. \A m \in Nodes : ~ Busy(n, m) /\ ~ Busy(n, m)'
    BY <2>1, <2>3, <2>4 DEF Busy, At
  <2>10. \A m \in Nodes : m # n => m_connections'[m] = m_connections[m]
    BY <1>0, <2>1
  <2>11. QED
    BY <1>3, <2>1, <2>3, <2>4, <2>8, <2>9, <2>10 DEF At
<1>9. ASSUME NEW n \in Nodes, FoundMarked(n)
      PROVE  Local /\ ConnectSteps'
  BY <1>6, <1>9 DEF FoundMarked, At, nodeState
<1>10. ASSUME NEW n \in Nodes, BeginInstall(n)
       PROVE  Local /\ ConnectSteps'
  <2> DEFINE to == [app[n] EXCEPT !.at = "install"]
  <2>1. At(n, "answered") /\ UNCHANGED <<qpState, requests, serving, failures, m_connections>>
    BY <1>10 DEF BeginInstall, nodeState
  <2>2. app' = [app EXCEPT ![n] = to] /\ app'[n] = to
    BY <1>0, <1>10 DEF BeginInstall, Go
  <2>3. to.at = "install" /\ to.server = app[n].server /\ to.answer = app[n].answer
    BY DEF TypeOK
  <2> HIDE DEF to
  <2>4. \A m \in Nodes : Busy(n, m)' <=> Busy(n, m)
    BY <2>1, <2>2, <2>3 DEF Busy, At
  <2>5. Connecting(n)
    BY DEF Connections, ConnectSteps
  <2>6. /\ app[n].server \in Servers /\ app[n].server \in protoSockets[n]
        /\ app[n].server \in Nodes /\ app[n].server # n /\ ID(n) # NoID
        /\ ID(app[n].server) # NoID /\ app[n].server \in DOMAIN m_connections[n]
        /\ m_connections[n][app[n].server] = ID(app[n].server)
        /\ Is(Dialed(n, app[n].server), "INIT")
        /\ app[n].answer = Served(app[n].server, n) /\ Is(Served(app[n].server, n), "RTS")
    BY <2>1, <2>5 DEF Connecting, Found, Requested, Answered, Busy, At, Nodes
  <2>7. Connecting(n)'
    <3>1. PICK s \in Servers : s = app[n].server
      BY <2>6
    <3>2. /\ app'[n].server = s /\ At(n, "install")' /\ app'[n].answer = Served(s, n)
      BY <2>1, <2>2, <2>3, <2>6, <3>1 DEF At
    <3>3. UNCHANGED <<protoSockets, m_connections, qp, lost>>
      BY <1>10 DEF BeginInstall, nodeState, qpState
    <3>4. ID(n)' = ID(n) /\ ID(s)' = ID(s)
      BY <1>10 DEF BeginInstall, ownState, ID
    <3>5. Is(Dialed(n, s), "INIT")' /\ Is(Served(s, n), "RTS")' /\ Dialed(n, s) \notin lost'
      BY <2>1, <2>5, <2>6, <3>1, <3>3 DEF Is, Made, Connecting, Requested, Busy, At
    <3>6. QED
      BY <2>6, <3>1, <3>2, <3>3, <3>4, <3>5, ConnectsOn
  <2>8. QED
    BY <1>3, <2>1, <2>2, <2>3, <2>4, <2>7 DEF At
<1>11. CASE UNCHANGED vars
  BY <1>2, <1>11 DEF vars, nodeState
<1>12. ASSUME NEW n \in Nodes, LookupThrows(n)
       PROVE  Local /\ ConnectSteps'
  <2>1. failures' = 0 => failures = 0
    BY <1>12, BoundsAssumption DEF LookupThrows, TypeOK
  <2>2. QED
    BY <1>6, <1>12, <2>1 DEF LookupThrows, At, nodeState
<1>13. QED
  BY <1>4, <1>5, <1>7, <1>8, <1>9, <1>10, <1>11, <1>12

-----------------------------------------------------------------------------
(* The steps of an exchange change one queue pair at most ... *)
QPsBut(q) ==
  \A p : p # q => /\ Made(p)' <=> Made(p)
                  /\ Made(p) => qp'[p] = qp[p]
                  /\ \A state : Is(p, state)' <=> Is(p, state)

LEMMA PutQP ==
  ASSUME NEW q, NEW v, qp' = Put(qp, q, v)
  PROVE  /\ QPsBut(q) /\ Made(q)' /\ qp'[q] = v
         /\ \A state : Is(q, state)' <=> v.state = state
BY DEF QPsBut, Made, Is, Put

LEMMA SameQPs ==
  ASSUME UNCHANGED qp
  PROVE  \A q, state : (Made(q)' <=> Made(q)) /\ (Is(q, state)' <=> Is(q, state))
BY DEF Made, Is

(* ... and none of the numbers. *)
Exchanging == UNCHANGED <<sequencer, ownState, nodeState, calls>>

LEMMA SameIDs ==
  ASSUME Exchanging
  PROVE  (\A n \in Nodes : ID(n)' = ID(n)) /\ UNCHANGED <<protoSockets, m_connections>>
BY DEF Exchanging, ownState, nodeState, ID

LEMMA SlotsIfSame ==
  ASSUME TypeOK, NodesTyped, Slots, Exchanging, Grows, UNCHANGED m_qps
  PROVE  /\ Slots' /\ \A n, m \in Nodes : \A q : Holds(n, m, q)' <=> Holds(n, m, q)
         /\ (\A q \in DOMAIN qp : Is(q, "RTS") => qp'[q] = qp[q]) => LinksKept
<1>1. \A n \in Nodes : ID(n)' = ID(n)
  BY SameIDs
<1>2. \A n, m \in Nodes : \A q : Holds(n, m, q)' <=> Holds(n, m, q)
  BY <1>1 DEF Holds
<1>3. Slots'
  BY <1>1, <1>2 DEF Slots, Grows, Made
<1>4. ASSUME \A q \in DOMAIN qp : Is(q, "RTS") => qp'[q] = qp[q]
      PROVE  LinksKept
  BY <1>1, <1>4 DEF LinksKept, Usable, Has, QueuePair, ID, Is, Made, TypeOK
<1>5. QED
  BY <1>2, <1>3, <1>4

(* A thread writes a slot that is free, or leaves the write to a race. *)
LEMMA SlotsIfSet ==
  ASSUME IInv, TypeOK, NodesTyped, Slots, Exchanging, Grows,
         NEW n \in Nodes, NEW m \in Nodes, ID(m) # NoID, NEW q, setQP(n, ID(m), q),
         Made(q), \A p : Holds(n, m, p) => p = q,
         \/ q = Dialed(n, m) /\ Made(Served(m, n))
         \/ q = Served(n, m)
  PROVE  /\ Slots'
         /\ \A k, l \in Nodes : \A p : Holds(k, l, p) => Holds(k, l, p)'
         /\ Holds(n, m, q)' \/ (Installing(n) /\ InConnectQueue(n))
         /\ (\A p \in DOMAIN qp : Is(p, "RTS") => qp'[p] = qp[p]) => LinksKept
<1>1. \A k \in Nodes : ID(k)' = ID(k)
  BY SameIDs
<1>2. CASE UNCHANGED m_qps /\ Installing(n) /\ InConnectQueue(n)
  BY <1>2, SlotsIfSame
<1>3. CASE m_qps' = [m_qps EXCEPT ![n] = Put(@, ID(m), q)]
  <2>1. \A k \in Nodes : k # m => ID(k) # ID(m)
    BY DEF IInv, UniqueIDs, ID
  <2>2. \A k, l \in Nodes : \A p :
          Holds(k, l, p)' <=> IF k = n /\ l = m THEN p = q ELSE Holds(k, l, p)
    BY <1>1, <1>3, <2>1 DEF Holds, NodesTyped, Put
  <2>3. \A k, l \in Nodes : ID(l)' \in DOMAIN m_qps'[k] =>
          (k = n /\ l = m) \/ ID(l) \in DOMAIN m_qps[k]
    BY <1>1, <1>3, <2>1 DEF NodesTyped, Put
  <2>4. Slots'
    BY <2>2, <2>3 DEF Slots, Grows, Made
  <2>5. \A k, l \in Nodes : \A p : Holds(k, l, p) => Holds(k, l, p)'
    BY <2>2
  <2>6. ASSUME \A p \in DOMAIN qp : Is(p, "RTS") => qp'[p] = qp[p]
        PROVE  LinksKept
    <3>1. SUFFICES ASSUME NEW k \in Nodes, NEW l \in Nodes, Usable(k, l)
                   PROVE  /\ Usable(k, l)' /\ QueuePair(k, l)' = QueuePair(k, l)
                          /\ qp'[QueuePair(k, l)] = qp[QueuePair(k, l)]
      BY DEF LinksKept
    <3>2. PICK p : p = QueuePair(k, l) /\ Holds(k, l, p) /\ Is(p, "RTS")
      BY <3>1 DEF Usable, Has, QueuePair, Holds, ID, Is, Made, TypeOK
    <3>3. Holds(k, l, p)' /\ qp'[p] = qp[p] /\ qp[p].state = "RTS"
      BY <2>5, <2>6, <3>2 DEF Is, Made
    <3>4. QED
      BY <3>2, <3>3 DEF Usable, Has, QueuePair, Holds, ID
  <2>7. QED
    BY <2>2, <2>4, <2>5, <2>6
<1>4. QED
  BY <1>2, <1>3 DEF setQP

-----------------------------------------------------------------------------
(* connect sends its request: neither end has a queue pair for it yet. *)
LEMMA RequestSent ==
  ASSUME IInv, TypeOK, NodesTyped, Connections, Grows, NEW n \in Nodes, MarkAndRequest(n)
  PROVE  Connections' /\ LinksKept
<1>0. PICK s : s = app[n].server
  OBVIOUS
<1>1. /\ s \in Servers /\ s \in Nodes /\ s # n /\ At(n, "mark") /\ s \in protoSockets[n]
      /\ ID(n) # NoID /\ ID(s) # NoID /\ m_connections[n][s] = ID(s)
      /\ s \in DOMAIN m_connections[n]
      /\ ~ Made(Dialed(n, s)) /\ ID(s) \notin m_NodeIDsQPs[n]
  BY <1>0 DEF MarkAndRequest, Connections, ConnectSteps, Connecting, Looking, Found, At, Nodes
<1>2. Exchanging /\ UNCHANGED <<m_qps, m_connected, lost, serving, failures>>
  BY DEF MarkAndRequest, Exchanging
<1>3. (\A k \in Nodes : ID(k)' = ID(k)) /\ UNCHANGED <<protoSockets, m_connections>>
  BY <1>2, SameIDs
<1>4. /\ QPsBut(Dialed(n, s)) /\ Made(Dialed(n, s))'
      /\ \A state : Is(Dialed(n, s), state)' <=> state = "INIT"
  <2>1. qp' = Put(qp, Dialed(n, s), [state |-> "INIT", remote |-> NoQP])
    BY <1>0 DEF MarkAndRequest, Dialed
  <2>2. QED
    BY <2>1, PutQP
<1>5. /\ At(n, "wait")' /\ app'[n].server = s
      /\ \A m \in Nodes : m # n => app'[m] = app[m]
  BY <1>0 DEF MarkAndRequest, Go, At, NodesTyped, TypeOK
<1>6. /\ ID(s) \in m_NodeIDsQPs'[n]
      /\ \A m \in Nodes : m_NodeIDsQPs[m] \subseteq m_NodeIDsQPs'[m]
      /\ \A m, k \in Nodes : ID(k) \in m_NodeIDsQPs'[m] =>
           (m = n /\ k = s) \/ ID(k) \in m_NodeIDsQPs[m]
  <2>1. m_NodeIDsQPs' = [m_NodeIDsQPs EXCEPT ![n] = @ \cup {ID(s)}]
    BY <1>0, <1>1 DEF MarkAndRequest
  <2>2. \A k \in Nodes : ID(k) = ID(s) => k = s
    BY <1>1 DEF IInv, UniqueIDs, ID
  <2>3. QED
    BY <2>1, <2>2 DEF NodesTyped
<1>7. ~ Made(Served(n, s)) /\ ~ Made(Served(s, n))
  BY <1>1 DEF Connections, Exchanges, ServedInStep, Marked
<1>8. /\ \A p : Made(p) => p # Dialed(n, s)
      /\ \A p \in lost : Made(p) /\ p # Dialed(n, s)
      /\ \A k, l \in Nodes : Served(k, l) # Dialed(n, s)
      /\ \A k, l \in Nodes : Dialed(k, l) = Dialed(n, s) => k = n /\ l = s
  BY <1>1, Names DEF Made, TypeOK
<1>9. ConnectSteps'
  <2>1. Connecting(n)'
    BY <1>1, <1>2, <1>3, <1>4, <1>5, <1>8 DEF Connecting, Looking, Found, Requested, Answered, Busy, At
  <2>2. ASSUME NEW m \in Nodes, m # n
        PROVE  Connecting(m)'
    BY <1>2, <1>3, <1>4, <1>5, <1>8, <2>2, OthersConnect
       DEF QPsBut, Connections, ConnectSteps
  <2>3. QED
    BY <2>1, <2>2 DEF ConnectSteps
<1>10. Exchanges'
  <2>1. \A k, l \in Nodes : Marked(k, l) => Marked(k, l)'
    BY <1>3, <1>6 DEF Marked
  <2>2. Marked(n, s)'
    BY <1>1, <1>3, <1>6 DEF Marked
  <2>3. ASSUME NEW k \in Nodes, NEW l \in Nodes
        PROVE  DialedInStep(k, l)'
    <3>1. CASE k = n /\ l = s
      BY <1>1, <1>3, <1>4, <2>2, <3>1 DEF DialedInStep
    <3>2. CASE ~ (k = n /\ l = s)
      BY <1>3, <1>4, <1>8, <2>1, <3>2 DEF QPsBut, DialedInStep, Connections, Exchanges
    <3>3. QED
      BY <3>1, <3>2
  <2>4. ASSUME NEW k \in Nodes, NEW l \in Nodes
        PROVE  ServedInStep(k, l)'
    <3>1. SUFFICES ASSUME Made(Served(k, l))
                   PROVE  ServedInStep(k, l)'
      BY <1>4, <1>8 DEF ServedInStep, QPsBut
    <3>2. ~ (k = n /\ l = s) /\ ~ (k = s /\ l = n)
      BY <1>7, <3>1
    <3>3. Dialed(k, l) # Dialed(n, s) /\ Dialed(l, k) # Dialed(n, s)
      BY <1>8, <3>2
    <3>4. QED
      BY <1>3, <1>4, <1>8, <2>1, <3>1, <3>3 DEF QPsBut, ServedInStep, Connections, Exchanges
  <2>5. QED
    BY <2>3, <2>4 DEF Exchanges
<1>11. Requests'
  <2>1. ASSUME NEW t \in Servers, NEW r, Waiting(t, r)
        PROVE  Waiting(t, r)'
    BY <1>1, <1>2, <1>3, <1>5, <2>1 DEF Waiting, Pending, At
  <2>2. ASSUME NEW t \in Servers, NEW r \in requests'[t]
        PROVE  Waiting(t, r)' /\ ~ Made(Served(t, r.from))'
    <3>1. CASE r \in requests[t]
      BY <1>4, <1>8, <2>1, <3>1, InRequest DEF Connections, Requests, QPsBut
    <3>2. CASE r \notin requests[t]
      <4>1. t = s /\ r = [from |-> n, id |-> ID(n), qp |-> Dialed(n, s)]
        BY <1>0, <1>1, <2>2, <3>2 DEF MarkAndRequest, NodesTyped, Dialed, ID
      <4>2. Waiting(t, r)'
        BY <1>3, <1>5, <4>1 DEF Waiting, Pending
      <4>3. QED
        BY <1>1, <1>4, <1>7, <1>8, <4>1, <4>2 DEF QPsBut
    <3>3. QED
      BY <3>1, <3>2
  <2>3. ASSUME NEW t \in Servers, serving[t] # NoRequest
        PROVE  Waiting(t, serving[t])' /\ Is(Served(t, serving[t].from), "INIT")'
    <3>1. Waiting(t, serving[t]) /\ Is(Served(t, serving[t].from), "INIT")
      BY <2>3 DEF Connections, Requests
    <3>2. PICK r : r = serving[t]
      OBVIOUS
    <3>3. Waiting(t, r)' /\ Is(Served(t, r.from), "INIT")'
      BY <1>4, <1>8, <2>1, <3>1, <3>2, InRequest DEF Connections, QPsBut
    <3>4. QED
      BY <1>2, <3>2, <3>3
  <2>4. QED
    BY <1>2, <2>2, <2>3 DEF Requests
<1>12. ConnectedIDs'
  BY <1>2, <1>3, <1>4, <1>8 DEF Connections, ConnectedIDs, QPsBut, Is
<1>13. Slots' /\ LinksKept /\ \A k, m \in Nodes : \A p : Holds(k, m, p)' <=> Holds(k, m, p)
  BY <1>2, <1>4, <1>8, SlotsIfSame DEF Connections, QPsBut, Made
<1>14. \A k, m \in Nodes : /\ Busy(k, m) => Busy(k, m)'
                           /\ At(k, "refused")' => At(k, "refused")
  BY <1>1, <1>5 DEF Busy, At
<1>15. Busy(n, s)'
  BY <1>5 DEF Busy, At
<1>16. \A k, m \in Nodes : Serving(k, m)' <=> Serving(k, m)
  BY <1>2 DEF Serving
<1>17. NoneLost'
  <2>1. \A k \in Nodes : ~ MayRace(k)' => ~ MayRace(k)
    BY RacesStay
  <2>2. QED
    BY <1>2, <1>4, <1>8, <1>13, <1>14, <1>15, <1>16, <2>1 DEF Connections, NoneLost, QPsBut
<1>18. Succeeding'
  <2>1. ASSUME failures = 0, NEW k \in Nodes, NEW m \in Nodes
        PROVE  /\ ID(m)' \in m_NodeIDsQPs'[k] => Made(Dialed(k, m))' \/ Made(Served(k, m))'
               /\ Made(Dialed(k, m))' =>
                    Is(Dialed(k, m), "RTS")' \/ Busy(k, m)' \/ protoSockets'[m] # {}
               /\ Busy(k, m)' /\ At(k, "refused")' => protoSockets'[m] # {}
               /\ Made(Served(k, m))' => Is(Served(k, m), "RTS")' \/ Serving(k, m)'
    BY <1>3, <1>4, <1>5, <1>6, <1>8, <1>14, <1>15, <1>16, <2>1
       DEF Connections, Succeeding, QPsBut, Busy, At
  <2>2. QED
    BY <1>2, <2>1 DEF Succeeding
<1>19. LostStay'
  BY <1>2, <1>4, <1>8 DEF Connections, LostStay, QPsBut
<1>20. QED
  BY <1>9, <1>10, <1>11, <1>12, <1>13, <1>17, <1>18, <1>19 DEF Connections

(* An error in connect before the request is sent. *)
LEMMA RequestThrown ==
  ASSUME IInv, TypeOK, NodesTyped, Connections, Grows, NEW n \in Nodes, MarkAndThrow(n)
  PROVE  Connections' /\ LinksKept
<1>0. PICK s : s = app[n].server
  OBVIOUS
<1> DEFINE q == Dialed(n, s)
<1>1. Exchanging /\ UNCHANGED <<m_qps, m_connected, requests, serving>> /\ failures' # 0
  BY DEF MarkAndThrow, Exchanging, TypeOK
<1>2. (\A k \in Nodes : ID(k)' = ID(k)) /\ UNCHANGED <<protoSockets, m_connections>>
  BY <1>1, SameIDs
<1>3. At(n, "mark") /\ At(n, "idle")' /\ \A m \in Nodes : m # n => app'[m] = app[m]
  BY DEF MarkAndThrow, Return, Idle, At, NodesTyped
<1>4. /\ s \in Servers /\ s \in Nodes /\ s # n /\ s \in protoSockets[n]
      /\ ID(n) # NoID /\ ID(s) # NoID /\ m_connections[n][s] = ID(s) /\ ~ Made(q)
  BY <1>0, <1>3 DEF Connections, ConnectSteps, Connecting, Looking, Found, At, Nodes
<1>5. /\ ID(s) \in m_NodeIDsQPs'[n]
      /\ \A m \in Nodes : m_NodeIDsQPs[m] \subseteq m_NodeIDsQPs'[m]
  BY <1>0, <1>4 DEF MarkAndThrow, NodesTyped
<1>6. /\ \A p \in lost : Made(p) /\ p # q
      /\ \A k, l \in Nodes : Served(k, l) # q
      /\ \A k, l \in Nodes : Dialed(k, l) = q => k = n /\ l = s
  BY <1>4, Names DEF Made, TypeOK
<1>7. /\ QPsBut(q) /\ \A state : Is(q, state)' => state = "RESET"
      /\ \A p \in DOMAIN qp : qp'[p] = qp[p]
      /\ lost \subseteq lost' /\ \A p \in lost' : p \in lost \/ p = q
      /\ Made(q)' => q \in lost'
  <2>1. CASE UNCHANGED <<qp, lost>>
    BY <1>4, <2>1 DEF QPsBut, Made, Is
  <2>2. CASE /\ qp' = Put(qp, q, [state |-> "RESET", remote |-> NoQP])
             /\ lost' = lost \cup {q}
    <3>1. QPsBut(q) /\ \A state : Is(q, state)' <=> state = "RESET"
      BY <2>2, PutQP
    <3>2. QED
      BY <1>4, <2>2, <3>1 DEF QPsBut, Made
  <2>3. InitFails(q)
    BY <1>0 DEF MarkAndThrow, Dialed
  <2>4. QED
    BY <2>1, <2>2, <2>3 DEF InitFails
<1> HIDE DEF q
<1>8. ConnectSteps'
  <2>1. Connecting(n)'
    BY <1>3 DEF Connecting
  <2>2. ASSUME NEW m \in Nodes, m # n
        PROVE  Connecting(m)'
    <3>1. \A k \in Nodes : Dialed(m, k) # q
      BY <1>6, <2>2
    <3>2. QED
      BY <1>2, <1>3, <1>6, <1>7, <2>2, <3>1, OthersConnect
         DEF Connections, ConnectSteps, QPsBut
  <2>3. QED
    BY <2>1, <2>2 DEF ConnectSteps
<1>9. Exchanges'
  <2>1. \A k, l \in Nodes : Marked(k, l) => Marked(k, l)'
    BY <1>2, <1>5 DEF Marked
  <2>2. Marked(n, s)'
    BY <1>2, <1>4, <1>5 DEF Marked
  <2>3. ~ Made(Served(n, s)) /\ ~ Made(Served(s, n))
    <3>1. ID(s) \notin m_NodeIDsQPs[n]
      BY <1>0, <1>4 DEF MarkAndThrow
    <3>2. QED
      BY <1>4, <3>1 DEF Connections, Exchanges, ServedInStep, Marked, q
  <2>4. ASSUME NEW k \in Nodes, NEW l \in Nodes
        PROVE  DialedInStep(k, l)'
    <3>1. CASE k = n /\ l = s
      BY <1>2, <1>4, <1>7, <2>2, <3>1 DEF DialedInStep, q
    <3>2. CASE ~ (k = n /\ l = s)
      BY <1>2, <1>6, <1>7, <2>1, <3>2 DEF QPsBut, DialedInStep, Connections, Exchanges
    <3>3. QED
      BY <3>1, <3>2
  <2>5. ASSUME NEW k \in Nodes, NEW l \in Nodes
        PROVE  ServedInStep(k, l)'
    <3>1. SUFFICES ASSUME Made(Served(k, l))
                   PROVE  ServedInStep(k, l)'
      BY <1>6, <1>7 DEF ServedInStep, QPsBut
    <3>2. Dialed(k, l) # q /\ Dialed(l, k) # q
      BY <1>6, <2>3, <3>1
    <3>3. QED
      BY <1>2, <1>6, <1>7, <2>1, <3>1, <3>2 DEF QPsBut, ServedInStep, Connections, Exchanges
  <2>6. QED
    BY <2>4, <2>5 DEF Exchanges
<1>10. Requests'
  <2>1. ASSUME NEW t \in Servers, NEW r, Waiting(t, r)
        PROVE  Waiting(t, r)' /\ r.from \in Nodes /\ t \in Nodes
    BY <1>2, <1>3, <1>7, <2>1 DEF Waiting, Pending, At, Nodes
  <2>2. \A t \in Servers : \A r \in requests'[t] : Waiting(t, r)' /\ ~ Made(Served(t, r.from))'
    BY <1>1, <1>6, <1>7, <2>1 DEF Connections, Requests, QPsBut
  <2>3. ASSUME NEW t \in Servers, serving[t] # NoRequest
        PROVE  Waiting(t, serving[t])' /\ Is(Served(t, serving[t].from), "INIT")'
    <3>1. PICK x : x = serving[t]
      OBVIOUS
    <3>2. Waiting(t, x) /\ Is(Served(t, x.from), "INIT")
      BY <2>3, <3>1 DEF Connections, Requests
    <3>3. Waiting(t, x)' /\ Is(Served(t, x.from), "INIT")'
      BY <1>6, <1>7, <2>1, <3>2 DEF QPsBut
    <3>4. QED
      BY <1>1, <3>1, <3>3
  <2>4. QED
    BY <1>1, <2>2, <2>3 DEF Requests
<1>11. ConnectedIDs'
  BY <1>1, <1>2, <1>4, <1>6, <1>7 DEF Connections, ConnectedIDs, QPsBut, Is, q
<1>12. Slots' /\ LinksKept /\ \A k, m \in Nodes : \A p : Holds(k, m, p)' <=> Holds(k, m, p)
  BY <1>1, <1>7, SlotsIfSame DEF Connections
<1>13. \A k, m \in Nodes : (Busy(k, m)' <=> Busy(k, m)) /\ (Serving(k, m)' <=> Serving(k, m))
  BY <1>1, <1>3 DEF Busy, At, Serving
<1>14. NoneLost'
  <2>1. \A k \in Nodes : ~ MayRace(k)' => ~ MayRace(k)
    BY RacesStay
  <2>2. QED
    BY <1>6, <1>7, <1>12, <1>13, <2>1 DEF Connections, NoneLost, QPsBut
<1>15. LostStay'
  BY <1>6, <1>7 DEF Connections, LostStay, QPsBut
<1>16. Succeeding'
  BY <1>1 DEF Succeeding
<1>17. QED
  BY <1>8, <1>9, <1>10, <1>11, <1>12, <1>14, <1>15, <1>16 DEF Connections

(* The server refuses, because it loses the tie-break or a verbs call *)
(* fails; in the first case it has sent a request of its own.         *)
LEMMA RequestRefused ==
  ASSUME IInv, TypeOK, NodesTyped, Connections, Grows, NEW s \in Servers, NEW r \in requests[s],
         BackOff(s, r) \/ InitQPFails(s, r)
  PROVE  Connections' /\ LinksKept
<1>0. PICK n : n = r.from
  OBVIOUS
<1> DEFINE q == Served(s, n)
<1>1. /\ Waiting(s, r) /\ s \in Nodes /\ n \in Nodes /\ n # s /\ r.id = ID(n) /\ r.qp = Dialed(n, s)
      /\ Pending(n, s) \/ Dialed(n, s) \in lost
      /\ serving[s] = NoRequest /\ ~ Made(q)
      /\ ID(n) # NoID /\ ID(n) \in Nat /\ ID(s) # NoID /\ ID(s) \in Nat /\ ID(s) # ID(n)
      /\ Made(Dialed(n, s))
  BY <1>0, InRequest DEF Connections, Requests, BackOff, InitQPFails, Receives
<1>2. Exchanging /\ UNCHANGED <<m_qps, m_connected, serving>>
  BY DEF BackOff, InitQPFails, Exchanging, qpState
<1>3. (\A k \in Nodes : ID(k)' = ID(k)) /\ UNCHANGED <<protoSockets, m_connections>>
  BY <1>2, SameIDs
<1>4. /\ \A p \in lost : Made(p) /\ p # q
      /\ \A k, l \in Nodes : Dialed(k, l) # q
      /\ \A k, l \in Nodes : Served(k, l) = q => k = s /\ l = n
  BY <1>1, Names DEF Made, TypeOK
<1>5. /\ QPsBut(q) /\ \A state : Is(q, state)' => state = "RESET"
      /\ \A p \in DOMAIN qp : qp'[p] = qp[p]
      /\ lost \subseteq lost' /\ \A p \in lost' : p \in lost \/ p = q
      /\ Made(q)' => q \in lost' /\ InitQPFails(s, r)
  <2>1. CASE UNCHANGED <<qp, lost>>
    BY <1>1, <2>1 DEF QPsBut, Made, Is
  <2>2. CASE /\ qp' = Put(qp, q, [state |-> "RESET", remote |-> NoQP])
             /\ lost' = lost \cup {q} /\ InitQPFails(s, r)
    <3>1. QPsBut(q) /\ \A state : Is(q, state)' <=> state = "RESET"
      BY <2>2, PutQP
    <3>2. QED
      BY <1>1, <2>2, <3>1 DEF QPsBut, Made
  <2>3. UNCHANGED <<qp, lost>> \/ (InitQPFails(s, r) /\ InitFails(q))
    BY <1>0 DEF BackOff, InitQPFails, Served, qpState
  <2>4. QED
    BY <2>1, <2>2, <2>3 DEF InitFails
<1>6. /\ \A m \in Nodes : m # n \/ ~ Pending(n, s) => app'[m] = app[m]
      /\ Pending(n, s) => At(n, "refused")' /\ app'[n].server = s
  <2>1. Reply(s, n, NoQP)
    BY <1>0 DEF BackOff, InitQPFails
  <2>2. CASE Pending(n, s)
    BY <1>1, <2>1, <2>2 DEF Reply, NodesTyped, TypeOK, At, Pending
  <2>3. CASE ~ Pending(n, s)
    BY <2>1, <2>3 DEF Reply, Pending
  <2>4. QED
    BY <2>2, <2>3
<1>7. /\ ID(n) \in m_NodeIDsQPs'[s]
      /\ \A m \in Nodes : m_NodeIDsQPs[m] \subseteq m_NodeIDsQPs'[m]
  BY <1>1 DEF BackOff, BacksOff, InitQPFails, NodesTyped, qpState
<1>8. Pending(n, s) =>
        /\ Is(Dialed(n, s), "INIT") /\ Dialed(n, s) \notin lost
        /\ ID(s) # NoID /\ s \in DOMAIN m_connections[n]
        /\ m_connections[n][s] = ID(s) /\ s \in protoSockets[n]
  BY <1>1 DEF Connections, ConnectSteps, Connecting, Requested, Found, Busy, At, Pending
<1> HIDE DEF q
<1>9. ConnectSteps'
  <2>1. ASSUME Pending(n, s)
        PROVE  Connecting(n)'
    <3>1. Is(Dialed(n, s), "INIT")' /\ Dialed(n, s) \notin lost' /\ ~ Is(q, "RTS")'
      BY <1>1, <1>4, <1>5, <1>8, <2>1 DEF QPsBut
    <3>2. s \in Servers /\ s # n /\ ID(n)' # NoID /\ ID(s)' # NoID
      BY <1>1, <1>3
    <3>3. QED
      BY <1>1, <1>3, <1>6, <1>8, <2>1, <3>1, <3>2, ConnectsOn DEF q
  <2>2. ASSUME NEW m \in Nodes, m # n \/ ~ Pending(n, s)
        PROVE  Connecting(m)'
    <3>1. Connecting(m) /\ app'[m] = app[m]
      BY <1>6, <2>2 DEF Connections, ConnectSteps
    <3>2. ASSUME NEW k \in Nodes
          PROVE  /\ Made(Dialed(m, k))' => Made(Dialed(m, k))
                 /\ Is(Dialed(m, k), "INIT") => Is(Dialed(m, k), "INIT")'
                 /\ Dialed(m, k) \in lost' => Dialed(m, k) \in lost
                 /\ Is(Served(k, m), "RTS") <=> Is(Served(k, m), "RTS")'
      BY <1>1, <1>4, <1>5 DEF QPsBut, Is
    <3>3. QED
      BY <1>3, <3>1, <3>2, OthersConnect
  <2>3. QED
    BY <2>1, <2>2 DEF ConnectSteps
<1>10. Exchanges'
  <2>1. \A k, l \in Nodes : Marked(k, l) => Marked(k, l)'
    BY <1>3, <1>7 DEF Marked
  <2>2. Marked(s, n)'
    BY <1>1, <1>3, <1>7 DEF Marked
  <2>3. ASSUME NEW k \in Nodes, NEW l \in Nodes
        PROVE  DialedInStep(k, l)'
    BY <1>1, <1>3, <1>4, <1>5, <2>1 DEF QPsBut, DialedInStep, Connections, Exchanges, Is
  <2>4. ASSUME NEW k \in Nodes, NEW l \in Nodes
        PROVE  ServedInStep(k, l)'
    <3>1. CASE k = s /\ l = n
      <4>1. Made(q)' /\ Made(Dialed(s, n)) => ID(s) < ID(n)
        <5>1. ASSUME Made(q)', Made(Dialed(s, n))
              PROVE  ID(s) < ID(n)
          <6>1. ID(n) \in m_NodeIDsQPs[s]
            BY <1>1, <5>1 DEF Connections, Exchanges, DialedInStep, Marked
          <6>2. ~ (ID(n) < ID(s))
            BY <1>1, <1>5, <5>1, <6>1 DEF InitQPFails, BacksOff, ID
          <6>3. QED
            BY <1>1, <6>2
        <5>2. QED
          BY <5>1
      <4>2. Made(Dialed(n, s))' /\ (Made(Dialed(s, n))' <=> Made(Dialed(s, n)))
        BY <1>1, <1>4, <1>5 DEF QPsBut
      <4>3. QED
        BY <1>3, <1>5, <2>2, <3>1, <4>1, <4>2 DEF ServedInStep, q
    <3>2. CASE ~ (k = s /\ l = n)
      BY <1>3, <1>4, <1>5, <2>1, <3>2 DEF QPsBut, ServedInStep, Connections, Exchanges, Is
    <3>3. QED
      BY <3>1, <3>2
  <2>5. QED
    BY <2>3, <2>4 DEF Exchanges
<1>11. Requests'
  <2>1. /\ \A t \in Servers : requests'[t] \subseteq requests[t]
        /\ r \notin requests'[s]
    BY DEF BackOff, InitQPFails, NodesTyped
  <2>2. ASSUME NEW t \in Servers, NEW x, Waiting(t, x), x.from # n \/ t # s
        PROVE  Waiting(t, x)' /\ x.from \in Nodes /\ t \in Nodes
    BY <1>3, <1>5, <1>6, <2>2 DEF Waiting, Pending, At, Nodes
  <2>3. ASSUME NEW t \in Servers, NEW x \in requests'[t]
        PROVE  Waiting(t, x)' /\ ~ Made(Served(t, x.from))'
    <3>1. x \in requests[t] /\ Waiting(t, x) /\ ~ Made(Served(t, x.from))
      BY <2>1 DEF Connections, Requests
    <3>2. x.from # n \/ t # s
      BY <1>0, <1>1, <2>1, <3>1 DEF Waiting
    <3>3. QED
      BY <1>4, <1>5, <2>2, <3>1, <3>2 DEF QPsBut
  <2>4. ASSUME NEW t \in Servers, serving[t] # NoRequest
        PROVE  Waiting(t, serving[t])' /\ Is(Served(t, serving[t].from), "INIT")'
    <3>1. PICK x : x = serving[t] /\ t # s
      BY <1>1, <2>4
    <3>2. Waiting(t, x) /\ Is(Served(t, x.from), "INIT")
      BY <2>4, <3>1 DEF Connections, Requests
    <3>3. Waiting(t, x)' /\ x.from \in Nodes /\ t \in Nodes
      BY <2>2, <3>1, <3>2
    <3>4. Is(Served(t, x.from), "INIT")'
      BY <1>4, <1>5, <3>1, <3>2, <3>3 DEF QPsBut
    <3>5. QED
      BY <1>2, <3>1, <3>3, <3>4
  <2>5. QED
    BY <1>2, <2>3, <2>4 DEF Requests
<1>12. ConnectedIDs'
  BY <1>1, <1>2, <1>3, <1>4, <1>5 DEF Connections, ConnectedIDs, QPsBut, Is
<1>13. Slots' /\ LinksKept /\ \A k, m \in Nodes : \A p : Holds(k, m, p)' <=> Holds(k, m, p)
  BY <1>2, <1>5, SlotsIfSame DEF Connections
<1>14. \A k, m \in Nodes : (Busy(k, m)' <=> Busy(k, m)) /\ (Serving(k, m)' <=> Serving(k, m))
  <2>1. \A k, m \in Nodes : Serving(k, m)' <=> Serving(k, m)
    BY <1>2 DEF Serving
  <2>2. \A k, m \in Nodes : Busy(k, m)' <=> Busy(k, m)
    BY <1>6 DEF Busy, At, Pending
  <2>3. QED
    BY <2>1, <2>2
<1>15. NoneLost'
  <2>1. \A k \in Nodes : ~ MayRace(k)' => ~ MayRace(k)
    BY RacesStay
  <2>2. QED
    BY <1>4, <1>5, <1>13, <1>14, <2>1 DEF Connections, NoneLost, QPsBut
<1>16. LostStay'
  BY <1>4, <1>5 DEF Connections, LostStay, QPsBut
<1>17. Succeeding'
  <2>1. CASE InitQPFails(s, r)
    BY <2>1 DEF InitQPFails, TypeOK, Succeeding
  <2>2. CASE BackOff(s, r) /\ failures # 0
    BY <2>2 DEF BackOff, Succeeding
  <2>3. CASE BackOff(s, r) /\ failures = 0
    <3>1. UNCHANGED <<m_NodeIDsQPs, qp, failures>>
      BY <2>3 DEF BackOff, qpState
    <3>2. ID(n) \in m_NodeIDsQPs[s]
      BY <1>1, <2>3 DEF BackOff, BacksOff
    <3>3. protoSockets[s] # {}
      BY <1>1, <2>3, <3>2 DEF Connections, Succeeding, Exchanges, DialedInStep, q
    <3>4. \A k, m \in Nodes : Busy(k, m)' /\ At(k, "refused")' => protoSockets[m] # {}
      <4>1. ASSUME NEW k \in Nodes, NEW m \in Nodes, Busy(k, m)', At(k, "refused")'
            PROVE  protoSockets[m] # {}
        <5>1. CASE k = n /\ Pending(n, s)
          BY <1>6, <3>3, <4>1, <5>1 DEF Busy
        <5>2. CASE k # n \/ ~ Pending(n, s)
          <6>1. app'[k] = app[k]
            BY <1>6, <4>1, <5>2
          <6>2. Busy(k, m) /\ At(k, "refused")
            BY <4>1, <6>1 DEF Busy, At
          <6>3. QED
            BY <2>3, <6>2 DEF Connections, Succeeding
        <5>3. QED
          BY <5>1, <5>2
      <4>2. QED
        BY <4>1
    <3>5. \A p, state : (Made(p)' <=> Made(p)) /\ (Is(p, state)' <=> Is(p, state))
      BY <3>1, SameQPs
    <3>6. QED
      BY <1>3, <1>14, <2>3, <3>1, <3>4, <3>5 DEF Connections, Succeeding
  <2>4. QED
    BY <2>1, <2>2, <2>3
<1>18. QED
  BY <1>9, <1>10, <1>11, <1>12, <1>13, <1>15, <1>16, <1>17 DEF Connections

(* The server serves: it has no queue pair for this request, and if it has *)
(* sent one to the same node, it has the smaller id.                       *)
LEMMA RequestServed ==
  ASSUME IInv, TypeOK, NodesTyped, Connections, Grows, NEW s \in Servers, NEW r \in requests[s],
         BeginConnectQueue(s, r)
  PROVE  Connections' /\ LinksKept
<1>0. PICK n : n = r.from
  OBVIOUS
<1>1. /\ Waiting(s, r) /\ s \in Nodes /\ n \in Nodes /\ n # s /\ r.id = ID(n) /\ r.qp = Dialed(n, s)
      /\ serving[s] = NoRequest /\ ~ Made(Served(s, n))
      /\ Made(Dialed(n, s)) /\ ~ Is(Dialed(n, s), "DESTROYED")
      /\ ID(n) # NoID /\ ID(n) \in Nat /\ ID(s) # NoID /\ ID(s) \in Nat /\ ID(s) # ID(n)
      /\ r # NoRequest
  BY <1>0, InRequest DEF Connections, Requests, BeginConnectQueue, Receives
<1>2. Exchanging /\ UNCHANGED <<m_qps, m_connected, lost, app, failures>>
  BY DEF BeginConnectQueue, Exchanging
<1>3. (\A k \in Nodes : ID(k)' = ID(k)) /\ UNCHANGED <<protoSockets, m_connections>>
  BY <1>2, SameIDs
<1>4. /\ QPsBut(Served(s, n)) /\ Made(Served(s, n))'
      /\ \A state : Is(Served(s, n), state)' <=> state = "INIT"
  <2>1. qp' = Put(qp, Served(s, n), [state |-> "INIT", remote |-> NoQP])
    BY <1>0 DEF BeginConnectQueue, Served
  <2>2. QED
    BY <2>1, PutQP
<1>5. \A p \in lost : Made(p) /\ p # Served(s, n)
  BY <1>1 DEF Made, TypeOK
<1>6. /\ ID(n) \in m_NodeIDsQPs'[s]
      /\ \A m \in Nodes : m_NodeIDsQPs[m] \subseteq m_NodeIDsQPs'[m]
      /\ \A m, k \in Nodes : ID(k) \in m_NodeIDsQPs'[m] =>
           (m = s /\ k = n) \/ ID(k) \in m_NodeIDsQPs[m]
  <2>1. m_NodeIDsQPs' = [m_NodeIDsQPs EXCEPT ![s] = @ \cup {ID(n)}]
    BY <1>1 DEF BeginConnectQueue
  <2>2. \A k \in Nodes : ID(k) = ID(n) => k = n
    BY <1>1 DEF IInv, UniqueIDs, ID
  <2>3. QED
    BY <1>1, <2>1, <2>2 DEF NodesTyped
<1>7. Made(Dialed(s, n)) => ID(s) < ID(n)
  BY <1>1 DEF BeginConnectQueue, BacksOff, ID, Connections, Exchanges, DialedInStep, Marked
<1>8. /\ \A k, l \in Nodes : Dialed(k, l) # Served(s, n)
      /\ \A k, l \in Nodes : Served(k, l) = Served(s, n) => k = s /\ l = n
  BY <1>1, Names
<1>9. ConnectSteps'
  <2>1. ASSUME NEW m \in Nodes
        PROVE  Connecting(m)'
    BY <1>1, <1>2, <1>3, <1>4, <1>8, OthersConnect DEF QPsBut, Connections, ConnectSteps, Is
  <2>2. QED
    BY <2>1 DEF ConnectSteps
<1>10. Exchanges'
  <2>1. \A k, l \in Nodes : Marked(k, l) => Marked(k, l)'
    BY <1>3, <1>6 DEF Marked
  <2>2. Marked(s, n)'
    BY <1>1, <1>3, <1>6 DEF Marked
  <2>3. ASSUME NEW k \in Nodes, NEW l \in Nodes
        PROVE  DialedInStep(k, l)'
    BY <1>1, <1>3, <1>4, <1>8, <2>1 DEF QPsBut, DialedInStep, Connections, Exchanges, Is
  <2>4. ASSUME NEW k \in Nodes, NEW l \in Nodes
        PROVE  ServedInStep(k, l)'
    <3>1. CASE k = s /\ l = n
      BY <1>1, <1>3, <1>4, <1>5, <1>7, <1>8, <2>2, <3>1 DEF QPsBut, ServedInStep, Is
    <3>2. CASE ~ (k = s /\ l = n)
      BY <1>3, <1>4, <1>8, <2>1, <3>2 DEF QPsBut, ServedInStep, Connections, Exchanges, Is
    <3>3. QED
      BY <3>1, <3>2
  <2>5. QED
    BY <2>3, <2>4 DEF Exchanges
<1>11. Requests'
  <2>1. /\ \A t \in Servers : requests'[t] \subseteq requests[t]
        /\ r \notin requests'[s]
        /\ serving'[s] = r /\ \A t \in Servers : t # s => serving'[t] = serving[t]
    BY DEF BeginConnectQueue, NodesTyped
  <2>2. ASSUME NEW t \in Servers, NEW x, Waiting(t, x)
        PROVE  Waiting(t, x)' /\ x.from \in Nodes
    BY <1>2, <1>3, <2>2 DEF Waiting, Pending, At
  <2>3. ASSUME NEW t \in Servers, NEW x \in requests'[t]
        PROVE  Waiting(t, x)' /\ ~ Made(Served(t, x.from))'
    <3>1. x \in requests[t] /\ Waiting(t, x) /\ ~ Made(Served(t, x.from))
      BY <2>1 DEF Connections, Requests
    <3>2. x.from # n \/ t # s
      BY <1>0, <1>1, <2>1, <3>1 DEF Waiting
    <3>3. QED
      BY <1>4, <1>8, <2>2, <3>1, <3>2 DEF QPsBut, Nodes
  <2>4. ASSUME NEW t \in Servers, serving'[t] # NoRequest
        PROVE  Waiting(t, serving[t])' /\ Is(Served(t, serving[t].from), "INIT")'
    <3>1. CASE t = s
      BY <1>0, <1>1, <1>4, <2>1, <2>2, <3>1
    <3>2. CASE t # s
      <4>1. PICK x : x = serving[t] /\ x = serving'[t]
        BY <2>1, <3>2
      <4>2. Waiting(t, x) /\ Is(Served(t, x.from), "INIT")
        BY <2>4, <4>1 DEF Connections, Requests
      <4>3. Waiting(t, x)' /\ Is(Served(t, x.from), "INIT")'
        BY <1>4, <1>8, <2>2, <3>2, <4>2 DEF QPsBut, Nodes
      <4>4. QED
        BY <4>1, <4>3
    <3>3. QED
      BY <3>1, <3>2
  <2>5. QED
    BY <2>3, <2>4 DEF Requests
<1>12. ConnectedIDs'
  BY <1>1, <1>2, <1>3, <1>4, <1>8 DEF Connections, ConnectedIDs, QPsBut, Is
<1>13. Slots' /\ LinksKept /\ \A k, m \in Nodes : \A p : Holds(k, m, p)' <=> Holds(k, m, p)
  BY <1>1, <1>2, <1>4, SlotsIfSame DEF Connections, QPsBut, Made
<1>14. /\ \A k, m \in Nodes : Busy(k, m)' <=> Busy(k, m)
       /\ \A k, m \in Nodes : Serving(k, m) => Serving(k, m)'
       /\ Serving(s, n)'
  <2>1. serving'[s] = r /\ \A t \in Servers : t # s => serving'[t] = serving[t]
    BY DEF BeginConnectQueue, NodesTyped
  <2>2. QED
    BY <1>0, <1>1, <1>2, <2>1 DEF Busy, At, Serving
<1>15. NoneLost'
  <2>1. \A k \in Nodes : ~ MayRace(k)' => ~ MayRace(k)
    BY RacesStay
  <2>2. QED
    BY <1>2, <1>4, <1>8, <1>13, <1>14, <2>1 DEF Connections, NoneLost, QPsBut
<1>16. Succeeding'
  <2>1. ASSUME failures = 0, NEW k \in Nodes, NEW m \in Nodes
        PROVE  /\ ID(m)' \in m_NodeIDsQPs'[k] => Made(Dialed(k, m))' \/ Made(Served(k, m))'
               /\ Made(Dialed(k, m))' =>
                    Is(Dialed(k, m), "RTS")' \/ Busy(k, m)' \/ protoSockets'[m] # {}
               /\ Busy(k, m)' /\ At(k, "refused")' => protoSockets'[m] # {}
               /\ Made(Served(k, m))' => Is(Served(k, m), "RTS")' \/ Serving(k, m)'
    BY <1>2, <1>3, <1>4, <1>6, <1>8, <1>14, <2>1 DEF Connections, Succeeding, QPsBut, At
  <2>2. QED
    BY <1>2, <2>1 DEF Succeeding
<1>17. LostStay'
  BY <1>2, <1>4, <1>5 DEF Connections, LostStay, QPsBut
<1>18. QED
  BY <1>9, <1>10, <1>11, <1>12, <1>13, <1>15, <1>16, <1>17 DEF Connections

(* The server has finished: the slot is free, since of two nodes only one *)
(* serves the other.                                                      *)
LEMMA RequestFinished ==
  ASSUME IInv, TypeOK, NodesTyped, Connections, Grows, NEW s \in Servers,
         FinishConnectQueue(s) \/ ConnectQPFails(s)
  PROVE  Connections' /\ LinksKept
<1>0. PICK r, n : r = serving[s] /\ n = r.from
  OBVIOUS
<1> DEFINE q == Served(s, n)
<1>1. /\ Waiting(s, r) /\ s \in Nodes /\ n \in Nodes /\ n # s /\ r.id = ID(n) /\ r.qp = Dialed(n, s)
      /\ Pending(n, s) \/ Dialed(n, s) \in lost
      /\ Is(q, "INIT") /\ r # NoRequest /\ ID(n) # NoID /\ ID(s) # NoID
      /\ Made(Dialed(n, s)) /\ ~ Is(Dialed(n, s), "DESTROYED")
  BY <1>0, InRequest DEF Connections, Requests, FinishConnectQueue, ConnectQPFails
<1>2. Exchanging /\ UNCHANGED <<m_NodeIDsQPs, lost, requests>>
  BY DEF FinishConnectQueue, ConnectQPFails, Exchanging
<1>3. (\A k \in Nodes : ID(k)' = ID(k)) /\ UNCHANGED <<protoSockets, m_connections>>
  BY <1>2, SameIDs
<1>4. ~ Made(Served(n, s)) /\ Made(q)
  BY <1>1, NotBoth DEF Connections, Is
<1>5. /\ \A k, l \in Nodes : Dialed(k, l) # q
      /\ \A k, l \in Nodes : Served(k, l) = q => k = s /\ l = n
  BY <1>1, Names
<1>6. ID(n) \notin m_connected[s]
  BY <1>1, <1>4, <1>5 DEF Connections, ConnectedIDs, Exchanges, DialedInStep, Is
<1>7. /\ serving'[s] = NoRequest
      /\ \A t \in Servers : t # s => serving'[t] = serving[t]
  BY DEF FinishConnectQueue, ConnectQPFails, NodesTyped
<1>8. /\ \A m \in Nodes : m # n \/ ~ Pending(n, s) => app'[m] = app[m]
      /\ Pending(n, s) =>
           /\ app'[n].server = s
           /\ FinishConnectQueue(s) => At(n, "answered")' /\ app'[n].answer = q
           /\ ConnectQPFails(s) => At(n, "refused")'
  <2>1. /\ FinishConnectQueue(s) => Reply(s, n, q)
        /\ ConnectQPFails(s) => Reply(s, n, NoQP)
    BY <1>0 DEF FinishConnectQueue, ConnectQPFails, Served
  <2>2. q # NoQP
    BY <1>1, Names, NoQPAssumption
  <2>3. CASE Pending(n, s)
    BY <1>1, <2>1, <2>2, <2>3 DEF Reply, NodesTyped, TypeOK, At, Pending
  <2>4. CASE ~ Pending(n, s)
    BY <2>1, <2>4 DEF Reply, Pending
  <2>5. QED
    BY <2>3, <2>4
<1>9. /\ QPsBut(q) /\ Made(q)' /\ ~ Is(q, "DESTROYED")'
      /\ FinishConnectQueue(s) => Is(q, "RTS")' /\ qp'[q].remote = Dialed(n, s)
      /\ ConnectQPFails(s) => ~ Is(q, "RTS")' /\ failures' # 0
      /\ \A p \in DOMAIN qp : Is(p, "RTS") => qp'[p] = qp[p]
  <2>1. CASE FinishConnectQueue(s)
    <3>1. qp' = [qp EXCEPT ![q] = [state |-> "RTS", remote |-> Dialed(n, s)]]
      BY <1>0, <1>1, <1>6, <2>1 DEF FinishConnectQueue, connectQP, Served
    <3>2. ~ ConnectQPFails(s)
      BY <2>1 DEF FinishConnectQueue, ConnectQPFails, TypeOK
    <3>3. QED
      BY <1>1, <1>4, <3>1, <3>2 DEF QPsBut, Made, Is
  <2>2. CASE ConnectQPFails(s) /\ ~ FinishConnectQueue(s)
    <3>1. \/ UNCHANGED qp
          \/ qp' = [qp EXCEPT ![q] = [state |-> "RTR", remote |-> r.qp]]
      BY <1>0, <2>2 DEF ConnectQPFails, ConnectFails, Served
    <3>2. failures' # 0
      BY <2>2 DEF ConnectQPFails, TypeOK
    <3>3. QED
      BY <1>1, <1>4, <2>2, <3>1, <3>2 DEF QPsBut, Made, Is
  <2>3. QED
    BY <2>1, <2>2
<1>10. \A k \in Nodes : \A i \in m_connected'[k] :
         i \in m_connected[k] \/ (k = s /\ i = ID(n) /\ FinishConnectQueue(s))
  BY <1>0, <1>1 DEF FinishConnectQueue, ConnectQPFails, connectQP, NodesTyped
<1>11. /\ Slots' /\ LinksKept
       /\ \A k, l \in Nodes : \A p : Holds(k, l, p) => Holds(k, l, p)'
       /\ Holds(s, n, q)' \/ (Installing(s) /\ InConnectQueue(s))
  <2>1. setQP(s, ID(n), q)
    BY <1>0, <1>1 DEF FinishConnectQueue, ConnectQPFails, Served
  <2>2. \A p : Holds(s, n, p) => p = q
    BY <1>1, <1>4 DEF Connections, Slots, Holds
  <2>3. Slots
    BY DEF Connections
  <2> HIDE DEF q
  <2>4. QED
    BY <1>1, <1>2, <1>4, <1>9, <2>1, <2>2, <2>3, SlotsIfSet DEF q
<1>12. Installing(s) => MayRace(s)
  <2>1. SUFFICES ASSUME At(s, "install")
                 PROVE  MayRace(s)
    BY DEF Installing
  <2>2. PICK t : t = app[s].server
    OBVIOUS
  <2>3. /\ t \in Nodes /\ t \in protoSockets[s] /\ Made(Dialed(s, t)) /\ Made(Served(t, s))
    BY <1>1, <2>1, <2>2
       DEF Connections, ConnectSteps, Connecting, Requested, Answered, Busy, At, Is, Nodes
  <2>4. t # n
    BY <1>4, <2>3
  <2>5. QED
    BY <1>1, <1>4, <2>3, <2>4, Races
<1>13. Pending(n, s) =>
         /\ Is(Dialed(n, s), "INIT") /\ Dialed(n, s) \notin lost
         /\ s \in DOMAIN m_connections[n] /\ m_connections[n][s] = ID(s)
         /\ s \in protoSockets[n]
  BY <1>1 DEF Connections, ConnectSteps, Connecting, Requested, Found, Busy, At, Pending
<1> HIDE DEF q
<1>14. ConnectSteps'
  <2>1. ASSUME Pending(n, s)
        PROVE  Connecting(n)'
    <3>1. Is(Dialed(n, s), "INIT")' /\ Dialed(n, s) \notin lost'
      BY <1>1, <1>2, <1>5, <1>9, <1>13, <2>1 DEF QPsBut
    <3>2. s \in Servers /\ s # n /\ ID(n)' # NoID /\ ID(s)' # NoID
      BY <1>1, <1>3
    <3>3. CASE FinishConnectQueue(s)
      BY <1>1, <1>3, <1>8, <1>9, <1>13, <2>1, <3>1, <3>2, <3>3, ConnectsOn DEF q
    <3>4. CASE ConnectQPFails(s)
      BY <1>1, <1>3, <1>8, <1>9, <1>13, <2>1, <3>1, <3>2, <3>4, ConnectsOn DEF q
    <3>5. QED
      BY <3>3, <3>4
  <2>2. ASSUME NEW m \in Nodes, m # n \/ ~ Pending(n, s)
        PROVE  Connecting(m)'
    <3>1. Connecting(m) /\ app'[m] = app[m]
      BY <1>8, <2>2 DEF Connections, ConnectSteps
    <3>2. ASSUME NEW k \in Nodes, ~ At(m, "idle"), k = app[m].server
          PROVE  /\ Made(Dialed(m, k))' => Made(Dialed(m, k))
                 /\ Is(Dialed(m, k), "INIT") => Is(Dialed(m, k), "INIT")'
                 /\ Dialed(m, k) \in lost' => Dialed(m, k) \in lost
                 /\ Is(Served(k, m), "RTS") <=> Is(Served(k, m), "RTS")'
      <4>1. Dialed(m, k) \notin lost
        BY <3>2, NotLost DEF Connections
      <4>2. Served(k, m) # q
        BY <1>1, <1>5, <2>2, <4>1
      <4>3. QED
        BY <1>2, <1>5, <1>9, <4>2 DEF QPsBut
    <3>3. QED
      BY <1>3, <3>1, <3>2, OthersConnect
  <2>3. QED
    BY <2>1, <2>2 DEF ConnectSteps
<1>15. Exchanges'
  <2>1. \A k, l \in Nodes : Marked(k, l) => Marked(k, l)'
    BY <1>2, <1>3 DEF Marked
  <2>2. ASSUME NEW k \in Nodes, NEW l \in Nodes
        PROVE  DialedInStep(k, l)'
    <3>1. CASE k = n /\ l = s
      <4>1. ~ Is(Dialed(n, s), "RTS")
        <5>1. ~ Is(q, "RTS")
          BY <1>1 DEF Is
        <5>2. QED
          BY <1>1, <5>1 DEF Connections, Exchanges, DialedInStep, q
      <4>2. ~ Is(Dialed(n, s), "RTS")' /\ (Made(Dialed(n, s))' => Made(Dialed(n, s)))
        BY <1>1, <1>5, <1>9, <4>1 DEF QPsBut
      <4>3. QED
        BY <1>1, <1>3, <2>1, <3>1, <4>2 DEF DialedInStep, Connections, Exchanges
    <3>2. CASE ~ (k = n /\ l = s)
      BY <1>3, <1>5, <1>9, <2>1, <3>2 DEF QPsBut, DialedInStep, Connections, Exchanges, Is
    <3>3. QED
      BY <3>1, <3>2
  <2>3. ASSUME NEW k \in Nodes, NEW l \in Nodes
        PROVE  ServedInStep(k, l)'
    <3>1. CASE k = s /\ l = n
      <4>1. Is(q, "RTS")' => qp'[q].remote = Dialed(n, s)
        BY <1>9
      <4>2. /\ Made(Dialed(n, s))' /\ ~ Is(Dialed(n, s), "DESTROYED")'
            /\ Made(Dialed(s, n))' <=> Made(Dialed(s, n))
        BY <1>1, <1>5, <1>9 DEF QPsBut
      <4>3. Marked(s, n)' /\ (Made(Dialed(s, n)) => ID(s) < ID(n))
        BY <1>1, <1>4, <2>1 DEF Connections, Exchanges, ServedInStep, q
      <4>4. QED
        BY <1>3, <1>9, <3>1, <4>1, <4>2, <4>3 DEF ServedInStep, q
    <3>2. CASE ~ (k = s /\ l = n)
      BY <1>3, <1>5, <1>9, <2>1, <3>2 DEF QPsBut, ServedInStep, Connections, Exchanges, Is
    <3>3. QED
      BY <3>1, <3>2
  <2>4. QED
    BY <2>2, <2>3 DEF Exchanges
<1>16. Requests'
  <2>1. ASSUME NEW t \in Servers, NEW x, Waiting(t, x), x.from # n \/ t # s
        PROVE  Waiting(t, x)'
    BY <1>2, <1>3, <1>8, <2>1 DEF Waiting, Pending, At
  <2>2. ASSUME NEW t \in Servers, NEW x \in requests'[t]
        PROVE  Waiting(t, x)' /\ ~ Made(Served(t, x.from))'
    <3>1. x \in requests[t] /\ Waiting(t, x) /\ ~ Made(Served(t, x.from))
      BY <1>2, <2>2 DEF Connections, Requests
    <3>2. x.from # n \/ t # s
      BY <1>4, <3>1 DEF q
    <3>3. QED
      BY <1>5, <1>9, <2>1, <3>1, <3>2 DEF QPsBut, Waiting, Nodes
  <2>3. ASSUME NEW t \in Servers, serving'[t] # NoRequest
        PROVE  Waiting(t, serving[t])' /\ Is(Served(t, serving[t].from), "INIT")'
    <3>1. PICK x : x = serving[t] /\ x = serving'[t] /\ t # s
      BY <1>7, <2>3
    <3>2. Waiting(t, x) /\ Is(Served(t, x.from), "INIT")
      BY <2>3, <3>1 DEF Connections, Requests
    <3>4. Waiting(t, x)' /\ x.from \in Nodes /\ t \in Nodes
      BY <2>1, <3>1, <3>2 DEF Waiting, Nodes
    <3>5. Is(Served(t, x.from), "INIT")'
      BY <1>5, <1>9, <3>1, <3>2, <3>4 DEF QPsBut
    <3>6. QED
      BY <3>1, <3>4, <3>5
  <2>4. QED
    BY <2>2, <2>3 DEF Requests
<1>17. ConnectedIDs'
  <2>1. ASSUME NEW k \in Nodes, NEW m \in Nodes, ID(m) \in m_connected'[k]
        PROVE  Is(Dialed(k, m), "RTS")' \/ Is(Served(k, m), "RTS")'
    <3>1. CASE ID(m) \in m_connected[k]
      BY <1>1, <1>5, <1>9, <3>1 DEF Connections, ConnectedIDs, QPsBut, Is
    <3>2. CASE k = s /\ ID(m) = ID(n) /\ FinishConnectQueue(s)
      BY <1>1, <1>9, <3>2 DEF IInv, UniqueIDs, ID, q
    <3>3. QED
      BY <1>10, <2>1, <3>1, <3>2
  <2>2. QED
    BY <1>3, <2>1 DEF ConnectedIDs
<1>18. \A k, m \in Nodes : Busy(k, m)' <=> Busy(k, m)
  BY <1>8 DEF Busy, At, Pending
<1>19. \A k, m \in Nodes : Serving(k, m) => Serving(k, m)' \/ (k = s /\ m = n)
  BY <1>0, <1>7 DEF Serving, NodesTyped
<1>20. NoneLost'
  <2>1. \A k \in Nodes : ~ MayRace(k)' => ~ MayRace(k)
    BY RacesStay
  <2>2. ~ MayRace(s) => Holds(s, n, q)'
    BY <1>11, <1>12
  <2>3. \A k, m \in Nodes : ~ MayRace(k) /\ Made(Served(k, m)) =>
          Holds(k, m, Served(k, m))' \/ Serving(k, m)' \/ Served(k, m) \in lost'
    BY <1>2, <1>11, <1>19, <2>2 DEF Connections, NoneLost, q
  <2>4. \A k, m \in Nodes : ~ MayRace(k) /\ Made(Dialed(k, m)) /\ ~ Is(Dialed(k, m), "DESTROYED") =>
          Holds(k, m, Dialed(k, m))' \/ Busy(k, m)' \/ Dialed(k, m) \in lost'
    BY <1>2, <1>11, <1>18 DEF Connections, NoneLost
  <2>5. \A k, m \in Nodes :
          /\ Made(Served(k, m))' => Made(Served(k, m))
          /\ Made(Dialed(k, m))' => Made(Dialed(k, m))
          /\ Is(Dialed(k, m), "DESTROYED") => Is(Dialed(k, m), "DESTROYED")'
    BY <1>4, <1>5, <1>9 DEF QPsBut, q
  <2>6. QED
    BY <2>1, <2>3, <2>4, <2>5 DEF NoneLost
<1>21. Succeeding'
  <2>1. CASE ConnectQPFails(s)
    BY <1>9, <2>1 DEF Succeeding
  <2>2. CASE FinishConnectQueue(s) /\ failures # 0
    BY <2>2 DEF FinishConnectQueue, Succeeding
  <2>3. CASE FinishConnectQueue(s) /\ failures = 0
    <3>1. ASSUME NEW k \in Nodes, NEW m \in Nodes
          PROVE  /\ ID(m)' \in m_NodeIDsQPs'[k] => Made(Dialed(k, m))' \/ Made(Served(k, m))'
                 /\ Made(Dialed(k, m))' =>
                      Is(Dialed(k, m), "RTS")' \/ Busy(k, m)' \/ protoSockets'[m] # {}
                 /\ Busy(k, m)' /\ At(k, "refused")' => protoSockets'[m] # {}
                 /\ Made(Served(k, m))' => Is(Served(k, m), "RTS")' \/ Serving(k, m)'
      <4>1. ID(m)' \in m_NodeIDsQPs'[k] => Made(Dialed(k, m))' \/ Made(Served(k, m))'
        BY <1>2, <1>3, <1>5, <1>9, <2>3 DEF Connections, Succeeding, QPsBut
      <4>2. Made(Dialed(k, m))' =>
              Is(Dialed(k, m), "RTS")' \/ Busy(k, m)' \/ protoSockets'[m] # {}
        BY <1>3, <1>5, <1>9, <1>18, <2>3 DEF Connections, Succeeding, QPsBut
      <4>3. Busy(k, m)' /\ At(k, "refused")' => protoSockets'[m] # {}
        BY <1>3, <1>8, <1>18, <2>3 DEF Connections, Succeeding, At, Pending
      <4>4. Made(Served(k, m))' => Is(Served(k, m), "RTS")' \/ Serving(k, m)'
        BY <1>5, <1>9, <1>19, <2>3 DEF Connections, Succeeding, QPsBut, q
      <4>5. QED
        BY <4>1, <4>2, <4>3, <4>4
    <3>2. QED
      BY <3>1 DEF Succeeding
  <2>4. QED
    BY <2>1, <2>2, <2>3
<1>22. LostStay'
  BY <1>2, <1>9 DEF Connections, LostStay, QPsBut
<1>23. QED
  BY <1>11, <1>14, <1>15, <1>16, <1>17, <1>20, <1>21, <1>22 DEF Connections

(* connect is answered: here too the slot is free. *)
LEMMA AnswerInstalled ==
  ASSUME IInv, TypeOK, NodesTyped, Connections, Grows, NEW n \in Nodes,
         FinishInstall(n) \/ InstallThrows(n)
  PROVE  Connections' /\ LinksKept
<1>0. PICK s : s = app[n].server
  OBVIOUS
<1> DEFINE q == Dialed(n, s)
<1>1. /\ At(n, "install") /\ s \in Servers /\ s \in Nodes /\ s # n /\ s \in protoSockets[n]
      /\ ID(n) # NoID /\ ID(s) # NoID /\ m_connections[n][s] = ID(s)
      /\ Is(q, "INIT") /\ app[n].answer = Served(s, n) /\ Is(Served(s, n), "RTS")
  BY <1>0 DEF FinishInstall, InstallThrows, Installing, Connections, ConnectSteps, Connecting,
              Found, Requested, Answered, Busy, At, Nodes
<1>2. Exchanging /\ UNCHANGED <<m_NodeIDsQPs, lost, requests, serving>>
  BY DEF FinishInstall, InstallThrows, Exchanging
<1>3. (\A k \in Nodes : ID(k)' = ID(k)) /\ UNCHANGED <<protoSockets, m_connections>>
  BY <1>2, SameIDs
<1>4. ~ Made(Served(n, s)) /\ Made(q) /\ Made(Served(s, n))
  BY <1>1, NotBoth DEF Connections, Is
<1>5. /\ \A k, l \in Nodes : Served(k, l) # q
      /\ \A k, l \in Nodes : Dialed(k, l) = q => k = n /\ l = s
  BY <1>1, Names
<1>6. ID(s) \notin m_connected[n]
  BY <1>1, <1>4, <1>5 DEF Connections, ConnectedIDs, Is
<1>7. /\ At(n, "idle")'
      /\ \A m \in Nodes : m # n => app'[m] = app[m]
  BY DEF FinishInstall, InstallThrows, Return, Idle, At, NodesTyped
<1>8. /\ QPsBut(q) /\ Made(q)' /\ ~ Is(q, "DESTROYED")'
      /\ FinishInstall(n) => Is(q, "RTS")' /\ qp'[q].remote = Served(s, n)
      /\ InstallThrows(n) => ~ Is(q, "RTS")' /\ failures' # 0
      /\ \A p \in DOMAIN qp : Is(p, "RTS") => qp'[p] = qp[p]
  <2>1. CASE FinishInstall(n)
    <3>1. qp' = [qp EXCEPT ![q] = [state |-> "RTS", remote |-> Served(s, n)]]
      BY <1>0, <1>1, <1>6, <2>1 DEF FinishInstall, connectQP, Dialed
    <3>2. ~ InstallThrows(n)
      BY <2>1 DEF FinishInstall, InstallThrows, TypeOK
    <3>3. QED
      BY <1>1, <1>4, <3>1, <3>2 DEF QPsBut, Made, Is
  <2>2. CASE InstallThrows(n) /\ ~ FinishInstall(n)
    <3>1. \/ UNCHANGED qp
          \/ qp' = [qp EXCEPT ![q] = [state |-> "RTR", remote |-> app[n].answer]]
      BY <1>0, <2>2 DEF InstallThrows, ConnectFails, Dialed
    <3>2. failures' # 0
      BY <2>2 DEF InstallThrows, TypeOK
    <3>3. QED
      BY <1>1, <1>4, <2>2, <3>1, <3>2 DEF QPsBut, Made, Is
  <2>3. QED
    BY <2>1, <2>2
<1>9. \A k \in Nodes : \A i \in m_connected'[k] :
        i \in m_connected[k] \/ (k = n /\ i = ID(s) /\ FinishInstall(n))
  BY <1>0, <1>1 DEF FinishInstall, InstallThrows, connectQP, NodesTyped
<1>10. /\ Slots' /\ LinksKept
       /\ \A k, l \in Nodes : \A p : Holds(k, l, p) => Holds(k, l, p)'
       /\ Holds(n, s, q)' \/ (Installing(n) /\ InConnectQueue(n))
  <2>1. setQP(n, ID(s), q)
    BY <1>0, <1>1 DEF FinishInstall, InstallThrows, Dialed
  <2>2. \A p : Holds(n, s, p) => p = q
    BY <1>1, <1>4 DEF Connections, Slots, Holds
  <2>3. Slots
    BY DEF Connections
  <2> HIDE DEF q
  <2>4. QED
    BY <1>1, <1>2, <1>4, <1>8, <2>1, <2>2, <2>3, SlotsIfSet DEF q
<1>11. InConnectQueue(n) => MayRace(n)
  <2>1. SUFFICES ASSUME n \in Servers, serving[n] # NoRequest
                 PROVE  MayRace(n)
    BY DEF InConnectQueue
  <2>2. PICK m : m = serving[n].from
    OBVIOUS
  <2>3. m \in Nodes /\ Made(Served(n, m))
    BY <2>1, <2>2 DEF Connections, Requests, Waiting, Is
  <2>4. m # s
    BY <1>4, <2>3
  <2>5. QED
    BY <1>1, <1>4, <2>1, <2>3, <2>4, Races
<1> HIDE DEF q
<1>12. ConnectSteps'
  <2>1. Connecting(n)'
    BY <1>7 DEF Connecting
  <2>2. ASSUME NEW m \in Nodes, m # n
        PROVE  Connecting(m)'
    BY <1>2, <1>3, <1>5, <1>7, <1>8, <2>2, OthersConnect DEF Connections, ConnectSteps, QPsBut
  <2>3. QED
    BY <2>1, <2>2 DEF ConnectSteps
<1>13. Exchanges'
  <2>1. \A k, l \in Nodes : Marked(k, l) => Marked(k, l)'
    BY <1>2, <1>3 DEF Marked
  <2>2. ASSUME NEW k \in Nodes, NEW l \in Nodes
        PROVE  DialedInStep(k, l)'
    <3>1. CASE k = n /\ l = s
      <4>1. Is(q, "RTS")' => qp'[q].remote = Served(s, n)
        BY <1>8
      <4>2. Is(Served(s, n), "RTS")'
        BY <1>1, <1>5, <1>8 DEF QPsBut
      <4>3. Marked(n, s)'
        BY <1>1, <1>4, <2>1 DEF Connections, Exchanges, DialedInStep, q
      <4>4. QED
        BY <1>1, <1>3, <3>1, <4>1, <4>2, <4>3 DEF DialedInStep, q
    <3>2. CASE ~ (k = n /\ l = s)
      BY <1>3, <1>5, <1>8, <2>1, <3>2 DEF QPsBut, DialedInStep, Connections, Exchanges, Is
    <3>3. QED
      BY <3>1, <3>2
  <2>3. ASSUME NEW k \in Nodes, NEW l \in Nodes
        PROVE  ServedInStep(k, l)'
    <3>1. /\ Made(Dialed(k, l))' <=> Made(Dialed(k, l))
          /\ Made(Dialed(l, k))' <=> Made(Dialed(l, k))
          /\ Is(Dialed(l, k), "DESTROYED")' => Is(Dialed(l, k), "DESTROYED")
      BY <1>4, <1>8 DEF QPsBut
    <3>2. QED
      BY <1>3, <1>5, <1>8, <2>1, <3>1 DEF QPsBut, ServedInStep, Connections, Exchanges, Is
  <2>4. QED
    BY <2>2, <2>3 DEF Exchanges
<1>14. Requests'
  <2>1. ASSUME NEW t \in Servers, NEW r, Waiting(t, r)
        PROVE  Waiting(t, r)' /\ r.from \in Nodes /\ t \in Nodes
    BY <1>1, <1>2, <1>3, <1>7, <2>1 DEF Waiting, Pending, At, Nodes
  <2>2. \A t \in Servers : \A r \in requests'[t] : Waiting(t, r)' /\ ~ Made(Served(t, r.from))'
    BY <1>2, <1>5, <1>8, <2>1 DEF Connections, Requests, QPsBut
  <2>3. ASSUME NEW t \in Servers, serving[t] # NoRequest
        PROVE  Waiting(t, serving[t])' /\ Is(Served(t, serving[t].from), "INIT")'
    <3>1. PICK x : x = serving[t]
      OBVIOUS
    <3>2. Waiting(t, x) /\ Is(Served(t, x.from), "INIT")
      BY <2>3, <3>1 DEF Connections, Requests
    <3>3. Waiting(t, x)' /\ Is(Served(t, x.from), "INIT")'
      BY <1>5, <1>8, <2>1, <3>2 DEF QPsBut
    <3>4. QED
      BY <1>2, <3>1, <3>3
  <2>4. QED
    BY <1>2, <2>2, <2>3 DEF Requests
<1>15. ConnectedIDs'
  <2>1. ASSUME NEW k \in Nodes, NEW m \in Nodes, ID(m) \in m_connected'[k]
        PROVE  Is(Dialed(k, m), "RTS")' \/ Is(Served(k, m), "RTS")'
    <3>1. CASE ID(m) \in m_connected[k]
      BY <1>1, <1>5, <1>8, <3>1 DEF Connections, ConnectedIDs, QPsBut, Is
    <3>2. CASE k = n /\ ID(m) = ID(s) /\ FinishInstall(n)
      BY <1>1, <1>8, <3>2 DEF IInv, UniqueIDs, ID, q
    <3>3. QED
      BY <1>9, <2>1, <3>1, <3>2
  <2>2. QED
    BY <1>3, <2>1 DEF ConnectedIDs
<1>16. /\ \A k, m \in Nodes : Busy(k, m) => Busy(k, m)' \/ (k = n /\ m = s)
       /\ \A k, m \in Nodes : Busy(k, m)' => Busy(k, m)
       /\ \A k \in Nodes : At(k, "refused")' => At(k, "refused")
       /\ \A k, m \in Nodes : Serving(k, m)' <=> Serving(k, m)
  BY <1>0, <1>2, <1>7 DEF Busy, At, Serving
<1>17. NoneLost'
  <2>1. \A k \in Nodes : ~ MayRace(k)' => ~ MayRace(k)
    BY RacesStay
  <2>2. ~ MayRace(n) => Holds(n, s, q)'
    BY <1>10, <1>11
  <2>3. \A k, m \in Nodes : ~ MayRace(k) /\ Made(Served(k, m)) =>
          Holds(k, m, Served(k, m))' \/ Serving(k, m)' \/ Served(k, m) \in lost'
    BY <1>2, <1>10, <1>16 DEF Connections, NoneLost
  <2>4. \A k, m \in Nodes : ~ MayRace(k) /\ Made(Dialed(k, m)) /\ ~ Is(Dialed(k, m), "DESTROYED") =>
          Holds(k, m, Dialed(k, m))' \/ Busy(k, m)' \/ Dialed(k, m) \in lost'
    BY <1>2, <1>10, <1>16, <2>2 DEF Connections, NoneLost, q
  <2>5. \A k, m \in Nodes :
          /\ Made(Served(k, m))' => Made(Served(k, m))
          /\ Made(Dialed(k, m))' => Made(Dialed(k, m))
          /\ Is(Dialed(k, m), "DESTROYED") => Is(Dialed(k, m), "DESTROYED")'
    <3>1. ~ Is(q, "DESTROYED")
      BY <1>1 DEF Is, q
    <3>2. QED
      BY <1>4, <1>5, <1>8, <3>1 DEF QPsBut
  <2>6. QED
    BY <2>1, <2>3, <2>4, <2>5 DEF NoneLost
<1>18. Succeeding'
  <2>1. CASE InstallThrows(n)
    BY <1>8, <2>1 DEF Succeeding
  <2>2. CASE FinishInstall(n) /\ failures # 0
    BY <2>2 DEF FinishInstall, Succeeding
  <2>3. CASE FinishInstall(n) /\ failures = 0
    <3>1. ASSUME NEW k \in Nodes, NEW m \in Nodes
          PROVE  /\ ID(m)' \in m_NodeIDsQPs'[k] => Made(Dialed(k, m))' \/ Made(Served(k, m))'
                 /\ Made(Dialed(k, m))' =>
                      Is(Dialed(k, m), "RTS")' \/ Busy(k, m)' \/ protoSockets'[m] # {}
                 /\ Busy(k, m)' /\ At(k, "refused")' => protoSockets'[m] # {}
                 /\ Made(Served(k, m))' => Is(Served(k, m), "RTS")' \/ Serving(k, m)'
      <4>1. ID(m)' \in m_NodeIDsQPs'[k] => Made(Dialed(k, m))' \/ Made(Served(k, m))'
        BY <1>2, <1>3, <1>4, <1>5, <1>8, <2>3 DEF Connections, Succeeding, QPsBut
      <4>2. Made(Dialed(k, m))' =>
              Is(Dialed(k, m), "RTS")' \/ Busy(k, m)' \/ protoSockets'[m] # {}
        BY <1>3, <1>5, <1>8, <1>16, <2>3 DEF Connections, Succeeding, QPsBut, q
      <4>3. Busy(k, m)' /\ At(k, "refused")' => protoSockets'[m] # {}
        BY <1>3, <1>16, <2>3 DEF Connections, Succeeding
      <4>4. Made(Served(k, m))' => Is(Served(k, m), "RTS")' \/ Serving(k, m)'
        BY <1>5, <1>8, <1>16, <2>3 DEF Connections, Succeeding, QPsBut
      <4>5. QED
        BY <4>1, <4>2, <4>3, <4>4
    <3>2. QED
      BY <3>1 DEF Succeeding
  <2>4. QED
    BY <2>1, <2>2, <2>3
<1>19. LostStay'
  BY <1>2, <1>8 DEF Connections, LostStay, QPsBut
<1>20. QED
  BY <1>10, <1>12, <1>13, <1>14, <1>15, <1>17, <1>18, <1>19 DEF Connections

(* ... or refused: the queue pair of the request goes.  Or the exchange or *)
(* its destruction fails: then it may be left.                             *)
LEMMA ExchangeEnded ==
  ASSUME IInv, TypeOK, NodesTyped, Connections, Grows, NEW n \in Nodes,
         DropQueuePair(n) \/ DropThrows(n) \/ ExchangeThrows(n)
  PROVE  Connections' /\ LinksKept
<1>0. PICK s : s = app[n].server
  OBVIOUS
<1> DEFINE q == Dialed(n, s)
<1>1. /\ At(n, "wait") \/ At(n, "answered") \/ At(n, "refused")
      /\ s \in Servers /\ s \in Nodes /\ s # n
      /\ Is(q, "INIT") /\ Made(q) /\ q \notin lost
      /\ At(n, "refused") => ~ Is(Served(s, n), "RTS")
  BY <1>0 DEF DropQueuePair, DropThrows, ExchangeThrows, Connections, ConnectSteps, Connecting,
              Requested, Answered, Busy, At, Is, Nodes
<1>2. Exchanging /\ UNCHANGED <<m_NodeIDsQPs, m_qps, m_connected, serving>>
  BY DEF DropQueuePair, DropThrows, ExchangeThrows, Exchanging
<1>3. (\A k \in Nodes : ID(k)' = ID(k)) /\ UNCHANGED <<protoSockets, m_connections>>
  BY <1>2, SameIDs
<1>4. /\ \A k, l \in Nodes : Served(k, l) # q
      /\ \A k, l \in Nodes : Dialed(k, l) = q => k = n /\ l = s
  BY <1>1, Names
<1>5. /\ At(n, "idle")'
      /\ \A m \in Nodes : m # n => app'[m] = app[m]
  BY DEF DropQueuePair, DropThrows, ExchangeThrows, Return, Idle, At, NodesTyped
<1>6. /\ QPsBut(q) /\ Made(q)' /\ \A p \in DOMAIN qp : Is(p, "RTS") => qp'[p] = qp[p]
      /\ \/ At(n, "refused") /\ Is(q, "DESTROYED")' /\ UNCHANGED lost
         \/ Is(q, "INIT")' /\ lost' = lost \cup {q}
      /\ ~ Is(q, "RTS")'
  <2>1. CASE At(n, "refused") /\ qp' = [qp EXCEPT ![q].state = "DESTROYED"] /\ UNCHANGED lost
    <3>1. Made(q) /\ qp[q] \in [state : {"RESET", "INIT", "RTR", "RTS", "DESTROYED"},
                                remote : QueuePairs \cup {NoQP}]
      BY <1>1 DEF Made, TypeOK
    <3> HIDE DEF q
    <3>2. QED
      BY <1>1, <2>1, <3>1 DEF QPsBut, Made, Is
  <2>2. CASE UNCHANGED qp /\ lost' = lost \cup {q}
    BY <1>1, <2>2 DEF QPsBut, Made, Is
  <2>3. QED
    BY <1>0, <2>1, <2>2 DEF DropQueuePair, DropThrows, ExchangeThrows, Dialed
<1>7. \A t \in Servers : requests'[t] \subseteq requests[t]
  BY DEF DropQueuePair, DropThrows, ExchangeThrows, NodesTyped
<1>8. failures' = 0 => failures = 0 /\ At(n, "refused")
  BY DEF DropQueuePair, DropThrows, ExchangeThrows, TypeOK
<1> HIDE DEF q
<1>9. ConnectSteps'
  <2>1. Connecting(n)'
    BY <1>5 DEF Connecting
  <2>2. ASSUME NEW m \in Nodes, m # n
        PROVE  Connecting(m)'
    <3>1. \A k \in Nodes : Dialed(m, k) # q /\ (Dialed(m, k) \in lost' => Dialed(m, k) \in lost)
      BY <1>4, <1>6, <2>2
    <3>2. QED
      BY <1>3, <1>4, <1>5, <1>6, <2>2, <3>1, OthersConnect
         DEF Connections, ConnectSteps, QPsBut
  <2>3. QED
    BY <2>1, <2>2 DEF ConnectSteps
<1>10. Exchanges'
  <2>1. \A k, l \in Nodes : Marked(k, l) => Marked(k, l)'
    BY <1>2, <1>3 DEF Marked
  <2>2. ASSUME NEW k \in Nodes, NEW l \in Nodes
        PROVE  DialedInStep(k, l)'
    <3>1. CASE k = n /\ l = s
      BY <1>1, <1>3, <1>6, <2>1, <3>1 DEF DialedInStep, Connections, Exchanges, q
    <3>2. CASE ~ (k = n /\ l = s)
      BY <1>3, <1>4, <1>6, <2>1, <3>2 DEF QPsBut, DialedInStep, Connections, Exchanges, Is
    <3>3. QED
      BY <3>1, <3>2
  <2>3. ASSUME NEW k \in Nodes, NEW l \in Nodes
        PROVE  ServedInStep(k, l)'
    <3>1. /\ Made(Dialed(k, l))' <=> Made(Dialed(k, l))
          /\ Made(Dialed(l, k))' <=> Made(Dialed(l, k))
      BY <1>1, <1>6 DEF QPsBut
    <3>2. Is(Dialed(l, k), "DESTROYED")' =>
            \/ Is(Dialed(l, k), "DESTROYED")
            \/ l = n /\ k = s /\ ~ Is(Served(k, l), "RTS")
      <4>1. CASE Dialed(l, k) = q
        <5>1. ~ (Is(q, "INIT")' /\ Is(q, "DESTROYED")')
          BY DEF Is
        <5>2. QED
          BY <1>1, <1>4, <1>6, <4>1, <5>1
      <4>2. CASE Dialed(l, k) # q
        BY <1>6, <4>2 DEF QPsBut
      <4>3. QED
        BY <4>1, <4>2
    <3>3. QED
      BY <1>3, <1>4, <1>6, <2>1, <3>1, <3>2 DEF QPsBut, ServedInStep, Connections, Exchanges, Is
  <2>4. QED
    BY <2>2, <2>3 DEF Exchanges
<1>11. Requests'
  <2>1. ASSUME NEW t \in Servers, NEW r, Waiting(t, r), ~ (At(n, "refused") /\ r.from = n /\ t = s)
        PROVE  Waiting(t, r)' /\ r.from \in Nodes /\ t \in Nodes
    <3>1. r.from \in Nodes /\ t \in Nodes /\ ID(r.from)' = ID(r.from)
      BY <1>3, <2>1 DEF Waiting, Nodes
    <3>2. Pending(r.from, t)' \/ Dialed(r.from, t) \in lost'
      <4>1. CASE Dialed(r.from, t) \in lost
        BY <1>6, <4>1
      <4>2. CASE Pending(r.from, t) /\ r.from # n
        BY <1>5, <3>1, <4>2 DEF Pending, At
      <4>3. CASE Pending(r.from, t) /\ r.from = n
        BY <1>0, <1>6, <4>3 DEF Pending, At, q
      <4>4. QED
        BY <2>1, <4>1, <4>2, <4>3 DEF Waiting
    <3>3. QED
      BY <2>1, <3>1, <3>2 DEF Waiting
  <2>2. ASSUME NEW t \in Servers, NEW r, Waiting(t, r)
        PROVE  ~ (At(n, "refused") /\ r.from = n /\ t = s)
    BY <1>1, <2>2 DEF Waiting, Pending, At, q
  <2>3. \A t \in Servers : \A r \in requests'[t] : Waiting(t, r)' /\ ~ Made(Served(t, r.from))'
    BY <1>4, <1>6, <1>7, <2>1, <2>2 DEF Connections, Requests, QPsBut
  <2>4. ASSUME NEW t \in Servers, serving[t] # NoRequest
        PROVE  Waiting(t, serving[t])' /\ Is(Served(t, serving[t].from), "INIT")'
    <3>1. PICK x : x = serving[t]
      OBVIOUS
    <3>2. Waiting(t, x) /\ Is(Served(t, x.from), "INIT")
      BY <2>4, <3>1 DEF Connections, Requests
    <3>3. Waiting(t, x)' /\ Is(Served(t, x.from), "INIT")'
      BY <1>4, <1>6, <2>1, <2>2, <3>2 DEF QPsBut
    <3>4. QED
      BY <1>2, <3>1, <3>3
  <2>5. QED
    BY <1>2, <2>3, <2>4 DEF Requests
<1>12. ConnectedIDs'
  <2>1. ~ Is(q, "RTS")
    BY <1>1 DEF Is
  <2>2. QED
    BY <1>2, <1>3, <1>4, <1>6, <2>1 DEF Connections, ConnectedIDs, QPsBut
<1>13. Slots' /\ LinksKept /\ \A k, m \in Nodes : \A p : Holds(k, m, p)' <=> Holds(k, m, p)
  BY <1>2, <1>6, SlotsIfSame DEF Connections
<1>14. /\ \A k, m \in Nodes : Busy(k, m) => Busy(k, m)' \/ (k = n /\ m = s)
       /\ \A k, m \in Nodes : Busy(k, m)' => Busy(k, m)
       /\ \A k \in Nodes : At(k, "refused")' => At(k, "refused")
       /\ \A k, m \in Nodes : Serving(k, m)' <=> Serving(k, m)
  BY <1>0, <1>2, <1>5 DEF Busy, At, Serving
<1>15. NoneLost'
  <2>1. \A k \in Nodes : ~ MayRace(k)' => ~ MayRace(k)
    BY RacesStay
  <2>2. \A k, m \in Nodes :
          /\ Made(Served(k, m))' => Made(Served(k, m))
          /\ Made(Dialed(k, m))' => Made(Dialed(k, m))
          /\ ~ (k = n /\ m = s) =>
               (Is(Dialed(k, m), "DESTROYED") <=> Is(Dialed(k, m), "DESTROYED")')
    BY <1>1, <1>4, <1>6 DEF QPsBut
  <2>3. lost \subseteq lost' /\ (Is(Dialed(n, s), "DESTROYED")' \/ Dialed(n, s) \in lost')
    BY <1>6 DEF q
  <2>4. QED
    BY <1>13, <1>14, <2>1, <2>2, <2>3 DEF Connections, NoneLost
<1>16. LostStay'
  <2>1. ASSUME NEW p \in lost'
        PROVE  ~ Is(p, "DESTROYED")'
    <3>1. CASE p = q
      <4>1. Is(q, "INIT")'
        BY <1>1, <1>6, <2>1, <3>1
      <4>2. QED
        BY <3>1, <4>1 DEF Is
    <3>2. CASE p # q
      BY <1>6, <2>1, <3>2 DEF Connections, LostStay, QPsBut
    <3>3. QED
      BY <3>1, <3>2
  <2>2. QED
    BY <2>1 DEF LostStay
<1>17. Succeeding'
  <2>1. ASSUME failures' = 0, NEW k \in Nodes, NEW m \in Nodes
        PROVE  /\ ID(m)' \in m_NodeIDsQPs'[k] => Made(Dialed(k, m))' \/ Made(Served(k, m))'
               /\ Made(Dialed(k, m))' =>
                    Is(Dialed(k, m), "RTS")' \/ Busy(k, m)' \/ protoSockets'[m] # {}
               /\ Busy(k, m)' /\ At(k, "refused")' => protoSockets'[m] # {}
               /\ Made(Served(k, m))' => Is(Served(k, m), "RTS")' \/ Serving(k, m)'
    <3>0. failures = 0 /\ At(n, "refused")
      BY <1>8, <2>1
    <3>1. protoSockets[s] # {}
      BY <1>0, <1>1, <3>0 DEF Connections, Succeeding, Busy, At
    <3>2. ID(m)' \in m_NodeIDsQPs'[k] => Made(Dialed(k, m))' \/ Made(Served(k, m))'
      BY <1>2, <1>3, <1>4, <1>6, <3>0 DEF Connections, Succeeding, QPsBut
    <3>3. Made(Dialed(k, m))' =>
            Is(Dialed(k, m), "RTS")' \/ Busy(k, m)' \/ protoSockets'[m] # {}
      <4>1. CASE k = n /\ m = s
        BY <1>3, <3>1, <4>1
      <4>2. CASE ~ (k = n /\ m = s)
        BY <1>3, <1>4, <1>6, <1>14, <3>0, <4>2 DEF Connections, Succeeding, QPsBut
      <4>3. QED
        BY <4>1, <4>2
    <3>4. Busy(k, m)' /\ At(k, "refused")' => protoSockets'[m] # {}
      BY <1>3, <1>14, <3>0 DEF Connections, Succeeding
    <3>5. Made(Served(k, m))' => Is(Served(k, m), "RTS")' \/ Serving(k, m)'
      BY <1>4, <1>6, <1>14, <3>0 DEF Connections, Succeeding, QPsBut
    <3>6. QED
      BY <3>2, <3>3, <3>4, <3>5
  <2>2. QED
    BY <2>1 DEF Succeeding
<1>18. QED
  BY <1>9, <1>10, <1>11, <1>12, <1>13, <1>15, <1>16, <1>17 DEF Connections

-----------------------------------------------------------------------------
LEMMA ConnectStep ==
  ASSUME NoSelfDials, IInv, ConnectInv, [Next]_vars
  PROVE  ConnectInv' /\ LinksKept
<1>1. IInv' /\ TypeOK /\ Types /\ NodesTyped /\ ServersKnown /\ Connections /\ ConnectSteps
  BY NextKeepsInvariant, TypesInParts DEF ConnectInv, Connections
<1>2. Grows /\ NodesTyped' /\ ServersKnown' /\ FewLost'
  BY <1>1, StepsGrow, NodesStayTyped, ServersStayKnown, LostAreFew DEF ConnectInv
<1>3. CASE \/ \E s \in Servers : startServer(s)
           \/ \E n \in Nodes : Call(n)
           \/ \E n \in Nodes : \/ LookupMisses(n) \/ LookupFinds(n) \/ LookupThrows(n)
                               \/ FoundMarked(n) \/ BeginInstall(n)
           \/ UNCHANGED vars
  <2>1. Local /\ ConnectSteps'
    BY <1>1, <1>3, LocalSteps
  <2>2. Connections' /\ LinksKept
    BY <1>1, <1>2, <2>1, LocalKeeps DEF Connections
  <2>3. TypeOK'
    <3>1. CASE UNCHANGED vars
      BY <1>1, <3>1 DEF vars, ownState, nodeState, qpState, sequencer, TypeOK, SequencerTypeOK
    <3>2. ASSUME NEW n \in Nodes,
                 \/ \E s \in Servers : startServer(s)
                 \/ Call(n)
                 \/ LookupMisses(n) \/ LookupFinds(n) \/ LookupThrows(n)
                 \/ FoundMarked(n) \/ BeginInstall(n)
          PROVE  TypeOK'
      BY <1>1, <3>2, LocalTypes, TypesInParts
    <3>3. QED
      BY <1>3, <3>1, <3>2 DEF Nodes
  <2>4. QED
    BY <1>2, <2>2, <2>3 DEF ConnectInv
<1>4. ASSUME NEW n \in Nodes,
             \/ MarkAndRequest(n) \/ MarkAndThrow(n)
             \/ FinishInstall(n) \/ InstallThrows(n)
             \/ DropQueuePair(n) \/ DropThrows(n) \/ ExchangeThrows(n)
      PROVE  ConnectInv' /\ LinksKept
  <2>1. TypeOK'
    BY <1>1, <1>4, ExchangeTypes, TypesInParts
  <2>2. Connections' /\ LinksKept
    BY <1>1, <1>2, <1>4, RequestSent, RequestThrown, AnswerInstalled, ExchangeEnded
  <2>3. QED
    BY <1>2, <2>1, <2>2 DEF ConnectInv
<1>5. ASSUME NEW s \in Servers,
             \/ \E r \in requests[s] : \/ BackOff(s, r) \/ BeginConnectQueue(s, r)
                                       \/ InitQPFails(s, r)
             \/ FinishConnectQueue(s) \/ ConnectQPFails(s)
      PROVE  ConnectInv' /\ LinksKept
  <2>1. TypeOK'
    BY <1>1, <1>5, ServerTypes, TypesInParts
  <2>2. Connections' /\ LinksKept
    BY <1>1, <1>2, <1>5, RequestRefused, RequestServed, RequestFinished
  <2>3. QED
    BY <1>2, <2>1, <2>2 DEF ConnectInv
<1>6. QED
  BY <1>3, <1>4, <1>5 DEF Next, InCall, ServerThread, CallFails

LEMMA ConnectInit == Init => ConnectInv
<1> SUFFICES ASSUME Init
             PROVE  ConnectInv
  OBVIOUS
<1>1. /\ DOMAIN qp = {} /\ lost = {} /\ failures = 0
      /\ \A n \in Nodes : /\ app[n] = Idle /\ protoSockets[n] = {} /\ DOMAIN m_connections[n] = {}
                          /\ m_NodeIDsQPs[n] = {} /\ DOMAIN m_qps[n] = {} /\ m_connected[n] = {}
                          /\ m_ownNodeID[n] = NoID
      /\ \A s \in Servers : requests[s] = {} /\ serving[s] = NoRequest
  BY DEF Init
<1>2. NodesTyped
  BY DEF Init, NodesTyped
<1>3. TypeOK
  <2>1. SequencerTypeOK
    BY DEF Init, SequencerInit, SequencerTypeOK
  <2>2. OwnTyped /\ FailuresTyped
    BY BoundsAssumption DEF Init, OwnTyped, FailuresTyped
  <2>3. CallsTyped
    <3>1. NotCalled \in [result : {"none", "true", "false", "throw"}, id : Nat]
      BY DEF NotCalled
    <3>2. QED
      BY <3>1, ProgramsAssumption DEF Init, CallsTyped
  <2>4. AppTyped
    BY <1>1, IdleTyped DEF AppTyped
  <2>5. ConnectionsTyped /\ MarksTyped /\ SlotsTyped /\ QPsTyped /\ RequestsTyped
    BY <1>1 DEF ConnectionsTyped, MarksTyped, SlotsTyped, QPsTyped, RequestsTyped
  <2>6. QED
    BY <2>1, <2>2, <2>3, <2>4, <2>5, TypesInParts DEF Types
<1>4. ServersKnown
  BY DEF Init, SequencerInit, ServersKnown, Known
<1>5. \A q, state : ~ Made(q) /\ ~ Is(q, state)
  BY <1>1 DEF Made, Is
<1>6. \A n \in Nodes : At(n, "idle")
  BY <1>1 DEF At, Idle
<1>7. ConnectSteps /\ Exchanges /\ Requests
  BY <1>1, <1>5, <1>6
     DEF ConnectSteps, Connecting, Exchanges, DialedInStep, ServedInStep, Requests
<1>8. ConnectedIDs /\ Slots /\ NoneLost
  BY <1>1, <1>5 DEF ConnectedIDs, Slots, NoneLost
<1>9. Succeeding
  BY <1>1, <1>5, <1>6 DEF Succeeding, Busy, At
<1>10. FewLost /\ LostStay
  BY <1>1, FS_EmptySet DEF FewLost, LostStay
<1>11. QED
  BY <1>2, <1>3, <1>4, <1>7, <1>8, <1>9, <1>10 DEF ConnectInv, Connections

LEMMA ConnectInvariance == NoSelfDials => (Spec => [](IInv /\ ConnectInv))
<1>1. Init => IInv /\ ConnectInv
  BY InitInvariant, ConnectInit
<1>2. NoSelfDials /\ IInv /\ ConnectInv /\ [Next]_vars => (IInv /\ ConnectInv)'
  BY NextKeepsInvariant, ConnectStep
<1>3. NoSelfDials => []NoSelfDials
  OBVIOUS
<1>4. QED
  BY <1>1, <1>2, <1>3, PTL DEF Spec

-----------------------------------------------------------------------------
(* A connected queue pair is aimed at one of the peer it is listed for,    *)
(* whatever connect and connectQueue do at both ends, for any number of    *)
(* nodes, calls, retries and failing calls of verbs or of ProtoClient; and *)
(* no queue pair is left over, but for the race of setQP and one at most   *)
(* for every call that fails.                                              *)
THEOREM QueuePairsAlwaysMatch ==
  ASSUME NoSelfDials
  PROVE  Spec => []QueuePairsMatch
<1>1. ASSUME IInv, ConnectInv
      PROVE  QueuePairsMatch
  <2>1. \A n \in Nodes : ID(n) \in Nat \/ ID(n) = NoID
    BY <1>1 DEF IInv, IDsGiven, ID
  <2>2. NoStrayQueuePairs
    <3>1. SUFFICES ASSUME NEW q \in DOMAIN qp \ lost, qp[q].state # "DESTROYED",
                          ~ MayRace(q.owner)
                   PROVE  \/ \E id \in DOMAIN m_qps[q.owner] : m_qps[q.owner][id] = q
                          \/ q.by = "connect" /\ app[q.owner].server = q.peer
                          \/ q.by = "connectQueue" /\ serving[q.owner].from = q.peer
      BY <1>1 DEF NoStrayQueuePairs, ConnectInv, FewLost
    <3>2. q \in QueuePairs /\ Made(q) /\ ~ Is(q, "DESTROYED")
      BY <1>1, <3>1 DEF ConnectInv, TypeOK, Made, Is
    <3>3. /\ q.owner \in Nodes /\ q.peer \in Nodes
          /\ q = Dialed(q.owner, q.peer) \/ q = Served(q.owner, q.peer)
      BY <3>2, Fields
    <3>4. CASE q = Dialed(q.owner, q.peer)
      <4>1. Holds(q.owner, q.peer, q) \/ Busy(q.owner, q.peer)
        BY <1>1, <3>1, <3>2, <3>3, <3>4 DEF ConnectInv, Connections, NoneLost
      <4>2. q.by = "connect"
        BY <3>3, <3>4, Fields
      <4>3. QED
        BY <4>1, <4>2 DEF Holds, Busy
    <3>5. CASE q = Served(q.owner, q.peer)
      <4>1. Holds(q.owner, q.peer, q) \/ Serving(q.owner, q.peer)
        BY <1>1, <3>1, <3>2, <3>3, <3>5 DEF ConnectInv, Connections, NoneLost
      <4>2. q.by = "connectQueue"
        BY <3>3, <3>5, Fields
      <4>3. QED
        BY <4>1, <4>2 DEF Holds, Serving
    <3>6. QED
      BY <3>3, <3>4, <3>5
  <2>3. ASSUME NEW n \in Nodes, NEW m \in Nodes, Usable(n, m)
        PROVE  LET remote == qp[QueuePair(n, m)].remote
               IN  /\ remote.owner = m /\ remote.peer = n
                   /\ qp[remote].state # "DESTROYED"
                   /\ qp[remote].state = "RTS" => qp[remote].remote = QueuePair(n, m)
    <3>1. PICK q : q = QueuePair(n, m) /\ Holds(n, m, q) /\ qp[q].state = "RTS"
      BY <2>3 DEF Usable, Has, QueuePair, Holds, ID
    <3>2. Made(q) /\ Is(q, "RTS") /\ (q = Dialed(n, m) \/ q = Served(n, m))
      BY <1>1, <3>1 DEF ConnectInv, Connections, Slots, Holds, Is
    <3>3. CASE q = Dialed(n, m)
      <4>1. qp[q].remote = Served(m, n) /\ Is(Served(m, n), "RTS")
        BY <1>1, <3>2, <3>3 DEF ConnectInv, Connections, Exchanges, DialedInStep
      <4>2. qp[Served(m, n)].remote = q /\ qp[Served(m, n)].state = "RTS"
        BY <1>1, <3>3, <4>1 DEF ConnectInv, Connections, Exchanges, ServedInStep, Is
      <4>3. QED
        BY <3>1, <4>1, <4>2, Fields
    <3>4. CASE q = Served(n, m)
      <4>1. /\ qp[q].remote = Dialed(m, n) /\ Made(Dialed(m, n))
            /\ ~ Is(Dialed(m, n), "DESTROYED")
        BY <1>1, <3>2, <3>4 DEF ConnectInv, Connections, Exchanges, ServedInStep
      <4>2. Is(Dialed(m, n), "RTS") => qp[Dialed(m, n)].remote = q
        BY <1>1, <3>4 DEF ConnectInv, Connections, Exchanges, DialedInStep, Is
      <4>3. QED
        BY <3>1, <4>1, <4>2, Fields DEF Is
    <3>5. QED
      BY <3>2, <3>3, <3>4
  <2>4. QED
    BY <1>1, <2>2, <2>3 DEF QueuePairsMatch, ConnectInv
<1>2. QED
  BY <1>1, ConnectInvariance, PTL

(* Unless a call fails, both ends are connected once the connect of  *)
(* a client has got past the lookup and is over.                           *)
THEOREM ClientsEndLinked ==
  ASSUME NoSelfDials
  PROVE  Spec => []ClientIsLinked
<1>1. ASSUME IInv, ConnectInv
      PROVE  ClientIsLinked
  <2>1. SUFFICES ASSUME NEW n \in Clients, NEW s \in Servers, failures = 0, protoSockets[s] = {},
                        ID(s) \in m_NodeIDsQPs[n], At(n, "idle")
                 PROVE  Linked(n, s)
    BY DEF ClientIsLinked, ID
  <2>2. n \in Nodes /\ s \in Nodes /\ n \notin Servers
    BY RolesDisjoint DEF Nodes
  <2>3. ~ MayRace(n) /\ ~ MayRace(s) /\ lost = {}
    <3>1. lost = {}
      BY <1>1, <2>1, FS_EmptySet, FS_CardinalityType DEF ConnectInv, FewLost
    <3>2. QED
      BY <2>1, <2>2, <3>1 DEF MayRace
  <2>4. ~ Busy(n, s) /\ ~ Serving(s, n)
    <3>1. ASSUME Serving(s, n)
          PROVE  FALSE
      <4>1. Waiting(s, serving[s]) /\ serving[s].from = n
        BY <1>1, <3>1 DEF Serving, ConnectInv, Connections, Requests
      <4>2. QED
        BY <2>1, <2>3, <4>1 DEF Waiting, Pending, At
    <3>2. QED
      BY <2>1, <3>1 DEF Busy, At
  <2>5. ~ Made(Served(n, s))
    BY <1>1, <2>2 DEF ConnectInv, Connections, Exchanges, ServedInStep
  <2>6. Made(Dialed(n, s)) /\ Is(Dialed(n, s), "RTS")
    BY <1>1, <2>1, <2>2, <2>4, <2>5 DEF ConnectInv, Connections, Succeeding
  <2>7. qp[Dialed(n, s)].remote = Served(s, n) /\ Is(Served(s, n), "RTS") /\ Made(Served(s, n))
    BY <1>1, <2>2, <2>6 DEF ConnectInv, Connections, Exchanges, DialedInStep, Is
  <2>8. qp[Served(s, n)].remote = Dialed(n, s)
    BY <1>1, <2>2, <2>7 DEF ConnectInv, Connections, Exchanges, ServedInStep
  <2>9. Holds(n, s, Dialed(n, s)) /\ Holds(s, n, Served(s, n))
    BY <1>1, <2>2, <2>3, <2>4, <2>6, <2>7 DEF ConnectInv, Connections, NoneLost, Is
  <2>10. QED
    BY <2>6, <2>7, <2>8, <2>9 DEF Linked, Usable, Has, QueuePair, Holds, ID, Is
<1>2. QED
  BY <1>1, ConnectInvariance, PTL

(* No step takes a link down: a slot in use is never written again, and a  *)
(* connected queue pair never changes.                                     *)
THEOREM LinksAlwaysStay ==
  ASSUME NoSelfDials
  PROVE  Spec => LinksStay
<1>1. ASSUME IInv, ConnectInv, [Next]_vars
      PROVE  [\A n, m \in Nodes : Linked(n, m) => Linked(n, m)']_vars
  <2>1. LinksKept
    BY <1>1, ConnectStep
  <2>2. QED
    BY <2>1 DEF LinksKept, Linked
<1>2. QED
  BY <1>1, ConnectInvariance, PTL DEF Spec, LinksStay
=============================================================================
