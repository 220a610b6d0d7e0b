--------------------------- MODULE NodeIDSequencer --------------------------
(***************************************************************************)
(* The process that numbers the nodes (src/rdma/NodeIDSequencer.cc).  Its  *)
(* single thread answers one request at a time; a node waits for the       *)
(* answer, so each exchange is one step of the node that asks.             *)
(*                                                                         *)
(* A node's ip:port is the node itself.  Nothing is ever unregistered.     *)
(***************************************************************************)
EXTENDS Naturals, SequencesExt

CONSTANTS
  Servers,  \* nodes of type SERVER: the sequencer maps their ip:port
  Clients   \* nodes of type CLIENT: they only get an id

ASSUME RolesDisjoint == Servers \cap Clients = {}

Nodes == Servers \cup Clients

VARIABLES
  m_nextNodeID,
  m_entries,               \* NodeEntry_t records, "Indexed with nodeID"
  m_ipPortToNodeIDMapping  \* server -> the id it was registered under

sequencer == <<m_nextNodeID, m_entries, m_ipPortToNodeIDMapping>>

NodeEntry == [IP : Nodes, nodeID : Nat]

SequencerInit ==
  /\ m_nextNodeID = 0
  /\ m_entries = <<>>
  /\ m_ipPortToNodeIDMapping = [s \in {} |-> 0]

(* Slip: ids are left out. *)
skippedNodeID(id) == id + 2

(* getNextNodeID's post-increment. *)
getNextNodeID(id) == id + 1

(* The answer to a NodeIDRequest is the value of m_nextNodeID. *)
NodeIDRequest(n) ==
  /\ m_nextNodeID' = getNextNodeID(m_nextNodeID)
  /\ m_entries' = Append(m_entries, [IP |-> n, nodeID |-> m_nextNodeID])
  /\ m_ipPortToNodeIDMapping' =
       IF n \in Servers
       THEN [s \in DOMAIN m_ipPortToNodeIDMapping \cup {n} |->
               IF s = n THEN m_nextNodeID ELSE m_ipPortToNodeIDMapping[s]]
       ELSE m_ipPortToNodeIDMapping

(* GetNodeIDForIpPortRequest: NODEID_NOT_FOUND, or the entry at the mapped *)
(* id (C++ counts from 0).                                                 *)
Known(s) == s \in DOMAIN m_ipPortToNodeIDMapping
EntryFor(s) == m_entries[m_ipPortToNodeIDMapping[s] + 1]

-----------------------------------------------------------------------------
SequencerTypeOK ==
  /\ m_nextNodeID \in Nat
  /\ m_entries \in Seq(NodeEntry)
  /\ DOMAIN m_ipPortToNodeIDMapping \subseteq Servers
  /\ \A s \in DOMAIN m_ipPortToNodeIDMapping : m_ipPortToNodeIDMapping[s] \in Nat

(* "indexing entries vector relies on nodeIDs being incremented by 1!"     *)
(* (NodeIDSequencer.cc:24): the entry found for an ip:port is that node's, *)
(* so connect never sees "Fetched IP ... did not match requested IP".      *)
EntriesIndexed ==
  /\ Len(m_entries) = m_nextNodeID
  /\ \A i \in DOMAIN m_entries : m_entries[i].nodeID = i - 1
  /\ \A s \in Servers : Known(s) =>
       m_ipPortToNodeIDMapping[s] < m_nextNodeID /\ EntryFor(s).IP = s
=============================================================================
