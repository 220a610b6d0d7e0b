----------------------------- MODULE Multicast -----------------------------
(***************************************************************************)
(* The multicast half of UnreliableRDMA: nodes join groups, send to them,  *)
(* post receives, leave, and destroy the object, in any order.  Each group *)
(* a node joins has a queue pair of its own, found by the key that         *)
(* joinMCastGroup hands out.                                               *)
(*                                                                         *)
(* Joining takes several calls that may fail after the key has been taken, *)
(* and even after the subnet manager has made the queue pair a member.  A  *)
(* datagram may be lost for every receiver, and is for one that has no     *)
(* receive posted.  One thread uses the object, and callers use the keys   *)
(* that a join returned and sends to groups they have not left.            *)
(***************************************************************************)
EXTENDS Integers, Sequences, FiniteSets

CONSTANTS
  Nodes, Groups,
  NoGroup,
  RDMA_MAX_WR,  \* Config::RDMA_MAX_WR: max_send_wr and max_recv_wr
  MaxJoins,     \* bound: joins of a node
  MaxPosts,     \* bound: messages sent and receives posted, by all nodes
  MaxFailures   \* bound: joins and destructions that fail

ASSUME GroupsAssumption == NoGroup \notin Groups
ASSUME LimitAssumption == RDMA_MAX_WR \in Nat \ {0}
ASSUME BoundsAssumption == MaxJoins \in Nat /\ MaxPosts \in Nat /\ MaxFailures \in Nat

VARIABLES
  object,             \* "live", "destroyed" or "terminated"
  m_lastMCastConnKey,
  m_udpMcastConns,    \* the connections, at key + 1
  m_sendMCastCount,
  given,              \* history: the keys callers got, with their groups
  members,            \* the subnet manager: [node, key, group] of queue pairs
  failedJoins,        \* history: <<node, key>> of joins that threw
  waiting,            \* the key whose completion sendMCast polls for, or None
  sends,              \* the send queue and completion queue of a queue pair
  receives,           \* receives posted to it and not consumed
  done,               \* completions of receives, not polled
  failures,
  posts               \* messages sent and receives posted

objects  == <<object, m_lastMCastConnKey, m_udpMcastConns, m_sendMCastCount>>
joins    == <<given, members, failedJoins>>
received == <<receives, done>>
vars     == <<objects, joins, waiting, sends, received, failures, posts>>

None == -1
Keys == 0 .. (MaxJoins - 1)
QueuePairs == Nodes \X Keys

NoConn == [group |-> NoGroup, active |-> FALSE]

(* Work requests are numbered as they are posted (see SendQueue). *)
EmptyQueue == [posted |-> 0, executed |-> 0, polled |-> 0, signaledWRs |-> {},
               result |-> "none"]

Init ==
  /\ object = [n \in Nodes |-> "live"]
  /\ m_lastMCastConnKey = [n \in Nodes |-> 0]
  /\ m_udpMcastConns = [n \in Nodes |-> <<>>]
  /\ m_sendMCastCount = [n \in Nodes |-> <<>>]
  /\ given = {}
  /\ members = {}
  /\ failedJoins = {}
  /\ waiting = [n \in Nodes |-> None]
  /\ sends = [q \in QueuePairs |-> EmptyQueue]
  /\ receives = [q \in QueuePairs |-> 0]
  /\ done = [q \in QueuePairs |-> 0]
  /\ failures = 0 /\ posts = 0

(* The thread is between two calls. *)
Idle(n) == object[n] = "live" /\ waiting[n] = None

Conn(n, key) == m_udpMcastConns[n][key + 1]

Member(n, key, group) == [node |-> n, key |-> key, group |-> group]

-----------------------------------------------------------------------------
(* joinMCastGroup, leaveMCastGroup and the destructor.                     *)

(* std::vector::resize to hold index i, and an element put there. *)
PutAt(vector, i, element, zero) ==
  [j \in 1 .. (IF Len(vector) < i THEN i ELSE Len(vector)) |->
     IF j = i THEN element ELSE IF j <= Len(vector) THEN vector[j] ELSE zero]

(* Slip: the connection goes to the end of the vector. *)
setMCastConnAtEnd(n, key, conn) ==
  /\ m_udpMcastConns' = [m_udpMcastConns EXCEPT ![n] = Append(@, conn)]
  /\ m_sendMCastCount' = [m_sendMCastCount EXCEPT ![n] = Append(@, 0)]

setMCastConn(n, key, conn) ==
  /\ m_udpMcastConns' = [m_udpMcastConns EXCEPT ![n] = PutAt(@, key + 1, conn, NoConn)]
  /\ m_sendMCastCount' = [m_sendMCastCount EXCEPT ![n] =
       IF Len(@) < key + 1 THEN PutAt(@, key + 1, 0, 0) ELSE @]

(* A new key is taken first. *)
nextMCastConnKey(n) ==
  /\ m_lastMCastConnKey[n] < MaxJoins
  /\ m_lastMCastConnKey' = [m_lastMCastConnKey EXCEPT ![n] = @ + 1]

Join(n, g) ==
  LET key == m_lastMCastConnKey[n]
  IN /\ Idle(n)
     /\ nextMCastConnKey(n)
     /\ members' = members \cup {Member(n, key, g)}
     /\ setMCastConn(n, key, [group |-> g, active |-> TRUE])
     /\ given' = given \cup {Member(n, key, g)}
     /\ UNCHANGED <<object, failedJoins, waiting, sends, received, failures, posts>>

(* A call throws: one before rdma_join_multicast, or one after it, when    *)
(* the queue pair may have become a member.  Nothing is undone.            *)
JoinFails(n, g) ==
  LET key == m_lastMCastConnKey[n]
  IN /\ Idle(n)
     /\ failures < MaxFailures
     /\ failures' = failures + 1
     /\ nextMCastConnKey(n)
     /\ failedJoins' = failedJoins \cup {<<n, key>>}
     /\ members' \in {members, members \cup {Member(n, key, g)}}
     /\ UNCHANGED <<object, m_udpMcastConns, m_sendMCastCount, given, waiting, sends,
                    received, posts>>

(* The connections of a node that the subnet manager is told to drop.      *)
Leaves(n, leaving) ==
  /\ members' = members \ {Member(n, k, Conn(n, k).group) : k \in leaving}
  /\ m_udpMcastConns' = [m_udpMcastConns EXCEPT ![n] =
       [i \in DOMAIN @ |-> IF i - 1 \in leaving THEN [@[i] EXCEPT !.active = FALSE] ELSE @[i]]]

ActiveKeys(n) == {k \in Keys : k < Len(m_udpMcastConns[n]) /\ Conn(n, k).active}

(* Nothing happens the second time.  (A leave that the subnet manager      *)
(* refuses throws and changes nothing.)                                    *)
leaveMCastGroup(n, key) ==
  /\ Idle(n)
  /\ \E g \in Groups : Member(n, key, g) \in given
  /\ Leaves(n, {key} \cap ActiveKeys(n))
  /\ UNCHANGED <<object, m_lastMCastConnKey, m_sendMCastCount, given, failedJoins,
                 waiting, sends, received, failures, posts>>

(* Slip: the loop ends at the first connection that is not active. *)
LeftByDestructorFirst(n) ==
  {k \in ActiveKeys(n) : \A j \in 0 .. k : j \in ActiveKeys(n)}

LeftByDestructor(n) == ActiveKeys(n)

Destroy(n) ==
  /\ Idle(n)
  /\ object' = [object EXCEPT ![n] = "destroyed"]
  /\ Leaves(n, LeftByDestructor(n))
  /\ UNCHANGED <<m_lastMCastConnKey, m_sendMCastCount, given, failedJoins, waiting,
                 sends, received, failures, posts>>

(* A leave throws in the destructor, which ends the process and with it    *)
(* all its queue pairs.                                                    *)
DestroyFails(n) ==
  /\ Idle(n)
  /\ ActiveKeys(n) # {}
  /\ failures < MaxFailures
  /\ failures' = failures + 1
  /\ object' = [object EXCEPT ![n] = "terminated"]
  /\ members' = {m \in members : m.node # n}
  /\ UNCHANGED <<m_lastMCastConnKey, m_udpMcastConns, m_sendMCastCount, given,
                 failedJoins, waiting, sends, received, posts>>

-----------------------------------------------------------------------------
(* sendMCast, receiveMCast and pollReceiveMCast.                           *)

CountOf(n, key) ==
  IF key < Len(m_sendMCastCount[n]) THEN m_sendMCastCount[n][key + 1] ELSE 0

(* Slip: one counter for all keys.                                         *)
countedKeyFirst(key) == 0

checkSignaledMCast(n, key, signaled) == signaled \/ CountOf(n, key) + 1 = RDMA_MAX_WR
countedKey(key) == key

PolledFor(key, signaled) == IF signaled THEN key ELSE None

Posted(queue, signaled) ==
  [queue EXCEPT !.posted = @ + 1,
                !.signaledWRs = IF signaled THEN @ \cup {queue.posted + 1} ELSE @,
                !.result = "ok"]

sendMCast(n, key, signaled) ==
  LET q == <<n, key>>
      s == checkSignaledMCast(n, countedKey(key), signaled)
  IN /\ Idle(n)
     /\ key \in ActiveKeys(n)
     /\ posts < MaxPosts /\ posts' = posts + 1
     /\ m_sendMCastCount' = [m_sendMCastCount EXCEPT ![n][countedKey(key) + 1] =
          IF s THEN 0 ELSE @ + 1]
     /\ IF sends[q].posted - sends[q].polled < RDMA_MAX_WR
        THEN /\ sends' = [sends EXCEPT ![q] = Posted(@, s)]
             /\ waiting' = [waiting EXCEPT ![n] = PolledFor(key, s)]
        ELSE /\ sends' = [sends EXCEPT ![q].result = "postFailed"]
             /\ UNCHANGED waiting
     /\ UNCHANGED <<object, m_lastMCastConnKey, m_udpMcastConns, joins, received, failures>>

(* The card sends the oldest message to the group of the queue pair: every *)
(* member that has a receive posted may get it.                            *)
Execute(n, key) ==
  LET q == <<n, key>>
      hearing == {p \in QueuePairs : /\ receives[p] > 0
                                     /\ Member(p[1], p[2], Conn(n, key).group) \in members}
  IN /\ object[n] = "live"
     /\ key \in ActiveKeys(n)
     /\ sends[q].executed < sends[q].posted
     /\ sends' = [sends EXCEPT ![q].executed = @ + 1]
     /\ \E R \in SUBSET hearing :
          /\ receives' = [p \in QueuePairs |-> IF p \in R THEN receives[p] - 1 ELSE receives[p]]
          /\ done' = [p \in QueuePairs |-> IF p \in R THEN done[p] + 1 ELSE done[p]]
     /\ UNCHANGED <<objects, joins, waiting, failures, posts>>

Completions(queue) ==
  {w \in (queue.polled + 1) .. queue.executed : w \in queue.signaledWRs}

First(W) == CHOOSE w \in W : \A v \in W : w <= v

(* The loop at the end of sendMCast. *)
Completed(n) ==
  LET q == <<n, waiting[n]>>
  IN /\ waiting[n] # None
     /\ Completions(sends[q]) # {}
     /\ sends' = [sends EXCEPT ![q].polled = First(Completions(sends[q])),
                               ![q].result = "completed"]
     /\ waiting' = [waiting EXCEPT ![n] = None]
     /\ UNCHANGED <<objects, joins, received, failures, posts>>

(* A receive that finds the queue full throws and changes nothing. *)
receiveMCast(n, key) ==
  LET q == <<n, key>>
  IN /\ Idle(n)
     /\ key \in ActiveKeys(n)
     /\ receives[q] + done[q] < RDMA_MAX_WR
     /\ posts < MaxPosts /\ posts' = posts + 1
     /\ receives' = [receives EXCEPT ![q] = @ + 1]
     /\ UNCHANGED <<objects, joins, waiting, sends, done, failures>>

pollReceiveMCast(n, key) ==
  LET q == <<n, key>>
  IN /\ Idle(n)
     /\ key \in ActiveKeys(n)
     /\ done[q] > 0
     /\ done' = [done EXCEPT ![q] = @ - 1]
     /\ UNCHANGED <<objects, joins, waiting, sends, receives, failures, posts>>

Next ==
  \E n \in Nodes :
    \/ \E g \in Groups : Join(n, g) \/ JoinFails(n, g)
    \/ Destroy(n) \/ DestroyFails(n) \/ Completed(n)
    \/ \E key \in Keys :
         \/ leaveMCastGroup(n, key)
         \/ \E signaled \in BOOLEAN : sendMCast(n, key, signaled)
         \/ Execute(n, key)
         \/ receiveMCast(n, key) \/ pollReceiveMCast(n, key)

Spec == Init /\ [][Next]_vars

-----------------------------------------------------------------------------
ConnType == [group : Groups \cup {NoGroup}, active : BOOLEAN]

MemberType == [node : Nodes, key : Keys, group : Groups]

(* A key names the group it was handed out for, whichever joins failed in  *)
(* between and left holes in the vector, and however often it was left.    *)
KeysNameGroups ==
  \A m \in given : /\ m.key < Len(m_udpMcastConns[m.node])
                   /\ Conn(m.node, m.key).group = m.group

(* The subnet manager and the object agree on what is joined: an active    *)
(* connection is a member, and a member is one of those or was left behind *)
(* by a join that threw.  So a destroyed object leaves only those behind.  *)
MembershipRecorded ==
  /\ \A n \in Nodes : object[n] = "live" =>
       \A k \in ActiveKeys(n) : Member(n, k, Conn(n, k).group) \in members
  /\ \A m \in members :
       \/ object[m.node] = "live" /\ m.key \in ActiveKeys(m.node)
       \/ <<m.node, m.key>> \in failedJoins

Waiting(q) == IF waiting[q[1]] = q[2] THEN "operation" ELSE "nothing"

(* The send side of one group, as SendQueue has that of a connection. *)
Queue(q) == INSTANCE SendQueue WITH
  m_countWR <- CountOf(q[1], q[2]),
  posted <- sends[q].posted, executed <- sends[q].executed, polled <- sends[q].polled,
  signaledWRs <- sends[q].signaledWRs, result <- sends[q].result,
  waiting <- Waiting(q), failedWR <- 0, reads <- 0,
  PollsReads <- TRUE, MayFail <- FALSE

(* Each group's sends keep to SendQueue, whatever is sent to other groups  *)
(* in between: so a post never finds the queue full, and a wait ends with  *)
(* its own completion (SendQueue_proofs).                                  *)
SendsImplementSendQueue ==
  /\ \A q \in QueuePairs : Queue(q)!Init
  /\ [][\A q \in QueuePairs : [Queue(q)!Next]_(Queue(q)!vars)]_vars
=============================================================================
