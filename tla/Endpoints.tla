------------------------------- MODULE Endpoints -------------------------------
(***************************************************************************)
(* The life of connections in ReliableRDMA and UnreliableRDMA objects, and *)
(* how what is received gets to its id: queue pairs are made for ids,      *)
(* connected, disconnected, and destroyed with the object; receives are    *)
(* posted for an id or for all ids of a shared receive queue.              *)
(*                                                                         *)
(* The objects are all reliable or all unreliable.  A reliable one has a   *)
(* queue pair per id, an unreliable one has a single queue pair, m_udqp,   *)
(* that it records for every id, and an address handle per id.  The card   *)
(* may use the number of a destroyed queue pair again.                     *)
(*                                                                         *)
(* As RDMAServer and RDMAClient call it: an id stands for one other object *)
(* for as long as the object lives (Partner); it is given to initQP only   *)
(* when it has no queue pair; and connectQP comes right after              *)
(* setRemoteConnData.  Sends are signaled (SendQueue has the others).      *)
(* Destroying a queue pair removes what its completion queue still held of *)
(* it, as the cards' drivers do.                                           *)
(*                                                                         *)
(* The calls of verbs that make, modify and destroy queue pairs and queues *)
(* may fail, MaxFailures times (there is no step for one that fails before *)
(* anything has changed); destroying a completion queue fails only while   *)
(* it is in use.  Not modelled: a failing constructor, and address handles *)
(* that are not made or not destroyed, whose results the code does not     *)
(* look at (UnreliableRDMA.cc:172, :184).  Where the code uses what was    *)
(* destroyed it is undefined what follows, and where a destructor throws   *)
(* the program ends: the model stops there (a destructor's own failing     *)
(* calls, which only end the program, are left out).                       *)
(***************************************************************************)
EXTENDS Integers, FiniteSets, SequencesExt, Functions

CONSTANTS
  Objects,
  Partner,     \* object -> id -> the object the id stands for, for the ids it uses
  SRQOwners,   \* objects that make their queue pairs for a shared queue, if any
  MaxID,       \* rdmaConnIDs are 0 .. MaxID
  Numbers,     \* numbers of queue pairs
  MaxFailures, MaxInits,   \* bounds: calls of verbs that fail, these and the queue
                           \* pairs made for ids together,
  MaxHandles, MaxReceives, \* address handles and receives there are at a time
  NoQP, NoObject

ASSUME EndpointAssumption ==
  /\ DOMAIN Partner = Objects /\ SRQOwners \subseteq Objects
  /\ \A o \in Objects :
       DOMAIN Partner[o] \subseteq 0 .. MaxID /\ Range(Partner[o]) \subseteq Objects
  /\ {MaxID, MaxInits, MaxHandles, MaxReceives, MaxFailures} \subseteq Nat
  /\ NoQP \notin Numbers /\ NoObject \notin Objects
  /\ \A o \in Objects : <<"srq", o>> \notin Numbers
  /\ \E f \in [Objects -> Numbers] : IsInjective(f)

IDs == 0 .. MaxID
Handles == 0 .. MaxHandles
SRQ(o) == <<"srq", o>>
Queues == Numbers \cup {SRQ(o) : o \in SRQOwners}

VARIABLES
  kind,           \* m_qpType of all objects: "RC" or "UD"
  m_qps,          \* object -> the vector: index id + 1 has a number or NoQP
  m_connected,    \* object -> id -> BOOLEAN, for the ids in the map
  m_rconns,       \* object -> id -> number and address handle (0: none)
  m_qpNum2connID, \* object -> number -> id, for the numbers in the map
  m_srqs,         \* the objects that have a shared receive queue
  m_connectedQPs, \* object -> ids that got queue pairs for its shared queue
  destroyed,      \* objects that are gone
  pairs,          \* the card: number -> owner, state, peer, cq
  cqs,            \* receive completion queues that are there (a send queue's
                  \* goes with its queue pair)
  posted,         \* queue -> receives posted
  completed,      \* completion queue -> what arrived: number and sender
  handles,        \* address handles that are there: handle -> owner and target
  reported,       \* object -> the id its pollReceiveSRQ wrote last, in the caller's
                  \* variable, and who sent the message it wrote it for
  inits,          \* counts the queue pairs made for ids, for the bound
  failures,       \* calls of verbs that failed
  lost,           \* of them, how many left queues that no queue pair uses
  status          \* "runs"; "undefined" or "terminated" ends the model

fields == <<m_qps, m_connected, m_rconns, m_qpNum2connID, m_srqs, m_connectedQPs, destroyed>>
card == <<pairs, cqs, posted, completed, handles>>
course == <<failures, lost, status>>
vars == <<kind, fields, card, reported, inits, course>>

(* A map with an entry written. *)
With(f, k, v) == [x \in DOMAIN f \cup {k} |-> IF x = k THEN v ELSE f[x]]

NoRemote == [qp |-> NoQP, ah |-> 0]
NoReport == [id |-> 0, from |-> NoObject]

(* A queue pair's receives are posted where its completions appear: on its *)
(* own queue, named by its number, or on the shared one.                   *)
NewPair(o, q) == [owner |-> o, state |-> "INIT", peer |-> NoQP, cq |-> q]

(* One whose modifyQPToInit failed, which no object records. *)
NewStray(o, q) == [NewPair(o, q) EXCEPT !.state = "RESET"]
Strays == {n \in DOMAIN pairs : pairs[n].state = "RESET"}

QP(o, id) == IF id < Len(m_qps[o]) THEN m_qps[o][id + 1] ELSE NoQP
Owned(o) == {n \in DOMAIN pairs : pairs[n].owner = o}
IsConnected(o, id) == id \in DOMAIN m_connected[o] /\ m_connected[o][id]
Live(o) == o \notin destroyed
Fails == /\ failures < MaxFailures /\ inits + failures < MaxInits
         /\ failures' = failures + 1

(* The constructor of an unreliable object makes m_udqp, brings it up, and *)
(* records it for id 0.                                                    *)
udqp == CHOOSE f \in [Objects -> Numbers] : IsInjective(f)

Init ==
  /\ kind \in {"RC", "UD"}
  /\ m_qps = [o \in Objects |-> IF kind = "UD" THEN <<udqp[o]>> ELSE <<>>]
  /\ pairs = IF kind = "UD"
             THEN [n \in Range(udqp) |->
                     LET o == CHOOSE p \in Objects : udqp[p] = n
                     IN  [NewPair(o, n) EXCEPT !.state = "RTS"]]
             ELSE <<>>
  /\ cqs = DOMAIN pairs
  /\ m_qpNum2connID = [o \in Objects |-> [n \in Range(m_qps[o]) |-> 0]]
  /\ m_connected = [o \in Objects |-> <<>>]
  /\ m_rconns = [o \in Objects |-> [id \in IDs |-> NoRemote]]
  /\ m_srqs = {} /\ m_connectedQPs = [o \in Objects |-> {}] /\ destroyed = {}
  /\ posted = [q \in Queues |-> 0] /\ completed = [q \in Queues |-> <<>>]
  /\ handles = <<>> /\ inits = 0
  /\ reported = [o \in Objects |-> NoReport]
  /\ failures = 0 /\ lost = 0 /\ status = "runs"
-----------------------------------------------------------------------------
(* Making queue pairs.                                                     *)

(* Slip: setQP that keeps the id a number already has. *)
setQPOnce(o, id, n) ==
  /\ m_qps' = [m_qps EXCEPT ![o] =
       [i \in 1 .. IF id < Len(@) THEN Len(@) ELSE id + 1 |->
          IF i = id + 1 THEN n ELSE IF i <= Len(@) THEN @[i] ELSE NoQP]]
  /\ m_qpNum2connID' = [m_qpNum2connID EXCEPT ![o] = IF n \in DOMAIN @ THEN @ ELSE With(@, n, id)]

setQP(o, id, n) ==
  /\ m_qps' = [m_qps EXCEPT ![o] =
       [i \in 1 .. IF id < Len(@) THEN Len(@) ELSE id + 1 |->
          IF i = id + 1 THEN n ELSE IF i <= Len(@) THEN @[i] ELSE NoQP]]
  /\ m_qpNum2connID' = [m_qpNum2connID EXCEPT ![o] = With(@, n, id)]

(* Numbers the card has not used are all alike. *)
FreeNumbers ==
  LET used == DOMAIN pairs \cup UNION {DOMAIN m_qpNum2connID[o] : o \in Objects}
  IN  (used \ DOMAIN pairs) \cup
      {n \in Numbers \ used : n = CHOOSE m \in Numbers \ used : TRUE}

Counted == inits + failures < MaxInits /\ inits' = inits + 1

Recorded(o, id, n) ==
  /\ Live(o) /\ id \in DOMAIN Partner[o]
  /\ setQP(o, id, n)
  /\ UNCHANGED <<kind, m_connected, m_rconns, destroyed, completed, handles, reported,
                 failures, lost>>

initQPWithSuppliedID(o, id) ==
  \/ /\ kind = "RC" /\ QP(o, id) = NoQP
     /\ \E n \in FreeNumbers :
          /\ pairs' = With(pairs, n, NewPair(o, n))
          /\ cqs' = cqs \cup {n}
          /\ Recorded(o, id, n)
     /\ Counted
     /\ UNCHANGED <<m_srqs, m_connectedQPs, posted, status>>
  \/ /\ kind = "UD"
     /\ Recorded(o, id, udqp[o])
     /\ UNCHANGED <<m_srqs, m_connectedQPs, pairs, cqs, posted, inits, status>>

nextConnKey(o) == Len(m_qps[o])

initQP(o) ==
  nextConnKey(o) \in IDs /\ initQPWithSuppliedID(o, nextConnKey(o))

createSharedReceiveQueue(o) ==
  /\ kind = "RC" /\ Live(o) /\ o \in SRQOwners \ m_srqs
  /\ m_srqs' = m_srqs \cup {o}
  /\ cqs' = cqs \cup {SRQ(o)}
  /\ UNCHANGED <<kind, m_qps, m_connected, m_rconns, m_qpNum2connID, m_connectedQPs, destroyed,
                 pairs, posted, completed, handles, reported, inits, course>>

(* The completion queue is used whether it is still there or not. *)
UseShared(o) == status' = IF SRQ(o) \in cqs THEN status ELSE "undefined"

initQPForSRQWithSuppliedID(o, id) ==
  /\ o \in m_srqs /\ QP(o, id) = NoQP
  /\ \E n \in FreeNumbers :
       pairs' = With(pairs, n, NewPair(o, SRQ(o))) /\ Recorded(o, id, n)
  /\ m_connectedQPs' = [m_connectedQPs EXCEPT ![o] = @ \cup {id}]
  /\ UseShared(o) /\ Counted
  /\ UNCHANGED <<m_srqs, cqs, posted>>

(* Making a queue pair, or a shared queue, throws.  What was made before   *)
(* stays with the card: a queue pair with its queues, or queues alone.     *)
InitFails(o) ==
  /\ kind = "RC" /\ Live(o) /\ Fails
  /\ \/ /\ \E id \in DOMAIN Partner[o] : QP(o, id) = NoQP
        /\ \E n \in FreeNumbers :
             \/ /\ pairs' = With(pairs, n, NewStray(o, n)) /\ cqs' = cqs \cup {n}
                /\ UNCHANGED status
             \/ /\ o \in m_srqs /\ pairs' = With(pairs, n, NewStray(o, SRQ(o)))
                /\ UseShared(o) /\ UNCHANGED cqs
        /\ UNCHANGED lost
     \/ /\ o \in SRQOwners \ m_srqs \/ \E id \in DOMAIN Partner[o] : QP(o, id) = NoQP
        /\ lost' = lost + 1
        /\ UNCHANGED <<pairs, cqs, status>>
  /\ UNCHANGED <<kind, fields, posted, completed, handles, reported, inits>>
-----------------------------------------------------------------------------
(* Connecting and disconnecting.                                           *)

(* What the other side offers: its queue pair for us, not connected to *)
(* another one of ours.                                                *)
Offered(o, id) ==
  {n \in Numbers : LET p == Partner[o][id] IN
     /\ Live(p) /\ \E i \in DOMAIN Partner[p] : Partner[p][i] = o /\ QP(p, i) = n
     /\ kind = "RC" => pairs[n].state = "INIT" \/ pairs[n].peer = QP(o, id)}

(* setRemoteConnData, then connectQP.  A reliable object does no more for *)
(* an id that m_connected has, connected or not; an unreliable one for an *)
(* id that was disconnected.                                              *)
connectQP(o, id) ==
  /\ Live(o)
  /\ kind = "RC" => QP(o, id) # NoQP /\ pairs[QP(o, id)].state = "INIT"
  /\ \E n \in Offered(o, id) :
       \/ /\ kind = "RC"
          /\ m_rconns' = [m_rconns EXCEPT ![o][id] = [qp |-> n, ah |-> 0]]
          /\ IF id \in DOMAIN m_connected[o] THEN UNCHANGED <<pairs, m_connected>>
             ELSE /\ pairs' = [pairs EXCEPT ![QP(o, id)].state = "RTS",
                                            ![QP(o, id)].peer = n]
                  /\ m_connected' = [m_connected EXCEPT ![o] = With(@, id, TRUE)]
          /\ UNCHANGED handles
       \/ /\ kind = "UD" /\ UNCHANGED pairs
          /\ IF id \in DOMAIN m_connected[o] /\ ~m_connected[o][id]
             THEN /\ m_rconns' = [m_rconns EXCEPT ![o][id] = [qp |-> n, ah |-> 0]]
                  /\ UNCHANGED <<handles, m_connected>>
             ELSE \E h \in 1 .. MaxHandles :
                    /\ h \notin DOMAIN handles
                    /\ \A g \in 1 .. h - 1 : g \in DOMAIN handles
                    /\ handles' = With(handles, h, [owner |-> o, target |-> pairs[n].owner])
                    /\ m_rconns' = [m_rconns EXCEPT ![o][id] = [qp |-> n, ah |-> h]]
                    /\ m_connected' = [m_connected EXCEPT ![o] = With(@, id, TRUE)]
  /\ UNCHANGED <<kind, m_qps, m_qpNum2connID, m_srqs, m_connectedQPs, destroyed, cqs,
                 posted, completed, reported, inits, course>>

(* modifyQPToRTR or modifyQPToRTS throws; the card also refuses a queue    *)
(* pair that an earlier call left at RTR.                                  *)
ConnectFails(o, id) ==
  /\ kind = "RC" /\ Live(o) /\ QP(o, id) # NoQP /\ id \notin DOMAIN m_connected[o]
  /\ \E n \in Offered(o, id) :
       /\ m_rconns' = [m_rconns EXCEPT ![o][id] = [qp |-> n, ah |-> 0]]
       /\ \/ pairs[QP(o, id)].state = "INIT" /\ Fails /\ UNCHANGED pairs
          \/ /\ pairs[QP(o, id)].state = "INIT" /\ Fails
             /\ pairs' = [pairs EXCEPT ![QP(o, id)].state = "RTR", ![QP(o, id)].peer = n]
          \/ pairs[QP(o, id)].state = "RTR" /\ UNCHANGED <<pairs, failures>>
  /\ UNCHANGED <<kind, m_qps, m_connected, m_qpNum2connID, m_srqs, m_connectedQPs, destroyed,
                 cqs, posted, completed, handles, reported, inits, lost, status>>

(* Slip: destroyCQ on a card that lets a queue go that others use. *)
destroyCQAlways(ns) == cqs' = {q \in cqs : \A n \in ns : pairs[n].cq # q}

(* destroyCQ after queue pairs: the card keeps (EBUSY) a queue that others use. *)
destroyCQ(ns) ==
  cqs' = {q \in cqs : \/ \A n \in ns : pairs[n].cq # q
                      \/ \E m \in DOMAIN pairs \ ns : pairs[m].cq = q}

(* What a completion queue keeps, in its order. *)
Remaining(s, ns) ==
  LET kept == {i \in DOMAIN s : s[i].num \notin ns}
      place(i) == Cardinality({j \in kept : j <= i})
  IN  [k \in 1 .. Cardinality(kept) |-> s[CHOOSE i \in kept : place(i) = k]]

(* The card's part of destroying queue pairs. *)
Destroyed(ns) ==
  /\ pairs' = Restrict(pairs, DOMAIN pairs \ ns)
  /\ destroyCQ(ns)
  /\ posted' = [q \in Queues |-> IF q \in ns THEN 0 ELSE posted[q]]
  /\ completed' = [q \in Queues |-> Remaining(completed[q], ns)]

(* Slip: disconnectQP that forgets to record it. *)
disconnectKeepsEntry(o, id) ==
  /\ Live(o) /\ IsConnected(o, id) /\ kind = "RC"
  /\ Destroyed({QP(o, id)})
  /\ m_qps' = [m_qps EXCEPT ![o][id + 1] = NoQP]
  /\ UNCHANGED <<kind, m_connected, m_rconns, m_qpNum2connID, m_srqs, m_connectedQPs, destroyed,
                 handles, reported, inits, course>>

(* When ibv_destroy_qp fails it throws before anything has changed. *)
disconnectQP(o, id) ==
  /\ Live(o) /\ IsConnected(o, id)
  /\ m_connected' = [m_connected EXCEPT ![o][id] = FALSE]
  /\ IF kind = "RC"
     THEN /\ Destroyed({QP(o, id)})
          /\ m_qps' = [m_qps EXCEPT ![o][id + 1] = NoQP]
          /\ UNCHANGED handles
     ELSE /\ handles' = Restrict(handles, DOMAIN handles \ {m_rconns[o][id].ah})
          /\ UNCHANGED <<m_qps, pairs, cqs, posted, completed>>
  /\ UNCHANGED <<kind, m_rconns, m_qpNum2connID, m_srqs, m_connectedQPs, destroyed, reported,
                 inits, course>>

(* What goes with an object; which numbers it had and what it made for a   *)
(* shared queue is remembered, for FreeNumbers and the properties.         *)
Gone(o) ==
  /\ destroyed' = destroyed \cup {o} /\ m_srqs' = m_srqs \ {o}
  /\ m_qps' = [m_qps EXCEPT ![o] = <<>>]
  /\ m_connected' = [m_connected EXCEPT ![o] = <<>>]
  /\ m_rconns' = [m_rconns EXCEPT ![o] = [id \in IDs |-> NoRemote]]
  /\ reported' = [reported EXCEPT ![o] = NoReport]

(* Slip: destroyQPs for the ids that m_connected has as connected. *)
DestroyConnected(o) ==
  /\ Live(o)
  /\ Destroyed(IF kind = "RC" THEN {QP(o, id) : id \in {i \in IDs : IsConnected(o, i)}}
               ELSE {udqp[o]})
  /\ Gone(o) /\ UNCHANGED <<kind, m_qpNum2connID, m_connectedQPs, handles, inits, course>>

(* The shared receive queue cannot be destroyed while a queue pair that no *)
(* vector has uses it.                                                     *)
SharedInUse(o) == \E n \in Strays : pairs[n].cq = SRQ(o)

(* The destructor: destroyQPs. *)
Destroy(o) ==
  /\ Live(o) /\ ~SharedInUse(o)
  /\ Destroyed(IF kind = "RC" THEN {QP(o, id) : id \in IDs} \ {NoQP} ELSE {udqp[o]})
  /\ Gone(o) /\ UNCHANGED <<kind, m_qpNum2connID, m_connectedQPs, handles, inits, course>>

(* The destructor throws, which terminates the program. *)
DestroyThrows(o) ==
  /\ Live(o) /\ SharedInUse(o) /\ status' = "terminated"
  /\ UNCHANGED <<kind, fields, card, reported, inits, failures, lost>>
-----------------------------------------------------------------------------
(* Messages.                                                               *)

Post(q) ==
  /\ Cardinality(UNION {{<<r, i>> : i \in 1 .. posted[r] + Len(completed[r])} : r \in Queues})
       < MaxReceives
  /\ posted' = [posted EXCEPT ![q] = @ + 1]
  /\ UNCHANGED <<kind, fields, pairs, cqs, completed, handles, reported, inits, course>>

OwnQueue(o, id) == IF kind = "UD" THEN udqp[o] ELSE QP(o, id)

receive(o, id) ==
  /\ Live(o) /\ OwnQueue(o, id) \in DOMAIN pairs
  /\ pairs[OwnQueue(o, id)].cq = OwnQueue(o, id)
  /\ Post(OwnQueue(o, id))

receiveSRQ(o) == o \in m_srqs /\ Post(SRQ(o))

(* A message from n arrives at m, if m is there for n and has a receive. *)
Reaches(n, m) ==
  /\ m \in DOMAIN pairs /\ posted[pairs[m].cq] > 0
  /\ kind = "RC" => pairs[m].state \in {"RTR", "RTS"} /\ pairs[m].peer = n

Arrive(o, m) ==
  /\ posted' = [posted EXCEPT ![pairs[m].cq] = @ - 1]
  /\ completed' = [completed EXCEPT ![pairs[m].cq] = Append(@, [num |-> m, from |-> o])]
  /\ UNCHANGED pairs

(* A failed reliable send: the queue pair is in error, and the receives on *)
(* its own queue complete with it.                                         *)
Fail(n) ==
  /\ pairs' = [pairs EXCEPT ![n].state = "ERR"]
  /\ posted' = [q \in Queues |-> IF q = n THEN 0 ELSE posted[q]]
  /\ completed' = [q \in Queues |->
       IF q = n THEN completed[q] \o [i \in 1 .. posted[n] |-> [num |-> n, from |-> NoObject]]
       ELSE completed[q]]

send(o, id) ==
  /\ Live(o) /\ IsConnected(o, id)
  /\ LET n == OwnQueue(o, id)
         m == m_rconns[o][id].qp
     IN  /\ pairs[n].state = "RTS"
         /\ IF Reaches(n, m) THEN Arrive(o, m)
            ELSE IF kind = "RC" THEN Fail(n) ELSE UNCHANGED <<pairs, posted, completed>>
  /\ UNCHANGED <<kind, fields, cqs, handles, reported, inits, course>>

(* A completion with an error makes the poll throw. *)
Poll(q) ==
  /\ completed[q] # <<>>
  /\ completed' = [completed EXCEPT ![q] = Tail(@)]
  /\ UNCHANGED <<kind, fields, pairs, cqs, posted, handles, inits, course>>

pollReceive(o, id) ==
  /\ Live(o) /\ OwnQueue(o, id) \in DOMAIN pairs
  /\ pairs[OwnQueue(o, id)].cq = OwnQueue(o, id)
  /\ Poll(OwnQueue(o, id)) /\ UNCHANGED reported

(* retRdmaConnID for a completion *)
ConnID(o, c) == m_qpNum2connID[o][c.num]

(* When doPoll is cleared before the call looks at it again, it returns    *)
(* what it took and leaves retRdmaConnID alone.                            *)
pollReceiveSRQ(o) ==
  /\ o \in m_srqs
  /\ IF SRQ(o) \in cqs
     THEN /\ Poll(SRQ(o))
          /\ LET c == Head(completed[SRQ(o)])
             IN  \/ reported' = [reported EXCEPT ![o] = [id |-> ConnID(o, c), from |-> c.from]]
                \/ UNCHANGED reported
     ELSE /\ status' = "undefined"
          /\ UNCHANGED <<kind, fields, card, reported, inits, failures, lost>>
-----------------------------------------------------------------------------
Next ==
  /\ status = "runs"
  /\ \E o \in Objects :
       \/ initQP(o) \/ createSharedReceiveQueue(o) \/ Destroy(o)
       \/ InitFails(o) \/ DestroyThrows(o)
       \/ receiveSRQ(o) \/ pollReceiveSRQ(o)
       \/ \E id \in DOMAIN Partner[o] :
            \/ initQPWithSuppliedID(o, id) \/ initQPForSRQWithSuppliedID(o, id)
            \/ connectQP(o, id) \/ disconnectQP(o, id)
            \/ ConnectFails(o, id) \/ receive(o, id) \/ send(o, id) \/ pollReceive(o, id)

Spec == Init /\ [][Next]_vars
-----------------------------------------------------------------------------
IsPartial(f, S, T) == DOMAIN f \subseteq S /\ f \in [DOMAIN f -> T]

PairType == [owner : Objects, state : {"RESET", "INIT", "RTR", "RTS", "ERR"},
             peer : Numbers \cup {NoQP}, cq : Queues]

StateTyped ==
  /\ kind \in {"RC", "UD"}
  /\ m_qps \in [Objects -> Seq(Numbers \cup {NoQP})]
  /\ DOMAIN m_connected = Objects /\ DOMAIN m_qpNum2connID = Objects
  /\ \A o \in Objects : /\ IsPartial(m_connected[o], IDs, BOOLEAN)
                        /\ IsPartial(m_qpNum2connID[o], Numbers, IDs)
  /\ m_rconns \in [Objects -> [IDs -> [qp : Numbers \cup {NoQP}, ah : Handles]]]
  /\ m_srqs \subseteq SRQOwners
  /\ m_connectedQPs \in [Objects -> SUBSET IDs]
  /\ destroyed \subseteq Objects
  /\ IsPartial(pairs, Numbers, PairType)
  /\ cqs \subseteq Queues
  /\ posted \in [Queues -> Nat]
  /\ DOMAIN completed = Queues
  /\ IsPartial(handles, Handles, [owner : Objects, target : Objects])
  /\ inits \in 0 .. MaxInits /\ failures \in 0 .. MaxFailures /\ lost \in Nat
  /\ status \in {"runs", "undefined", "terminated"}

TypeOK ==
  StateTyped /\ reported \in [Objects -> [id : IDs, from : Objects \cup {NoObject}]]

(* What m_connected says is what the card has.  A reliable object's id is   *)
(* connected exactly when its queue pair has been brought up, to the queue  *)
(* pair recorded for it; an unreliable object's id only while the address   *)
(* handle recorded for it is there and leads to the node the id stands for. *)
(* connectQP's early returns (ReliableRDMA.cc:116, UnreliableRDMA.cc:160)   *)
(* skip ids that were disconnected, which must then not count as connected, *)
(* nor may an id whose bringing up failed half-way.                         *)
ConnectedMeansUsable ==
  /\ TypeOK
  /\ \A o \in Objects \ destroyed : \A id \in DOMAIN Partner[o] :
       IF kind = "RC"
       THEN /\ IsConnected(o, id) <=>
                 QP(o, id) # NoQP /\ pairs[QP(o, id)].state \in {"RTS", "ERR"}
            /\ IsConnected(o, id) =>
                 pairs[QP(o, id)].owner = o /\ pairs[QP(o, id)].peer = m_rconns[o][id].qp
       ELSE IsConnected(o, id) =>
              /\ m_rconns[o][id].ah \in DOMAIN handles
              /\ handles[m_rconns[o][id].ah] = [owner |-> o, target |-> Partner[o][id]]

(* The id that pollReceiveSRQ writes for a message is its sender's, also    *)
(* when the number of a destroyed queue pair has come back for another id   *)
(* (where it writes none, the caller's id is whatever it was before:        *)
(* ReliableRDMA.cc:741); and what arrives on an id's own queue comes from   *)
(* the id's partner.                                                        *)
MessagesAttributed ==
  kind = "RC" =>
    \A o \in Objects \ destroyed :
      /\ reported[o].from # NoObject => Partner[o][reported[o].id] = reported[o].from
      /\ \A id \in DOMAIN Partner[o] \ {i \in IDs : QP(o, i) = NoQP} :
           \A c \in Range(completed[pairs[QP(o, id)].cq]) :
             c.num = QP(o, id) => c.from \in {Partner[o][id], NoObject}

(* Every queue pair has the completion queue its receives complete on. *)
EveryPairHasQueue == \A n \in DOMAIN pairs : pairs[n].cq \in cqs

(* Disconnecting one of several queue pairs that share a completion queue   *)
(* leaves it to the others (BaseRDMA.cc:80, EBUSY), and it goes with the    *)
(* last one: until the code uses what is gone, every queue pair has its     *)
(* completion queue, and a shared receive queue has none exactly when it    *)
(* has had queue pairs and has none now, one of a failed call included.     *)
CompletionQueuesStay ==
  status # "undefined" =>
    /\ EveryPairHasQueue
    /\ \A o \in m_srqs : SRQ(o) \in cqs <=>
         m_connectedQPs[o] = {} \/ \E n \in DOMAIN pairs : pairs[n].cq = SRQ(o)

(* The destructor leaves no queue pair behind but those a failed call kept  *)
(* from the vector, no more of these and of unused queues than calls        *)
(* failed, and no completion queue but theirs and that of a shared queue    *)
(* that has had no queue pair.                                              *)
NothingLeaks ==
  /\ Cardinality(Strays) + lost <= failures
  /\ \A o \in destroyed :
       /\ Owned(o) \subseteq Strays
       /\ \A q \in cqs : q \in Numbers => q \in DOMAIN pairs
       /\ SRQ(o) \in cqs => m_connectedQPs[o] = {}
=============================================================================
