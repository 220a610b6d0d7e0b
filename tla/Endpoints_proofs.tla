--------------------------- MODULE Endpoints_proofs --------------------------
(***************************************************************************)
(* What the life of connections keeps, for any objects, ids and numbers:   *)
(* ids that count as connected are usable, a completion queue outlives its *)
(* queue pairs, a destroyed object leaves nothing but what failed calls    *)
(* kept from it, and messages are taken for whose they are.  The argument  *)
(* is that the card has exactly the queue pairs that the vectors of the    *)
(* objects record, each for one id, and at most one stray one for each     *)
(* failed call, and exactly the completion queues these use; and for the   *)
(* messages, that two queue pairs connected to each other belong to        *)
(* partners.                                                               *)
(***************************************************************************)
EXTENDS Endpoints, FiniteSetTheorems, TLAPS

(* One that a failed call left behind, and one that was brought up. *)
IsStray(n) == pairs[n].state = "RESET"
Up(n) == pairs[n].state \in {"RTS", "ERR"}

(* The queue pairs there are, are those the objects record ... *)
HasRecord(n) ==
  LET o == pairs[n].owner
  IN  /\ Live(o) /\ n \in DOMAIN m_qpNum2connID[o]
      /\ IF kind = "RC" THEN \E id \in IDs : QP(o, id) = n ELSE n = udqp[o]

PairsRecorded ==
  \A n \in DOMAIN pairs : IF IsStray(n) THEN kind = "RC" ELSE HasRecord(n)

(* ... for as long as the objects are there, and for one id each ... *)
RecordsPaired ==
  \A o \in Objects \ destroyed :
    /\ \A id \in IDs : QP(o, id) # NoQP =>
         /\ QP(o, id) \in DOMAIN pairs /\ pairs[QP(o, id)].owner = o /\ ~ IsStray(QP(o, id))
         /\ kind = "RC" => \A i \in IDs : QP(o, i) = QP(o, id) => i = id
    /\ kind = "UD" => udqp[o] \in DOMAIN pairs /\ pairs[udqp[o]].owner = o

(* ... and at most one more for each call that failed. *)
StraysCounted == IsFiniteSet(Strays) /\ Cardinality(Strays) + lost <= failures

(* The completion queues there are: the queue pairs' own ones ... *)
QueuesUsed ==
  /\ \A n \in DOMAIN pairs :
       /\ status # "undefined" => pairs[n].cq \in cqs
       /\ pairs[n].cq # n => pairs[n].cq = SRQ(pairs[n].owner) /\ Live(pairs[n].owner)
  /\ \A q \in cqs : q \in Numbers => q \in DOMAIN pairs /\ pairs[q].cq = q
  /\ kind = "UD" => m_srqs = {}

(* ... and those of the shared receive queues that queue pairs use or none *)
(* has used yet.                                                           *)
SharedQueuesUsed ==
  \A o \in Objects :
    /\ SRQ(o) \in cqs /\ m_connectedQPs[o] # {} => \E n \in DOMAIN pairs : pairs[n].cq = SRQ(o)
    /\ Live(o) /\ o \notin m_srqs => m_connectedQPs[o] = {}
    /\ m_connectedQPs[o] = {} =>
         /\ o \in m_srqs => SRQ(o) \in cqs
         /\ \A n \in DOMAIN pairs : pairs[n].cq = SRQ(o) => IsStray(n)

(* A reliable id is connected when its queue pair has been brought up, to  *)
(* the recorded one ...                                                    *)
ReliableConnected ==
  kind = "RC" => \A o \in Objects \ destroyed : \A id \in IDs :
    /\ IsConnected(o, id) <=> QP(o, id) # NoQP /\ Up(QP(o, id))
    /\ IsConnected(o, id) => pairs[QP(o, id)].peer = m_rconns[o][id].qp

(* ... and an unreliable one when it has an address handle of its own. *)
HasHandle(o, id) ==
  /\ id \in DOMAIN Partner[o]
  /\ m_rconns[o][id].ah \in DOMAIN handles
  /\ handles[m_rconns[o][id].ah] = [owner |-> o, target |-> Partner[o][id]]

DatagramsConnected ==
  kind = "UD" => \A o \in Objects \ destroyed : \A id \in IDs : IsConnected(o, id) =>
    /\ HasHandle(o, id)
    /\ \A p \in Objects \ destroyed : \A i \in IDs :
         IsConnected(p, i) /\ m_rconns[p][i].ah = m_rconns[o][id].ah => p = o /\ i = id

IInv ==
  /\ StateTyped
  /\ PairsRecorded /\ RecordsPaired /\ StraysCounted
  /\ QueuesUsed /\ SharedQueuesUsed
  /\ ReliableConnected /\ DatagramsConnected

-----------------------------------------------------------------------------
(* Functions with a part of a set as their domain. *)
LEMMA Extending ==
  ASSUME NEW f, NEW S, NEW T, IsPartial(f, S, T), NEW k \in S, NEW v \in T
  PROVE  /\ IsPartial(With(f, k, v), S, T)
         /\ DOMAIN With(f, k, v) = DOMAIN f \cup {k}
         /\ With(f, k, v)[k] = v
         /\ \A x \in DOMAIN f : x # k => With(f, k, v)[x] = f[x]
BY DEF With, IsPartial

LEMMA Restricting ==
  ASSUME NEW f, NEW S, NEW T, IsPartial(f, S, T), NEW D \in SUBSET DOMAIN f,
         NEW g, g = Restrict(f, D)
  PROVE  /\ IsPartial(g, S, T) /\ DOMAIN g = D
         /\ \A x \in D : g[x] = f[x]
BY DEF IsPartial, Restrict

LEMMA UdqpInjective ==
  /\ udqp \in [Objects -> Numbers]
  /\ \A o, p \in Objects : udqp[o] = udqp[p] => o = p
<1>1. \E f \in [Objects -> Numbers] : IsInjective(f)
  BY EndpointAssumption
<1>2. udqp \in [Objects -> Numbers] /\ IsInjective(udqp)
  BY <1>1 DEF udqp
<1>3. QED
  BY <1>2 DEF IsInjective

LEMMA SRQFacts ==
  ASSUME NEW o \in Objects
  PROVE  SRQ(o) \notin Numbers /\ \A p \in Objects : SRQ(p) = SRQ(o) => p = o
BY EndpointAssumption DEF SRQ

LEMMA QPType ==
  ASSUME StateTyped, NEW o \in Objects, NEW id \in IDs
  PROVE  QP(o, id) \in Numbers \cup {NoQP}
<1>1. m_qps[o] \in Seq(Numbers \cup {NoQP}) /\ id \in Nat
  BY EndpointAssumption DEF StateTyped, IDs
<1>2. id < Len(m_qps[o]) => id + 1 \in 1 .. Len(m_qps[o])
  BY <1>1
<1>3. QED
  BY <1>1, <1>2 DEF QP

(* What setQP changes. *)
LEMMA setQPFacts ==
  ASSUME StateTyped, NEW o \in Objects, NEW id \in IDs, NEW n \in Numbers, setQP(o, id, n)
  PROVE  /\ m_qps' \in [Objects -> Seq(Numbers \cup {NoQP})]
         /\ \A p \in Objects, i \in IDs :
              QP(p, i)' = IF p = o /\ i = id THEN n ELSE QP(p, i)
         /\ DOMAIN m_qpNum2connID' = Objects
         /\ \A p \in Objects : /\ IsPartial(m_qpNum2connID'[p], Numbers, IDs)
                               /\ DOMAIN m_qpNum2connID[p] \subseteq DOMAIN m_qpNum2connID'[p]
         /\ n \in DOMAIN m_qpNum2connID'[o]
<1> DEFINE v == m_qps[o]
           k == IF id < Len(v) THEN Len(v) ELSE id + 1
           w == [i \in 1 .. k |-> IF i = id + 1 THEN n ELSE IF i <= Len(v) THEN v[i] ELSE NoQP]
           f == m_qpNum2connID[o]
           g == With(f, n, id)
<1>1. id \in Nat /\ v \in Seq(Numbers \cup {NoQP}) /\ IsPartial(f, Numbers, IDs)
  BY EndpointAssumption DEF StateTyped, IDs
<1>2. m_qps' = [m_qps EXCEPT ![o] = w]
  BY DEF setQP
<1>3. m_qpNum2connID' = [m_qpNum2connID EXCEPT ![o] = g]
  BY DEF setQP
<1>4. k \in Nat /\ id + 1 \in 1 .. k /\ Len(v) <= k
  BY <1>1
<1>5. w \in Seq(Numbers \cup {NoQP}) /\ Len(w) = k
  <2>1. \A i \in 1 .. k : i <= Len(v) => v[i] \in Numbers \cup {NoQP}
    BY <1>1, <1>4
  <2>2. w \in [1 .. k -> Numbers \cup {NoQP}]
    BY <2>1
  <2>3. QED
    BY <1>4, <2>2
<1>6. m_qps' \in [Objects -> Seq(Numbers \cup {NoQP})] /\ m_qps'[o] = w
      /\ \A p \in Objects : p # o => m_qps'[p] = m_qps[p]
  BY <1>2, <1>5 DEF StateTyped
<1>7. ASSUME NEW i \in IDs
      PROVE  (IF i < Len(w) THEN w[i + 1] ELSE NoQP)
                = IF i = id THEN n ELSE IF i < Len(v) THEN v[i + 1] ELSE NoQP
  <2>1. i \in Nat
    BY EndpointAssumption DEF IDs
  <2>2. i < k <=> i + 1 \in 1 .. k
    BY <1>4, <2>1
  <2>3. i + 1 \in 1 .. k =>
          w[i + 1] = IF i + 1 = id + 1 THEN n ELSE IF i + 1 <= Len(v) THEN v[i + 1] ELSE NoQP
    OBVIOUS
  <2> HIDE DEF w
  <2>4. QED
    BY <1>1, <1>4, <1>5, <2>1, <2>2, <2>3
<1>8. \A p \in Objects, i \in IDs : QP(p, i)' = IF p = o /\ i = id THEN n ELSE QP(p, i)
  <2> TAKE p \in Objects, i \in IDs
  <2> HIDE DEF w
  <2>1. CASE p = o
    BY <1>6, <1>7, <2>1 DEF QP
  <2>2. CASE p # o
    BY <1>6, <2>2 DEF QP
  <2>3. QED
    BY <2>1, <2>2
<1>9. IsPartial(g, Numbers, IDs) /\ DOMAIN g = DOMAIN f \cup {n}
  BY <1>1 DEF With, IsPartial
<1> HIDE DEF g
<1>10. /\ DOMAIN m_qpNum2connID' = Objects
       /\ m_qpNum2connID'[o] = g
       /\ \A p \in Objects : p # o => m_qpNum2connID'[p] = m_qpNum2connID[p]
  BY <1>3 DEF StateTyped
<1>11. QED
  BY <1>6, <1>8, <1>9, <1>10 DEF StateTyped

LEMMA FreeNumbersAreFree ==
  ASSUME StateTyped, NEW n \in FreeNumbers
  PROVE  n \in Numbers \ DOMAIN pairs
<1>1. DOMAIN pairs \subseteq Numbers /\ \A o \in Objects : DOMAIN m_qpNum2connID[o] \subseteq Numbers
  BY DEF StateTyped, IsPartial
<1>2. QED
  BY <1>1 DEF FreeNumbers

(* A step that makes no stray queue pair, and destroys none. *)
LEMMA StraysStay ==
  ASSUME StateTyped, StraysCounted, UNCHANGED lost,
         UNCHANGED failures \/ failures' = failures + 1,
         \A n \in DOMAIN pairs' : IsStray(n)' => n \in DOMAIN pairs /\ IsStray(n),
         \A n \in DOMAIN pairs : IsStray(n) => n \in DOMAIN pairs' /\ IsStray(n)'
  PROVE  StraysCounted' /\ Strays' = Strays
<1>1. Strays' = Strays
  BY DEF Strays, IsStray
<1>2. Cardinality(Strays) \in Nat /\ lost \in Nat /\ failures \in Nat
  BY FS_CardinalityType DEF StraysCounted, StateTyped
<1>3. QED
  BY <1>1, <1>2 DEF StraysCounted

-----------------------------------------------------------------------------
(* Steps that concern the messages only, or failing calls. *)
connections ==
  <<kind, m_qps, m_connected, m_rconns, m_qpNum2connID, m_srqs, m_connectedQPs, destroyed,
    cqs, handles, inits>>

QueuesTyped == posted \in [Queues -> Nat] /\ DOMAIN completed = Queues

(* The invariant tells queue pairs that are brought up, and strays. *)
PairsKept ==
  /\ DOMAIN pairs' = DOMAIN pairs
  /\ \A n \in DOMAIN pairs :
       /\ pairs'[n].owner = pairs[n].owner /\ pairs'[n].peer = pairs[n].peer
       /\ pairs'[n].cq = pairs[n].cq
       /\ IsStray(n)' <=> IsStray(n)
       /\ Up(n)' <=> Up(n)

LEMMA MessagesKeep ==
  ASSUME IInv, UNCHANGED connections, QueuesTyped', IsPartial(pairs, Numbers, PairType)', PairsKept,
         status' \in {"runs", "undefined", "terminated"},
         status' # "undefined" => status # "undefined",
         \/ UNCHANGED <<failures, lost>>
         \/ failures < MaxFailures /\ failures' = failures + 1 /\ lost' = lost + 1
  PROVE  IInv'
<1> USE DEF connections
<1>1. StateTyped /\ \A n \in DOMAIN pairs : pairs[n].owner \in Objects
  BY DEF IInv, StateTyped, IsPartial, PairType
<1>2. lost \in Nat /\ lost' \in Nat /\ failures \in Nat /\ failures' \in 0 .. MaxFailures
  BY <1>1, EndpointAssumption DEF StateTyped
<1>3. StateTyped'
  BY <1>1, <1>2 DEF StateTyped, QueuesTyped
<1>4. \A o, id : QP(o, id)' = QP(o, id) /\ Live(o)' = Live(o)
                /\ IsConnected(o, id)' = IsConnected(o, id)
  BY DEF QP, Live, IsConnected
<1>5. PairsRecorded'
  BY <1>1, <1>4 DEF IInv, PairsRecorded, HasRecord, PairsKept
<1>6. RecordsPaired'
  BY <1>4 DEF IInv, RecordsPaired, PairsKept
<1>7. StraysCounted'
  <2>1. Strays' = Strays
    BY DEF PairsKept, Strays, IsStray
  <2>2. Cardinality(Strays) \in Nat
    BY FS_CardinalityType DEF IInv, StraysCounted
  <2>3. QED
    BY <1>2, <2>1, <2>2 DEF IInv, StraysCounted
<1>8. QueuesUsed' /\ SharedQueuesUsed'
  <2>1. QueuesUsed'
    BY <1>4 DEF IInv, QueuesUsed, PairsKept
  <2>2. SharedQueuesUsed'
    BY <1>4 DEF IInv, SharedQueuesUsed, PairsKept
  <2>3. QED
    BY <2>1, <2>2
<1>9. ReliableConnected'
  BY <1>4 DEF IInv, ReliableConnected, RecordsPaired, PairsKept
<1>10. DatagramsConnected'
  BY <1>4 DEF IInv, DatagramsConnected, HasHandle
<1>11. QED
  BY <1>3, <1>5, <1>6, <1>7, <1>8, <1>9, <1>10 DEF IInv

(* Another queue pair on the card. *)
LEMMA PairAdded ==
  ASSUME StateTyped, NEW n \in FreeNumbers, NEW pair \in PairType, pairs' = With(pairs, n, pair)
  PROVE  /\ n \in Numbers /\ n \notin DOMAIN pairs
         /\ IsPartial(pairs', Numbers, PairType) /\ DOMAIN pairs' = DOMAIN pairs \cup {n}
         /\ pairs'[n] = pair /\ \A m \in DOMAIN pairs : pairs'[m] = pairs[m]
<1>1. IsPartial(pairs, Numbers, PairType) /\ n \in Numbers /\ n \notin DOMAIN pairs
  BY FreeNumbersAreFree DEF StateTyped
<1>2. QED
  BY <1>1 DEF With, IsPartial

LEMMA QueueAdded ==
  ASSUME StateTyped, QueuesUsed, NEW o \in Objects, Live(o), NEW n \in Numbers, NEW q,
         n \notin DOMAIN pairs, DOMAIN pairs' = DOMAIN pairs \cup {n},
         pairs'[n].owner = o, pairs'[n].cq = q, \A m \in DOMAIN pairs : pairs'[m] = pairs[m],
         UNCHANGED <<kind, destroyed, m_srqs>>,
         \/ q = n /\ cqs' = cqs \cup {n} /\ UNCHANGED status
         \/ q = SRQ(o) /\ UNCHANGED cqs /\ UseShared(o)
  PROVE  QueuesUsed'
<1>1. /\ status' # "undefined" => status # "undefined"
      /\ status' # "undefined" => q \in cqs'
      /\ cqs \subseteq cqs' /\ \A r \in cqs' : r \in cqs \/ (r = n /\ q = n)
  BY DEF UseShared
<1>2. \A m \in DOMAIN pairs' :
        /\ status' # "undefined" => pairs'[m].cq \in cqs'
        /\ pairs'[m].cq # m => pairs'[m].cq = SRQ(pairs'[m].owner) /\ Live(pairs[m].owner)'
  BY <1>1 DEF QueuesUsed, Live
<1>3. \A r \in cqs' : r \in Numbers => r \in DOMAIN pairs' /\ pairs'[r].cq = r
  BY <1>1 DEF QueuesUsed
<1>4. QED
  BY <1>2, <1>3 DEF QueuesUsed

(* A new queue pair, for an id without one. *)
LEMMA NewPairKeeps ==
  ASSUME IInv, NEW o \in Objects, NEW id \in DOMAIN Partner[o], NEW n \in FreeNumbers,
         kind = "RC", QP(o, id) = NoQP, Recorded(o, id, n), Counted, UNCHANGED <<m_srqs, posted>>,
         NEW q, pairs' = With(pairs, n, NewPair(o, q)),
         \/ q = n /\ cqs' = cqs \cup {n} /\ UNCHANGED <<m_connectedQPs, status>>
         \/ /\ q = SRQ(o) /\ UseShared(o) /\ UNCHANGED cqs /\ o \in m_srqs
            /\ m_connectedQPs' = [m_connectedQPs EXCEPT ![o] = @ \cup {id}]
  PROVE  IInv'
<1>1. id \in IDs /\ StateTyped /\ q \in Queues /\ NewPair(o, q) \in PairType
  <2>1. id \in IDs /\ StateTyped /\ n \in Numbers
    BY FreeNumbersAreFree, EndpointAssumption DEF IInv, IDs
  <2>2. q \in Queues
    BY <2>1 DEF StateTyped, Queues
  <2>3. QED
    BY <2>1, <2>2 DEF NewPair, PairType
<1>2. /\ n \in Numbers /\ n \notin DOMAIN pairs
      /\ IsPartial(pairs', Numbers, PairType) /\ DOMAIN pairs' = DOMAIN pairs \cup {n}
      /\ pairs'[n] = NewPair(o, q) /\ \A m \in DOMAIN pairs : pairs'[m] = pairs[m]
  BY <1>1, PairAdded
<1>3. /\ pairs'[n].owner = o /\ pairs'[n].cq = q /\ ~ IsStray(n)' /\ ~ Up(n)'
      /\ \A m \in DOMAIN pairs : (IsStray(m)' <=> IsStray(m)) /\ (Up(m)' <=> Up(m))
  BY <1>2 DEF NewPair, IsStray, Up
<1>4. /\ setQP(o, id, n) /\ Live(o) /\ inits + failures < MaxInits /\ inits' = inits + 1
      /\ UNCHANGED <<kind, m_connected, m_rconns, destroyed, completed, handles, failures, lost>>
  BY DEF Recorded, Counted
<1>5. /\ m_qps' \in [Objects -> Seq(Numbers \cup {NoQP})]
      /\ \A p \in Objects, i \in IDs :
           QP(p, i)' = IF p = o /\ i = id THEN n ELSE QP(p, i)
      /\ DOMAIN m_qpNum2connID' = Objects
      /\ \A p \in Objects : /\ IsPartial(m_qpNum2connID'[p], Numbers, IDs)
                            /\ DOMAIN m_qpNum2connID[p] \subseteq DOMAIN m_qpNum2connID'[p]
      /\ n \in DOMAIN m_qpNum2connID'[o]
  BY <1>1, <1>2, <1>4, setQPFacts
<1>6. \A p, i : Live(p)' = Live(p) /\ IsConnected(p, i)' = IsConnected(p, i)
  BY <1>4 DEF Live, IsConnected
<1>7. \A m \in DOMAIN pairs : pairs[m].owner \in Objects
  BY <1>1 DEF StateTyped, IsPartial, PairType
<1>8. StateTyped'
  <2>1. m_connectedQPs' \in [Objects -> SUBSET IDs]
    <3>1. m_connectedQPs[o] \cup {id} \in SUBSET IDs
      BY <1>1 DEF StateTyped
    <3>2. QED
      BY <1>1, <3>1 DEF StateTyped
  <2>2. cqs' \subseteq Queues /\ status' \in {"runs", "undefined", "terminated"}
    BY <1>1, <1>2 DEF StateTyped, Queues, UseShared
  <2>3. inits' \in 0 .. MaxInits
    BY <1>1, <1>4, EndpointAssumption DEF StateTyped
  <2>4. QED
    BY <1>1, <1>2, <1>4, <1>5, <2>1, <2>2, <2>3 DEF StateTyped
<1>9. PairsRecorded'
  <2> SUFFICES ASSUME NEW m \in DOMAIN pairs'
               PROVE  IF IsStray(m)' THEN kind' = "RC" ELSE HasRecord(m)'
    BY DEF PairsRecorded
  <2>1. CASE m = n
    BY <1>1, <1>2, <1>3, <1>4, <1>5, <1>6, <2>1 DEF HasRecord
  <2>2. CASE m \in DOMAIN pairs /\ ~ IsStray(m)
    <3>1. HasRecord(m)
      BY <2>2 DEF IInv, PairsRecorded
    <3>2. pairs'[m].owner = pairs[m].owner /\ pairs[m].owner \in Objects
      BY <1>2, <1>7, <2>2
    <3>3. \A i \in IDs : QP(pairs[m].owner, i) = m => QP(pairs[m].owner, i)' = m
      <4>1. m \in Numbers
        BY <1>1, <2>2 DEF StateTyped, IsPartial
      <4>2. QED
        BY <1>5, <3>2, <4>1, EndpointAssumption
    <3>4. HasRecord(m)'
      BY <1>4, <1>5, <1>6, <3>1, <3>2, <3>3 DEF HasRecord
    <3>5. QED
      BY <1>3, <2>2, <3>4
  <2>3. CASE m \in DOMAIN pairs /\ IsStray(m)
    BY <1>3, <1>4, <2>3
  <2>4. QED
    BY <1>2, <2>1, <2>2, <2>3
<1>10. RecordsPaired'
  <2>1. \A p \in Objects \ destroyed, i \in IDs :
          QP(p, i) # NoQP =>
            QP(p, i) \in DOMAIN pairs /\ pairs[QP(p, i)].owner = p /\ ~ IsStray(QP(p, i))
    BY DEF IInv, RecordsPaired
  <2>2. \A p \in Objects \ destroyed, i, j \in IDs :
          QP(p, i) # NoQP /\ QP(p, j) = QP(p, i) => j = i
    BY DEF IInv, RecordsPaired
  <2>3. ASSUME NEW p \in Objects \ destroyed, NEW i \in IDs, NEW k, k = QP(p, i)', k # NoQP
        PROVE  /\ k \in DOMAIN pairs' /\ pairs'[k].owner = p /\ ~ IsStray(k)'
               /\ \A j \in IDs : QP(p, j)' = k => j = i
    <3>1. CASE p = o /\ i = id
      BY <1>1, <1>2, <1>3, <1>5, <2>1, <2>3, <3>1
    <3>2. CASE ~ (p = o /\ i = id)
      BY <1>1, <1>2, <1>3, <1>5, <2>1, <2>2, <2>3, <3>2
    <3>3. QED
      BY <3>1, <3>2
  <2>4. QED
    BY <1>4, <2>3 DEF RecordsPaired
<1>11. StraysCounted'
  BY <1>1, <1>2, <1>3, <1>4, StraysStay DEF IInv
<1>12. QueuesUsed'
  BY <1>1, <1>2, <1>3, <1>4, QueueAdded DEF IInv
<1>13. SharedQueuesUsed'
  <2> SUFFICES ASSUME NEW p \in Objects
               PROVE  /\ SRQ(p) \in cqs' /\ m_connectedQPs'[p] # {} =>
                           \E m \in DOMAIN pairs' : pairs'[m].cq = SRQ(p)
                      /\ Live(p) /\ p \notin m_srqs => m_connectedQPs'[p] = {}
                      /\ m_connectedQPs'[p] = {} =>
                           /\ p \in m_srqs => SRQ(p) \in cqs'
                           /\ \A m \in DOMAIN pairs' : pairs'[m].cq = SRQ(p) => IsStray(m)'
    BY <1>6 DEF SharedQueuesUsed
  <2>1. SRQ(p) # n /\ (SRQ(p) = SRQ(o) => p = o)
    BY <1>2, SRQFacts
  <2>2. CASE p = o /\ q = SRQ(o)
    <3>1. m_connectedQPs'[p] # {} /\ p \in m_srqs
      BY <1>1, <2>1, <2>2 DEF StateTyped
    <3>2. QED
      BY <1>2, <1>3, <2>2, <3>1
  <2>3. CASE ~ (p = o /\ q = SRQ(o))
    <3>1. /\ m_connectedQPs'[p] = m_connectedQPs[p] /\ (SRQ(p) \in cqs' <=> SRQ(p) \in cqs)
          /\ q # SRQ(p)
      BY <1>1, <2>1, <2>3 DEF StateTyped
    <3>2. QED
      BY <1>2, <1>3, <3>1 DEF IInv, SharedQueuesUsed
  <2>4. QED
    BY <2>2, <2>3
<1>14. ReliableConnected'
  <2> SUFFICES ASSUME NEW p \in Objects \ destroyed, NEW i \in IDs, NEW k, k = QP(p, i)'
               PROVE  /\ IsConnected(p, i) <=> k # NoQP /\ Up(k)'
                      /\ IsConnected(p, i) => pairs'[k].peer = m_rconns[p][i].qp
    BY <1>4, <1>6 DEF ReliableConnected
  <2>1. /\ IsConnected(p, i) <=> QP(p, i) # NoQP /\ Up(QP(p, i))
        /\ IsConnected(p, i) => pairs[QP(p, i)].peer = m_rconns[p][i].qp
        /\ QP(p, i) # NoQP => QP(p, i) \in DOMAIN pairs
    BY DEF IInv, ReliableConnected, RecordsPaired
  <2>2. CASE p = o /\ i = id
    BY <1>3, <1>5, <2>1, <2>2
  <2>3. CASE ~ (p = o /\ i = id)
    BY <1>2, <1>3, <1>5, <2>1, <2>3
  <2>4. QED
    BY <2>2, <2>3
<1>15. DatagramsConnected'
  BY <1>4 DEF DatagramsConnected
<1>16. QED
  BY <1>8, <1>9, <1>10, <1>11, <1>12, <1>13, <1>14, <1>15 DEF IInv

(* A queue pair that could not be brought up. *)
LEMMA StrayKeeps ==
  ASSUME IInv, NEW o \in Objects, NEW n \in FreeNumbers, kind = "RC", Live(o), Fails,
         UNCHANGED <<kind, fields, posted, completed, handles, inits, lost>>,
         NEW q, pairs' = With(pairs, n, NewStray(o, q)),
         \/ q = n /\ cqs' = cqs \cup {n} /\ UNCHANGED status
         \/ q = SRQ(o) /\ UseShared(o) /\ UNCHANGED cqs /\ o \in m_srqs
  PROVE  IInv'
<1> USE DEF fields
<1>1. StateTyped /\ q \in Queues /\ NewStray(o, q) \in PairType
  <2>1. StateTyped /\ n \in Numbers
    BY FreeNumbersAreFree DEF IInv
  <2>2. q \in Queues
    BY <2>1 DEF StateTyped, Queues
  <2>3. QED
    BY <2>1, <2>2 DEF NewStray, NewPair, PairType
<1>2. /\ n \in Numbers /\ n \notin DOMAIN pairs
      /\ IsPartial(pairs', Numbers, PairType) /\ DOMAIN pairs' = DOMAIN pairs \cup {n}
      /\ pairs'[n] = NewStray(o, q) /\ \A m \in DOMAIN pairs : pairs'[m] = pairs[m]
  BY <1>1, PairAdded
<1>3. /\ pairs'[n].owner = o /\ pairs'[n].cq = q /\ IsStray(n)'
      /\ \A m \in DOMAIN pairs : (IsStray(m)' <=> IsStray(m)) /\ (Up(m)' <=> Up(m))
  BY <1>2 DEF NewStray, NewPair, IsStray, Up
<1>4. failures < MaxFailures /\ failures' = failures + 1
  BY DEF Fails
<1>5. \A p, i : /\ QP(p, i)' = QP(p, i) /\ Live(p)' = Live(p)
                /\ IsConnected(p, i)' = IsConnected(p, i)
  BY DEF QP, Live, IsConnected
<1>6. \A m \in DOMAIN pairs : pairs[m].owner \in Objects
  BY <1>1 DEF StateTyped, IsPartial, PairType
<1>7. StateTyped'
  <2>1. cqs' \subseteq Queues /\ status' \in {"runs", "undefined", "terminated"}
    BY <1>1, <1>2 DEF StateTyped, Queues, UseShared
  <2>2. failures' \in 0 .. MaxFailures
    BY <1>1, <1>4, EndpointAssumption DEF StateTyped
  <2>3. QED
    BY <1>1, <1>2, <2>1, <2>2 DEF StateTyped
<1>8. PairsRecorded'
  BY <1>2, <1>3, <1>5, <1>6 DEF IInv, PairsRecorded, HasRecord
<1>9. RecordsPaired'
  BY <1>2, <1>3, <1>5 DEF IInv, RecordsPaired
<1>10. StraysCounted'
  <2>1. Strays' = Strays \cup {n} /\ n \notin Strays
    BY <1>2, <1>3 DEF Strays, IsStray
  <2>2. IsFiniteSet(Strays) /\ Cardinality(Strays) \in Nat /\ Cardinality(Strays) + lost <= failures
    BY FS_CardinalityType DEF IInv, StraysCounted
  <2>3. IsFiniteSet(Strays') /\ Cardinality(Strays') = Cardinality(Strays) + 1
    BY <2>1, <2>2, FS_AddElement
  <2>4. lost \in Nat /\ failures \in Nat /\ lost' = lost
    BY <1>1 DEF StateTyped
  <2>5. QED
    BY <1>4, <2>2, <2>3, <2>4 DEF StraysCounted
<1>11. QueuesUsed'
  BY <1>1, <1>2, <1>3, QueueAdded DEF IInv
<1>12. SharedQueuesUsed'
  <2>1. \A p \in Objects : SRQ(p) # n
    BY <1>2, SRQFacts
  <2>2. QED
    BY <1>2, <1>3, <1>5, <2>1 DEF IInv, SharedQueuesUsed
<1>13. ReliableConnected'
  <2>1. \A p \in Objects \ destroyed, i \in IDs :
          QP(p, i) # NoQP => pairs'[QP(p, i)] = pairs[QP(p, i)] /\ QP(p, i) \in DOMAIN pairs
    BY <1>2 DEF IInv, RecordsPaired
  <2>2. QED
    BY <1>3, <1>5, <2>1 DEF IInv, ReliableConnected
<1>14. DatagramsConnected'
  BY DEF DatagramsConnected
<1>15. QED
  BY <1>7, <1>8, <1>9, <1>10, <1>11, <1>12, <1>13, <1>14 DEF IInv

LEMMA InitFailsKeeps ==
  ASSUME IInv, status = "runs", NEW o \in Objects, InitFails(o)
  PROVE  IInv'
<1>1. /\ kind = "RC" /\ Live(o) /\ Fails
      /\ UNCHANGED <<kind, fields, posted, completed, handles, inits>>
  BY DEF InitFails
<1>2. CASE UNCHANGED lost
  <2>1. /\ UNCHANGED lost
        /\ \E n \in FreeNumbers :
             \/ /\ pairs' = With(pairs, n, NewStray(o, n)) /\ cqs' = cqs \cup {n}
                /\ UNCHANGED status
             \/ /\ o \in m_srqs /\ pairs' = With(pairs, n, NewStray(o, SRQ(o)))
                /\ UseShared(o) /\ UNCHANGED cqs
    BY <1>2 DEF InitFails, IInv, StateTyped
  <2>2. QED
    BY <1>1, <2>1, StrayKeeps
<1>3. CASE lost' = lost + 1 /\ UNCHANGED <<pairs, cqs, status>>
  <2>1. UNCHANGED connections /\ failures < MaxFailures /\ failures' = failures + 1
    BY <1>1, <1>3 DEF connections, fields, Fails
  <2>2. QueuesTyped' /\ IsPartial(pairs, Numbers, PairType)' /\ PairsKept
    BY <1>1, <1>3 DEF IInv, StateTyped, QueuesTyped, PairsKept, IsStray, Up
  <2>3. QED
    BY <1>3, <2>1, <2>2, MessagesKeep
<1>4. QED
  BY <1>2, <1>3 DEF InitFails

(* An id recorded for the queue pair of an unreliable object. *)
LEMMA UdqpRecordedKeeps ==
  ASSUME IInv, NEW o \in Objects, NEW id \in DOMAIN Partner[o],
         kind = "UD", Recorded(o, id, udqp[o]),
         UNCHANGED <<m_srqs, m_connectedQPs, pairs, cqs, posted, inits, status>>
  PROVE  IInv'
<1>1. id \in IDs /\ udqp[o] \in Numbers /\ StateTyped
  BY UdqpInjective, EndpointAssumption DEF IInv, IDs
<1>2. /\ setQP(o, id, udqp[o]) /\ Live(o)
      /\ UNCHANGED <<kind, m_connected, m_rconns, destroyed, completed, handles, failures, lost>>
  BY DEF Recorded
<1>3. /\ m_qps' \in [Objects -> Seq(Numbers \cup {NoQP})]
      /\ \A p \in Objects, i \in IDs :
           QP(p, i)' = IF p = o /\ i = id THEN udqp[o] ELSE QP(p, i)
      /\ DOMAIN m_qpNum2connID' = Objects
      /\ \A p \in Objects : /\ IsPartial(m_qpNum2connID'[p], Numbers, IDs)
                            /\ DOMAIN m_qpNum2connID[p] \subseteq DOMAIN m_qpNum2connID'[p]
  BY <1>1, <1>2, setQPFacts
<1>4. \A p, i : Live(p)' = Live(p) /\ IsConnected(p, i)' = IsConnected(p, i)
  BY <1>2 DEF Live, IsConnected
<1>5. StateTyped'
  BY <1>1, <1>2, <1>3 DEF StateTyped
<1>6. PairsRecorded'
  <2>1. \A m \in DOMAIN pairs : pairs[m].owner \in Objects
    BY <1>1 DEF StateTyped, IsPartial, PairType
  <2>2. QED
    BY <1>2, <1>3, <1>4, <2>1 DEF IInv, PairsRecorded, HasRecord, IsStray
<1>7. RecordsPaired'
  <2>1. udqp[o] \in DOMAIN pairs /\ pairs[udqp[o]].owner = o /\ ~ IsStray(udqp[o])
    BY <1>2 DEF IInv, RecordsPaired, PairsRecorded, Live
  <2>2. \A n : IsStray(n)' <=> IsStray(n)
    BY DEF IsStray
  <2>3. QED
    BY <1>2, <1>3, <2>1, <2>2 DEF IInv, RecordsPaired
<1>8. QueuesUsed' /\ SharedQueuesUsed' /\ StraysCounted'
  <2>1. QueuesUsed' /\ SharedQueuesUsed'
    BY <1>2, <1>4 DEF IInv, QueuesUsed, SharedQueuesUsed, IsStray
  <2>2. StraysCounted'
    BY <1>1, <1>2, StraysStay DEF IInv, IsStray
  <2>3. QED
    BY <2>1, <2>2
<1>9. ReliableConnected'
  BY <1>2 DEF ReliableConnected
<1>10. DatagramsConnected'
  BY <1>2, <1>4 DEF IInv, DatagramsConnected, HasHandle
<1>11. QED
  BY <1>5, <1>6, <1>7, <1>8, <1>9, <1>10 DEF IInv

LEMMA SharedQueueKeeps ==
  ASSUME IInv, NEW o \in Objects, createSharedReceiveQueue(o)
  PROVE  IInv'
<1> USE DEF createSharedReceiveQueue, course
<1>1. \A p, i : /\ Live(p)' = Live(p) /\ IsConnected(p, i)' = IsConnected(p, i)
                /\ QP(p, i)' = QP(p, i) /\ IsStray(p)' = IsStray(p) /\ Up(p)' = Up(p)
  BY DEF Live, IsConnected, QP, IsStray, Up
<1>2. StateTyped'
  BY DEF IInv, StateTyped, Queues
<1>3. PairsRecorded' /\ RecordsPaired' /\ StraysCounted'
  BY <1>1 DEF IInv, PairsRecorded, HasRecord, RecordsPaired, StraysCounted, Strays
<1>4. QueuesUsed'
  <2>1. \A q \in cqs' : q \in Numbers => q \in cqs
    BY SRQFacts
  <2>2. QED
    BY <1>1, <2>1 DEF IInv, QueuesUsed
<1>5. SharedQueuesUsed'
  <2>1. \A p \in Objects : p # o => SRQ(p) # SRQ(o)
    BY SRQFacts
  <2>2. m_connectedQPs[o] = {} /\ SRQ(o) \in cqs'
    BY DEF IInv, SharedQueuesUsed
  <2>3. QED
    BY <1>1, <2>1, <2>2 DEF IInv, SharedQueuesUsed
<1>6. ReliableConnected' /\ DatagramsConnected'
  BY <1>1 DEF IInv, ReliableConnected, DatagramsConnected, HasHandle
<1>7. QED
  BY <1>2, <1>3, <1>4, <1>5, <1>6 DEF IInv

-----------------------------------------------------------------------------
(* Connecting. *)

(* A queue pair that is brought up. *)
LEMMA BroughtUp ==
  ASSUME IsPartial(pairs, Numbers, PairType), NEW k \in DOMAIN pairs, NEW n \in Numbers,
         NEW st \in {"RTR", "RTS"}, pairs' = [pairs EXCEPT ![k].state = st, ![k].peer = n]
  PROVE  /\ IsPartial(pairs', Numbers, PairType) /\ DOMAIN pairs' = DOMAIN pairs
         /\ \A m \in DOMAIN pairs : m # k => pairs'[m] = pairs[m]
         /\ pairs'[k].owner = pairs[k].owner /\ pairs'[k].cq = pairs[k].cq
         /\ pairs'[k].state = st /\ pairs'[k].peer = n
<1>1. pairs[k] \in PairType
  BY DEF IsPartial
<1>2. /\ DOMAIN pairs' = DOMAIN pairs /\ pairs' = [m \in DOMAIN pairs |-> pairs'[m]]
      /\ \A m \in DOMAIN pairs : m # k => pairs'[m] = pairs[m]
      /\ pairs'[k] = [pairs[k] EXCEPT !.state = st, !.peer = n]
  OBVIOUS
<1>3. /\ pairs'[k] \in PairType
      /\ pairs'[k].owner = pairs[k].owner /\ pairs'[k].cq = pairs[k].cq
      /\ pairs'[k].state = st /\ pairs'[k].peer = n
  BY <1>1, <1>2 DEF PairType
<1>4. IsPartial(pairs', Numbers, PairType)
  BY <1>2, <1>3 DEF IsPartial
<1>5. QED
  BY <1>2, <1>3, <1>4

(* An id that m_connected gets as connected. *)
LEMMA ConnectedFacts ==
  ASSUME StateTyped, NEW o \in Objects, NEW id \in IDs,
         m_connected' = [m_connected EXCEPT ![o] = With(@, id, TRUE)]
  PROVE  /\ DOMAIN m_connected' = Objects
         /\ \A p \in Objects : IsPartial(m_connected'[p], IDs, BOOLEAN)
         /\ IsConnected(o, id)'
         /\ \A p \in Objects, i \in IDs : ~ (p = o /\ i = id) =>
              IsConnected(p, i)' = IsConnected(p, i)
<1> DEFINE c == m_connected[o]
           d == With(c, id, TRUE)
<1>1. DOMAIN m_connected = Objects /\ \A p \in Objects : IsPartial(m_connected[p], IDs, BOOLEAN)
  BY DEF StateTyped
<1>2. /\ DOMAIN m_connected' = Objects /\ m_connected'[o] = d
      /\ \A p \in Objects : p # o => m_connected'[p] = m_connected[p]
  BY <1>1
<1>3. DOMAIN d = DOMAIN c \cup {id} /\ \A i \in DOMAIN c : i # id => d[i] = c[i]
  BY DEF With
<1>4. d[id] = TRUE
  BY DEF With
<1>5. IsPartial(d, IDs, BOOLEAN)
  <2>1. TRUE \in BOOLEAN
    OBVIOUS
  <2>2. IsPartial(c, IDs, BOOLEAN)
    BY <1>1
  <2>3. QED
    BY <2>1, <2>2, Extending, Zenon
<1> HIDE DEF c, d
<1>6. \A p \in Objects : IsPartial(m_connected'[p], IDs, BOOLEAN)
  BY <1>1, <1>2, <1>5, Zenon
<1>7. IsConnected(o, id)'
  BY <1>2, <1>3, <1>4, Zenon DEF IsConnected
<1>8. \A i \in IDs : i # id => IsConnected(o, i)' = IsConnected(o, i)
  BY <1>2, <1>3, Zenon DEF IsConnected, c
<1>9. \A p \in Objects, i \in IDs : p # o => IsConnected(p, i)' = IsConnected(p, i)
  BY <1>2, Zenon DEF IsConnected
<1>10. QED
  BY <1>2, <1>6, <1>7, <1>8, <1>9, Zenon

(* A reliable id that was not connected is: its queue pair is brought up,  *)
(* or left half-way or alone by a call that fails.                         *)
LEMMA ConnectReliableKeeps ==
  ASSUME IInv, NEW o \in Objects, NEW id \in DOMAIN Partner[o], NEW n \in Numbers, Live(o),
         kind = "RC", QP(o, id) # NoQP, ~ IsConnected(o, id), NEW st \in {"RTR", "RTS"},
         m_rconns' = [m_rconns EXCEPT ![o][id] = [qp |-> n, ah |-> 0]],
         \/ UNCHANGED <<pairs, m_connected>>
         \/ /\ pairs' = [pairs EXCEPT ![QP(o, id)].state = st, ![QP(o, id)].peer = n]
            /\ \/ st = "RTS" /\ m_connected' = [m_connected EXCEPT ![o] = With(@, id, TRUE)]
               \/ st = "RTR" /\ UNCHANGED m_connected,
         UNCHANGED failures \/ Fails,
         UNCHANGED <<kind, m_qps, m_qpNum2connID, m_srqs, m_connectedQPs, destroyed, cqs,
                     posted, completed, handles, inits, lost, status>>
  PROVE  IInv'
<1> DEFINE k == QP(o, id)
           Recording == m_connected' = [m_connected EXCEPT ![o] = With(@, id, TRUE)]
<1>1. id \in IDs /\ StateTyped /\ o \in Objects \ destroyed
  BY EndpointAssumption DEF IInv, IDs, Live
<1>2. k \in DOMAIN pairs /\ pairs[k].owner = o /\ ~ IsStray(k) /\ ~ Up(k)
  BY <1>1 DEF IInv, RecordsPaired, ReliableConnected
<1>3. IsPartial(pairs, Numbers, PairType)
  BY <1>1 DEF StateTyped
<1> HIDE DEF k
<1>4. \/ UNCHANGED <<pairs, m_connected>>
      \/ pairs'[k].state = "RTS" /\ pairs'[k].peer = n /\ Recording
      \/ pairs'[k].state = "RTR" /\ UNCHANGED m_connected
  <2>1. CASE UNCHANGED <<pairs, m_connected>>
    BY <2>1
  <2>2. CASE /\ pairs' = [pairs EXCEPT ![k].state = st, ![k].peer = n]
             /\ (st = "RTS" /\ Recording) \/ (st = "RTR" /\ UNCHANGED m_connected)
    <3>1. pairs'[k].state = st /\ pairs'[k].peer = n
      BY <1>2, <1>3, <2>2, BroughtUp
    <3> HIDE DEF Recording
    <3>2. QED
      BY <2>2, <3>1
  <2>3. QED
    BY <2>1, <2>2 DEF k
<1>5. /\ IsPartial(pairs', Numbers, PairType) /\ DOMAIN pairs' = DOMAIN pairs
      /\ \A m \in DOMAIN pairs :
           /\ pairs'[m].owner = pairs[m].owner /\ pairs'[m].cq = pairs[m].cq
           /\ m # k => pairs'[m] = pairs[m]
  BY <1>2, <1>3, BroughtUp DEF k
<1>6. \A m \in DOMAIN pairs : IsStray(m)' <=> IsStray(m)
  BY <1>2, <1>4, <1>5 DEF IsStray
<1>7. /\ DOMAIN m_connected' = Objects
      /\ \A p \in Objects : IsPartial(m_connected'[p], IDs, BOOLEAN)
      /\ \A p \in Objects, i \in IDs : ~ (p = o /\ i = id) =>
           IsConnected(p, i)' = IsConnected(p, i)
      /\ Recording => IsConnected(o, id)'
      /\ UNCHANGED m_connected => ~ IsConnected(o, id)'
  <2>1. CASE UNCHANGED m_connected
    <3>1. m_connected' # [m_connected EXCEPT ![o] = With(@, id, TRUE)] \/ IsConnected(o, id)'
      BY <1>1, ConnectedFacts
    <3>2. QED
      BY <1>1, <2>1, <3>1 DEF StateTyped, IsConnected
  <2>2. CASE Recording
    <3>1. /\ DOMAIN m_connected' = Objects
          /\ \A p \in Objects : IsPartial(m_connected'[p], IDs, BOOLEAN)
          /\ IsConnected(o, id)'
          /\ \A p \in Objects, i \in IDs : ~ (p = o /\ i = id) =>
               IsConnected(p, i)' = IsConnected(p, i)
      BY <1>1, <2>2, ConnectedFacts
    <3>2. UNCHANGED m_connected => ~ IsConnected(o, id)'
      BY DEF IsConnected
    <3>3. QED
      BY <3>1, <3>2
  <2>3. QED
    BY <1>4, <2>1, <2>2
<1>8. /\ \A p \in Objects, i \in IDs : ~ (p = o /\ i = id) => m_rconns'[p][i] = m_rconns[p][i]
      /\ m_rconns'[o][id] = [qp |-> n, ah |-> 0]
      /\ m_rconns' \in [Objects -> [IDs -> [qp : Numbers \cup {NoQP}, ah : Handles]]]
  <2>1. 0 \in Handles
    BY EndpointAssumption DEF Handles
  <2>2. QED
    BY <1>1, <2>1 DEF StateTyped
<1>9. \A p, i : QP(p, i)' = QP(p, i) /\ Live(p)' = Live(p)
  BY DEF QP, Live
<1>10. StateTyped'
  <2>1. failures' \in 0 .. MaxFailures
    BY <1>1, EndpointAssumption DEF StateTyped, Fails
  <2>2. QED
    BY <1>1, <1>5, <1>7, <1>8, <2>1 DEF StateTyped
<1>11. PairsRecorded'
  BY <1>5, <1>6, <1>9 DEF IInv, PairsRecorded, HasRecord
<1>12. RecordsPaired'
  BY <1>5, <1>6, <1>9 DEF IInv, RecordsPaired
<1>13. StraysCounted'
  BY <1>1, <1>5, <1>6, StraysStay DEF IInv, Fails
<1>14. QueuesUsed'
  BY <1>5, <1>9 DEF IInv, QueuesUsed
<1>15. SharedQueuesUsed'
  BY <1>5, <1>6, <1>9 DEF IInv, SharedQueuesUsed
<1>16. ReliableConnected'
  <2> SUFFICES ASSUME NEW p \in Objects \ destroyed, NEW i \in IDs
               PROVE  /\ IsConnected(p, i)' <=>
                           QP(p, i) # NoQP /\ pairs'[QP(p, i)].state \in {"RTS", "ERR"}
                      /\ IsConnected(p, i)' => pairs'[QP(p, i)].peer = m_rconns'[p][i].qp
    BY <1>9 DEF ReliableConnected, Up
  <2>1. /\ IsConnected(p, i) <=> QP(p, i) # NoQP /\ Up(QP(p, i))
        /\ IsConnected(p, i) => pairs[QP(p, i)].peer = m_rconns[p][i].qp
        /\ QP(p, i) # NoQP => QP(p, i) \in DOMAIN pairs /\ pairs[QP(p, i)].owner = p
    BY DEF IInv, ReliableConnected, RecordsPaired
  <2>2. CASE p = o /\ i = id
    <3>1. k # NoQP /\ k = QP(p, i)
      BY <2>2 DEF k
    <3>2. CASE UNCHANGED <<pairs, m_connected>>
      BY <1>2, <1>7, <2>2, <3>1, <3>2 DEF Up
    <3>3. CASE pairs'[k].state = "RTS" /\ pairs'[k].peer = n /\ Recording
      BY <1>7, <1>8, <2>2, <3>1, <3>3 DEF Up
    <3>4. CASE pairs'[k].state = "RTR" /\ UNCHANGED m_connected
      BY <1>7, <2>2, <3>1, <3>4 DEF Up
    <3>5. QED
      BY <1>4, <3>2, <3>3, <3>4
  <2>3. CASE ~ (p = o /\ i = id)
    <3>1. QP(p, i) # NoQP => QP(p, i) # k
      BY <1>1, <1>2, <2>1, <2>3 DEF IInv, RecordsPaired, k
    <3>2. QED
      BY <1>5, <1>7, <1>8, <2>1, <2>3, <3>1 DEF Up
  <2>4. QED
    BY <2>2, <2>3
<1>17. DatagramsConnected'
  BY DEF DatagramsConnected
<1>18. QED
  BY <1>10, <1>11, <1>12, <1>13, <1>14, <1>15, <1>16, <1>17 DEF IInv

LEMMA ConnectDatagramKeeps ==
  ASSUME IInv, NEW o \in Objects, NEW id \in DOMAIN Partner[o], NEW n \in Offered(o, id), Live(o),
         kind = "UD",
         \/ /\ id \in DOMAIN m_connected[o] /\ ~ m_connected[o][id]
            /\ m_rconns' = [m_rconns EXCEPT ![o][id] = [qp |-> n, ah |-> 0]]
            /\ UNCHANGED <<handles, m_connected>>
         \/ \E h \in 1 .. MaxHandles :
              /\ h \notin DOMAIN handles
              /\ handles' = With(handles, h, [owner |-> o, target |-> pairs[n].owner])
              /\ m_rconns' = [m_rconns EXCEPT ![o][id] = [qp |-> n, ah |-> h]]
              /\ m_connected' = [m_connected EXCEPT ![o] = With(@, id, TRUE)],
         UNCHANGED <<kind, m_qps, m_qpNum2connID, m_srqs, m_connectedQPs, destroyed, pairs, cqs,
                     posted, completed, inits, course>>
  PROVE  IInv'
<1> USE DEF course
<1>1. /\ id \in IDs /\ n \in Numbers /\ StateTyped /\ o \in Objects \ destroyed
      /\ Partner[o][id] \in Objects
  BY EndpointAssumption DEF IInv, IDs, Live, Offered, Range
<1>2. pairs[n].owner = Partner[o][id]
  <2> DEFINE p == Partner[o][id]
  <2>1. PICK i \in DOMAIN Partner[p] : Live(p) /\ QP(p, i) = n
    BY DEF Offered
  <2>2. i \in IDs /\ n # NoQP /\ p \in Objects \ destroyed
    BY <1>1, <2>1, EndpointAssumption DEF IDs, Live
  <2> HIDE DEF p
  <2>3. pairs[n].owner = p
    BY <2>1, <2>2 DEF IInv, RecordsPaired
  <2>4. QED
    BY <2>3 DEF p
<1>3. \A p, i : QP(p, i)' = QP(p, i) /\ Live(p)' = Live(p)
  BY DEF QP, Live
<1>4. /\ PairsRecorded' /\ RecordsPaired' /\ StraysCounted'
      /\ QueuesUsed' /\ SharedQueuesUsed' /\ ReliableConnected'
  <2>1. \A m : IsStray(m)' = IsStray(m)
    BY DEF IsStray
  <2>2. PairsRecorded' /\ RecordsPaired' /\ StraysCounted'
    BY <1>3, <2>1 DEF IInv, PairsRecorded, HasRecord, RecordsPaired, StraysCounted, Strays
  <2>3. QueuesUsed' /\ SharedQueuesUsed' /\ ReliableConnected'
    BY <1>3, <2>1 DEF IInv, QueuesUsed, SharedQueuesUsed, ReliableConnected
  <2>4. QED
    BY <2>2, <2>3
<1>5. CASE /\ id \in DOMAIN m_connected[o] /\ ~ m_connected[o][id]
           /\ m_rconns' = [m_rconns EXCEPT ![o][id] = [qp |-> n, ah |-> 0]]
           /\ UNCHANGED <<handles, m_connected>>
  <2>1. ~ IsConnected(o, id) /\ \A p, i : IsConnected(p, i)' = IsConnected(p, i)
    BY <1>5 DEF IsConnected
  <2>2. /\ m_rconns' \in [Objects -> [IDs -> [qp : Numbers \cup {NoQP}, ah : Handles]]]
        /\ \A p \in Objects, i \in IDs :
             ~ (p = o /\ i = id) => m_rconns'[p][i] = m_rconns[p][i]
    BY <1>1, <1>5, EndpointAssumption DEF StateTyped, Handles
  <2>3. StateTyped'
    BY <1>1, <1>5, <2>2 DEF StateTyped
  <2>4. DatagramsConnected'
    BY <1>5, <2>1, <2>2 DEF IInv, DatagramsConnected, HasHandle
  <2>5. QED
    BY <1>4, <2>3, <2>4 DEF IInv
<1>6. ASSUME NEW h \in 1 .. MaxHandles, h \notin DOMAIN handles,
             handles' = With(handles, h, [owner |-> o, target |-> pairs[n].owner]),
             m_rconns' = [m_rconns EXCEPT ![o][id] = [qp |-> n, ah |-> h]],
             m_connected' = [m_connected EXCEPT ![o] = With(@, id, TRUE)]
      PROVE  IInv'
  <2> DEFINE handle == [owner |-> o, target |-> Partner[o][id]]
  <2>1. /\ DOMAIN m_connected' = Objects
        /\ \A p \in Objects : IsPartial(m_connected'[p], IDs, BOOLEAN)
        /\ IsConnected(o, id)'
        /\ \A p \in Objects, i \in IDs : ~ (p = o /\ i = id) =>
             IsConnected(p, i)' = IsConnected(p, i)
    BY <1>1, <1>6, ConnectedFacts
  <2>2. h \in Handles
    BY EndpointAssumption DEF Handles
  <2>3. /\ m_rconns' \in [Objects -> [IDs -> [qp : Numbers \cup {NoQP}, ah : Handles]]]
        /\ \A p \in Objects, i \in IDs :
             ~ (p = o /\ i = id) => m_rconns'[p][i] = m_rconns[p][i]
        /\ m_rconns'[o][id].ah = h
    BY <1>1, <1>6, <2>2 DEF StateTyped
  <2>4. /\ IsPartial(handles', Handles, [owner : Objects, target : Objects])
        /\ DOMAIN handles' = DOMAIN handles \cup {h}
        /\ handles'[h] = handle /\ \A g \in DOMAIN handles : handles'[g] = handles[g]
    <3>1. IsPartial(handles, Handles, [owner : Objects, target : Objects])
      BY <1>1 DEF StateTyped
    <3>2. handle \in [owner : Objects, target : Objects] /\ handles' = With(handles, h, handle)
      BY <1>1, <1>2, <1>6
    <3> HIDE DEF handle
    <3>3. QED
      BY <1>6, <2>2, <3>1, <3>2 DEF With, IsPartial
  <2>5. StateTyped'
    BY <1>1, <2>1, <2>3, <2>4 DEF StateTyped
  <2>6. DatagramsConnected'
    <3>1. \A p \in Objects \ destroyed, i \in IDs : IsConnected(p, i) /\ ~ (p = o /\ i = id) =>
            HasHandle(p, i)' /\ m_rconns'[p][i].ah # h
      BY <1>6, <2>3, <2>4 DEF IInv, DatagramsConnected, HasHandle
    <3>2. HasHandle(o, id)'
      BY <2>3, <2>4 DEF HasHandle
    <3>3. ASSUME NEW p \in Objects \ destroyed, NEW i \in IDs, IsConnected(p, i)',
                 NEW r \in Objects \ destroyed, NEW j \in IDs, IsConnected(r, j)',
                 m_rconns'[r][j].ah = m_rconns'[p][i].ah
          PROVE  r = p /\ j = i
      <4>1. CASE p = o /\ i = id
        BY <1>1, <2>1, <2>3, <3>1, <3>3, <4>1
      <4>2. CASE r = o /\ j = id
        BY <1>1, <2>1, <2>3, <3>1, <3>3, <4>2
      <4>3. CASE ~ (p = o /\ i = id) /\ ~ (r = o /\ j = id)
        <5>1. IsConnected(p, i) /\ IsConnected(r, j)
          BY <2>1, <3>3, <4>3
        <5>2. m_rconns[r][j].ah = m_rconns[p][i].ah
          BY <2>3, <3>3, <4>3
        <5>3. QED
          BY <5>1, <5>2 DEF IInv, DatagramsConnected
      <4>4. QED
        BY <4>1, <4>2, <4>3
    <3>4. \A p \in Objects \ destroyed, i \in IDs : IsConnected(p, i)' => HasHandle(p, i)'
      BY <2>1, <3>1, <3>2
    <3>5. QED
      BY <3>3, <3>4 DEF DatagramsConnected
  <2>7. QED
    BY <1>4, <2>5, <2>6 DEF IInv
<1>7. QED
  BY <1>5, <1>6

-----------------------------------------------------------------------------
(* Disconnecting and destroying. *)

(* What destroying queue pairs leaves of the card. *)
LEMMA PairsDestroyed ==
  ASSUME StateTyped, NEW ns \in SUBSET DOMAIN pairs, Destroyed(ns)
  PROVE  /\ IsPartial(pairs', Numbers, PairType) /\ DOMAIN pairs' = DOMAIN pairs \ ns
         /\ \A m \in DOMAIN pairs' : pairs'[m] = pairs[m]
         /\ QueuesTyped'
<1>1. /\ IsPartial(pairs', Numbers, PairType) /\ DOMAIN pairs' = DOMAIN pairs \ ns
      /\ \A m \in DOMAIN pairs' : pairs'[m] = pairs[m]
  <2>1. IsPartial(pairs, Numbers, PairType)
    BY DEF StateTyped
  <2>2. pairs' = [m \in DOMAIN pairs \ ns |-> pairs[m]]
    BY DEF Destroyed, Restrict
  <2>3. QED
    BY <2>1, <2>2 DEF IsPartial
<1>2. QueuesTyped'
  <2>1. posted \in [Queues -> Nat]
    BY DEF StateTyped
  <2>2. posted' = [q \in Queues |-> IF q \in ns THEN 0 ELSE posted[q]]
    BY DEF Destroyed
  <2>3. DOMAIN completed' = Queues
    BY DEF Destroyed
  <2>4. QED
    BY <2>1, <2>2, <2>3 DEF QueuesTyped
<1>3. QED
  BY <1>1, <1>2

LEMMA DestroyedFacts ==
  ASSUME IInv, status = "runs", NEW ns \in SUBSET DOMAIN pairs, Destroyed(ns),
         \A n \in ns : ~ IsStray(n), UNCHANGED m_connectedQPs
  PROVE  /\ cqs' \subseteq cqs
         /\ \A m \in DOMAIN pairs' : pairs'[m].cq \in cqs'
         /\ \A q \in cqs' : q \in Numbers => q \in DOMAIN pairs' /\ pairs'[q].cq = q
         /\ \A p \in Objects :
              /\ SRQ(p) \in cqs' /\ m_connectedQPs'[p] # {} =>
                   \E m \in DOMAIN pairs' : pairs'[m].cq = SRQ(p)
              /\ SRQ(p) \in cqs /\ m_connectedQPs'[p] = {} => SRQ(p) \in cqs'
              /\ m_connectedQPs'[p] = {} =>
                   \A m \in DOMAIN pairs' : pairs'[m].cq = SRQ(p) => IsStray(m)'
         /\ \A m \in DOMAIN pairs' : IsStray(m)' <=> IsStray(m)
         /\ \A m \in DOMAIN pairs : IsStray(m) => m \in DOMAIN pairs'
<1>1. DOMAIN pairs' = DOMAIN pairs \ ns /\ \A m \in DOMAIN pairs' : pairs'[m] = pairs[m]
  BY PairsDestroyed DEF IInv
<1>2. cqs' = {q \in cqs : \/ \A n \in ns : pairs[n].cq # q
                         \/ \E m \in DOMAIN pairs \ ns : pairs[m].cq = q}
  BY DEF Destroyed, destroyCQ
<1>3. \A n \in DOMAIN pairs :
        pairs[n].cq \in cqs /\ (pairs[n].cq = n \/ pairs[n].cq = SRQ(pairs[n].owner))
  BY DEF IInv, QueuesUsed
<1>4. \A m \in DOMAIN pairs' : pairs'[m].cq \in cqs'
  BY <1>1, <1>2, <1>3
<1>5. \A n \in DOMAIN pairs : pairs[n].owner \in Objects
  BY DEF IInv, StateTyped, IsPartial, PairType
<1>6. ASSUME NEW q \in cqs', q \in Numbers
      PROVE  q \in DOMAIN pairs' /\ pairs'[q].cq = q
  <2>1. q \in DOMAIN pairs /\ pairs[q].cq = q
    BY <1>2, <1>6 DEF IInv, QueuesUsed
  <2>2. \A m \in DOMAIN pairs : pairs[m].cq = q => m = q
    BY <1>3, <1>5, <1>6, SRQFacts
  <2>3. QED
    BY <1>1, <1>2, <2>1, <2>2
<1>7. \A m \in DOMAIN pairs' : IsStray(m)' <=> IsStray(m)
  BY <1>1 DEF IsStray
<1>8. ASSUME NEW p \in Objects, m_connectedQPs[p] # {}, SRQ(p) \in cqs'
      PROVE  \E m \in DOMAIN pairs' : pairs'[m].cq = SRQ(p)
  <2>1. PICK n \in DOMAIN pairs : pairs[n].cq = SRQ(p)
    BY <1>2, <1>8 DEF IInv, SharedQueuesUsed
  <2>2. QED
    BY <1>1, <1>2, <1>8, <2>1
<1>9. ASSUME NEW p \in Objects, m_connectedQPs[p] = {}
      PROVE  /\ SRQ(p) \in cqs => SRQ(p) \in cqs'
             /\ \A m \in DOMAIN pairs' : pairs'[m].cq = SRQ(p) => IsStray(m)'
  <2>1. \A m \in DOMAIN pairs : pairs[m].cq = SRQ(p) => IsStray(m)
    BY <1>9 DEF IInv, SharedQueuesUsed
  <2>2. QED
    BY <1>1, <1>2, <1>7, <2>1
<1>10. QED
  BY <1>1, <1>2, <1>4, <1>6, <1>7, <1>8, <1>9

(* An id that m_connected gets as disconnected. *)
LEMMA DisconnectedFacts ==
  ASSUME StateTyped, NEW o \in Objects, NEW id \in IDs, IsConnected(o, id),
         m_connected' = [m_connected EXCEPT ![o][id] = FALSE]
  PROVE  /\ DOMAIN m_connected' = Objects
         /\ \A p \in Objects : IsPartial(m_connected'[p], IDs, BOOLEAN)
         /\ ~ IsConnected(o, id)'
         /\ \A p \in Objects, i \in IDs : ~ (p = o /\ i = id) =>
              IsConnected(p, i)' = IsConnected(p, i)
<1> DEFINE c == m_connected[o]
           d == [c EXCEPT ![id] = FALSE]
<1>1. DOMAIN m_connected = Objects /\ \A p \in Objects : IsPartial(m_connected[p], IDs, BOOLEAN)
  BY DEF StateTyped
<1>2. /\ DOMAIN m_connected' = Objects /\ m_connected'[o] = d
      /\ \A p \in Objects : p # o => m_connected'[p] = m_connected[p]
  BY <1>1
<1>3. DOMAIN d = DOMAIN c /\ \A i \in DOMAIN c : i # id => d[i] = c[i]
  OBVIOUS
<1>4. id \in DOMAIN c
  BY DEF IsConnected
<1>5. ~ d[id]
  BY <1>4
<1>6. IsPartial(d, IDs, BOOLEAN)
  <2>1. c \in [DOMAIN c -> BOOLEAN] /\ DOMAIN c \subseteq IDs
    BY <1>1 DEF IsPartial
  <2>2. d \in [DOMAIN c -> BOOLEAN]
    BY <2>1
  <2> HIDE DEF c, d
  <2>3. QED
    BY <1>3, <2>1, <2>2 DEF IsPartial
<1> HIDE DEF d
<1>7. \A p \in Objects : IsPartial(m_connected'[p], IDs, BOOLEAN)
  BY <1>1, <1>2, <1>6, Zenon
<1>8. ~ IsConnected(o, id)'
  BY <1>2, <1>5, Zenon DEF IsConnected
<1>9. \A i \in IDs : i # id => IsConnected(o, i)' = IsConnected(o, i)
  BY <1>2, <1>3, Zenon DEF IsConnected
<1>10. \A p \in Objects, i \in IDs : p # o => IsConnected(p, i)' = IsConnected(p, i)
  BY <1>2, Zenon DEF IsConnected
<1>11. QED
  BY <1>2, <1>7, <1>8, <1>9, <1>10, Zenon

LEMMA DisconnectReliableKeeps ==
  ASSUME IInv, status = "runs", NEW o \in Objects, NEW id \in IDs, kind = "RC",
         disconnectQP(o, id)
  PROVE  IInv'
<1> DEFINE k == QP(o, id)
<1>1. /\ Live(o) /\ IsConnected(o, id) /\ Destroyed({k}) /\ StateTyped /\ o \in Objects \ destroyed
      /\ m_connected' = [m_connected EXCEPT ![o][id] = FALSE]
      /\ m_qps' = [m_qps EXCEPT ![o][id + 1] = NoQP]
      /\ UNCHANGED <<kind, m_rconns, m_qpNum2connID, m_srqs, m_connectedQPs, destroyed, inits,
                     handles, failures, lost, status>>
  BY DEF disconnectQP, IInv, Live, course
<1>2. /\ k # NoQP /\ k \in DOMAIN pairs /\ pairs[k].owner = o /\ ~ IsStray(k)
      /\ \A j \in IDs : QP(o, j) = k => j = id
  BY <1>1 DEF IInv, ReliableConnected, RecordsPaired
<1>3. /\ m_qps' \in [Objects -> Seq(Numbers \cup {NoQP})]
      /\ \A p \in Objects, i \in IDs : QP(p, i)' = IF p = o /\ i = id THEN NoQP ELSE QP(p, i)
  <2> DEFINE v == m_qps[o]
             w == [v EXCEPT ![id + 1] = NoQP]
  <2>1. id \in Nat /\ IDs \subseteq Nat /\ v \in Seq(Numbers \cup {NoQP}) /\ id + 1 \in 1 .. Len(v)
    BY <1>1, <1>2, EndpointAssumption DEF StateTyped, IDs, QP
  <2>2. /\ w \in Seq(Numbers \cup {NoQP}) /\ Len(w) = Len(v)
        /\ \A i \in 1 .. Len(v) : w[i] = IF i = id + 1 THEN NoQP ELSE v[i]
    BY <2>1
  <2>3. m_qps'[o] = w /\ \A p \in Objects : p # o => m_qps'[p] = m_qps[p]
    BY <1>1 DEF StateTyped
  <2>4. m_qps' \in [Objects -> Seq(Numbers \cup {NoQP})]
    BY <1>1, <2>2 DEF StateTyped
  <2> HIDE DEF w
  <2>5. \A i \in IDs : QP(o, i)' = IF i = id THEN NoQP ELSE QP(o, i)
    <3> TAKE i \in IDs
    <3>1. i \in Nat /\ (i < Len(v) => i + 1 \in 1 .. Len(v)) /\ (i + 1 = id + 1 <=> i = id)
      BY <2>1
    <3>2. QED
      BY <2>1, <2>2, <2>3, <3>1 DEF QP
  <2>6. \A p \in Objects, i \in IDs : p # o => QP(p, i)' = QP(p, i)
    BY <2>3 DEF QP
  <2>7. QED
    BY <2>4, <2>5, <2>6
<1>4. /\ DOMAIN m_connected' = Objects
      /\ \A p \in Objects : IsPartial(m_connected'[p], IDs, BOOLEAN)
      /\ ~ IsConnected(o, id)'
      /\ \A p \in Objects, i \in IDs : ~ (p = o /\ i = id) =>
           IsConnected(p, i)' = IsConnected(p, i)
  BY <1>1, DisconnectedFacts
<1> HIDE DEF k
<1>5. {k} \in SUBSET DOMAIN pairs
  BY <1>2
<1>6. /\ IsPartial(pairs', Numbers, PairType) /\ DOMAIN pairs' = DOMAIN pairs \ {k}
      /\ \A m \in DOMAIN pairs' : pairs'[m] = pairs[m]
      /\ QueuesTyped'
  BY <1>1, <1>5, PairsDestroyed
<1>7. /\ cqs' \subseteq cqs
      /\ \A m \in DOMAIN pairs' : pairs'[m].cq \in cqs'
      /\ \A q \in cqs' : q \in Numbers => q \in DOMAIN pairs' /\ pairs'[q].cq = q
      /\ \A p \in Objects :
           /\ SRQ(p) \in cqs' /\ m_connectedQPs'[p] # {} =>
                \E m \in DOMAIN pairs' : pairs'[m].cq = SRQ(p)
           /\ SRQ(p) \in cqs /\ m_connectedQPs'[p] = {} => SRQ(p) \in cqs'
           /\ m_connectedQPs'[p] = {} =>
                \A m \in DOMAIN pairs' : pairs'[m].cq = SRQ(p) => IsStray(m)'
      /\ \A m \in DOMAIN pairs' : IsStray(m)' <=> IsStray(m)
      /\ \A m \in DOMAIN pairs : IsStray(m) => m \in DOMAIN pairs'
  BY <1>1, <1>2, <1>5, DestroyedFacts
<1>8. \A p : Live(p)' = Live(p)
  BY <1>1 DEF Live
<1>9. \A m \in DOMAIN pairs : pairs[m].owner \in Objects
  BY <1>1 DEF StateTyped, IsPartial, PairType
<1>10. StateTyped'
  BY <1>1, <1>3, <1>4, <1>6, <1>7 DEF StateTyped, QueuesTyped
<1>11. PairsRecorded'
  <2> SUFFICES ASSUME NEW m \in DOMAIN pairs', ~ IsStray(m) PROVE HasRecord(m)'
    BY <1>1, <1>7 DEF PairsRecorded
  <2>1. m \in DOMAIN pairs /\ m # k /\ pairs'[m] = pairs[m] /\ HasRecord(m)
    BY <1>6 DEF IInv, PairsRecorded
  <2>2. \A i \in IDs : QP(pairs[m].owner, i) = m => QP(pairs[m].owner, i)' = m
    BY <1>3, <1>9, <2>1 DEF k
  <2>3. QED
    BY <1>1, <1>8, <2>1, <2>2 DEF HasRecord
<1>12. RecordsPaired'
  <2> SUFFICES ASSUME NEW p \in Objects \ destroyed, NEW i \in IDs, QP(p, i)' # NoQP
               PROVE  /\ QP(p, i)' \in DOMAIN pairs' /\ pairs'[QP(p, i)'].owner = p
                      /\ ~ IsStray(QP(p, i)) /\ QP(p, i)' = QP(p, i)
                      /\ \A j \in IDs : QP(p, j)' = QP(p, i)' => j = i
    BY <1>1, <1>7 DEF RecordsPaired, IsStray
  <2>1. /\ ~ (p = o /\ i = id) /\ QP(p, i)' = QP(p, i) /\ QP(p, i) # NoQP
        /\ \A j \in IDs : QP(p, j)' \in {NoQP, QP(p, j)}
    BY <1>3
  <2>2. /\ QP(p, i) \in DOMAIN pairs /\ pairs[QP(p, i)].owner = p /\ ~ IsStray(QP(p, i))
        /\ \A j \in IDs : QP(p, j) = QP(p, i) => j = i
    BY <1>1, <2>1 DEF IInv, RecordsPaired
  <2>3. QP(p, i) # k
    BY <1>2, <2>1, <2>2
  <2>4. QED
    BY <1>6, <2>1, <2>2, <2>3
<1>13. StraysCounted'
  BY <1>1, <1>6, <1>7, StraysStay DEF IInv
<1>14. QueuesUsed'
  <2>1. \A m \in DOMAIN pairs' : pairs'[m].cq # m =>
          pairs'[m].cq = SRQ(pairs'[m].owner) /\ Live(pairs[m].owner)'
    BY <1>6, <1>8 DEF IInv, QueuesUsed
  <2>2. QED
    BY <1>1, <1>7, <2>1 DEF QueuesUsed
<1>15. SharedQueuesUsed'
  BY <1>1, <1>7, <1>8 DEF IInv, SharedQueuesUsed
<1>16. ReliableConnected'
  <2> SUFFICES ASSUME NEW p \in Objects \ destroyed, NEW i \in IDs
               PROVE  /\ IsConnected(p, i)' <=>
                           QP(p, i)' # NoQP /\ pairs'[QP(p, i)'].state \in {"RTS", "ERR"}
                      /\ IsConnected(p, i)' => pairs'[QP(p, i)'].peer = m_rconns[p][i].qp
    BY <1>1 DEF ReliableConnected, Up
  <2>1. CASE p = o /\ i = id
    BY <1>3, <1>4, <2>1
  <2>2. CASE ~ (p = o /\ i = id)
    <3>1. QP(p, i)' = QP(p, i) /\ IsConnected(p, i)' = IsConnected(p, i)
      BY <1>3, <1>4, <2>2
    <3>2. QP(p, i) # NoQP => pairs'[QP(p, i)] = pairs[QP(p, i)]
      BY <1>6, <1>12, <1>1, <3>1 DEF RecordsPaired
    <3>3. QED
      BY <1>1, <3>1, <3>2 DEF IInv, ReliableConnected, Up
  <2>3. QED
    BY <2>1, <2>2
<1>17. DatagramsConnected'
  BY <1>1 DEF DatagramsConnected
<1>18. QED
  BY <1>10, <1>11, <1>12, <1>13, <1>14, <1>15, <1>16, <1>17 DEF IInv

LEMMA DisconnectDatagramKeeps ==
  ASSUME IInv, NEW o \in Objects, NEW id \in IDs, kind = "UD", disconnectQP(o, id)
  PROVE  IInv'
<1> DEFINE h == m_rconns[o][id].ah
<1>1. /\ Live(o) /\ IsConnected(o, id) /\ StateTyped /\ o \in Objects \ destroyed
      /\ m_connected' = [m_connected EXCEPT ![o][id] = FALSE]
      /\ handles' = Restrict(handles, DOMAIN handles \ {h})
      /\ UNCHANGED <<kind, m_rconns, m_qpNum2connID, m_srqs, m_connectedQPs, destroyed, inits,
                     m_qps, pairs, cqs, posted, completed, failures, lost, status>>
  BY DEF disconnectQP, IInv, Live, course
<1>2. /\ DOMAIN m_connected' = Objects
      /\ \A p \in Objects : IsPartial(m_connected'[p], IDs, BOOLEAN)
      /\ ~ IsConnected(o, id)'
      /\ \A p \in Objects, i \in IDs : ~ (p = o /\ i = id) =>
           IsConnected(p, i)' = IsConnected(p, i)
  BY <1>1, DisconnectedFacts
<1>3. \A p, i : QP(p, i)' = QP(p, i) /\ Live(p)' = Live(p)
  BY <1>1 DEF QP, Live
<1>4. /\ IsPartial(handles', Handles, [owner : Objects, target : Objects])
      /\ \A g \in DOMAIN handles : g # h => g \in DOMAIN handles' /\ handles'[g] = handles[g]
  BY <1>1 DEF StateTyped, IsPartial, Restrict
<1>5. StateTyped'
  BY <1>1, <1>2, <1>4 DEF StateTyped
<1>6. /\ PairsRecorded' /\ RecordsPaired' /\ StraysCounted'
      /\ QueuesUsed' /\ SharedQueuesUsed' /\ ReliableConnected'
  <2>1. \A m : IsStray(m)' = IsStray(m)
    BY <1>1 DEF IsStray
  <2>2. PairsRecorded' /\ RecordsPaired' /\ StraysCounted'
    BY <1>1, <1>3, <2>1 DEF IInv, PairsRecorded, HasRecord, RecordsPaired, StraysCounted, Strays
  <2>3. QueuesUsed' /\ SharedQueuesUsed' /\ ReliableConnected'
    BY <1>1, <1>3, <2>1 DEF IInv, QueuesUsed, SharedQueuesUsed, ReliableConnected
  <2>4. QED
    BY <2>2, <2>3
<1>7. DatagramsConnected'
  <2>1. \A p \in Objects \ destroyed, i \in IDs : IsConnected(p, i)' =>
          IsConnected(p, i) /\ m_rconns[p][i].ah # h
    BY <1>1, <1>2 DEF IInv, DatagramsConnected
  <2>2. \A p \in Objects \ destroyed, i \in IDs : IsConnected(p, i)' => HasHandle(p, i)'
    <3> SUFFICES ASSUME NEW p \in Objects \ destroyed, NEW i \in IDs, IsConnected(p, i)'
                 PROVE  HasHandle(p, i)'
      OBVIOUS
    <3>1. HasHandle(p, i) /\ m_rconns[p][i].ah # h
      BY <2>1 DEF IInv, DatagramsConnected
    <3> HIDE DEF h
    <3>2. QED
      BY <1>1, <1>4, <3>1 DEF HasHandle
  <2>3. \A p, r \in Objects \ destroyed, i, j \in IDs :
          IsConnected(p, i)' /\ IsConnected(r, j)' /\ m_rconns[r][j].ah = m_rconns[p][i].ah =>
            r = p /\ j = i
    BY <2>1 DEF IInv, DatagramsConnected
  <2>4. QED
    BY <1>1, <2>2, <2>3 DEF DatagramsConnected
<1>8. QED
  BY <1>5, <1>6, <1>7 DEF IInv

LEMMA DestroyKeeps ==
  ASSUME IInv, status = "runs", NEW o \in Objects, Destroy(o)
  PROVE  IInv'
<1> DEFINE ns == IF kind = "RC" THEN {QP(o, id) : id \in IDs} \ {NoQP} ELSE {udqp[o]}
<1>1. /\ Live(o) /\ destroyed' = destroyed \cup {o} /\ Destroyed(ns)
      /\ StateTyped /\ o \in Objects \ destroyed /\ ~ SharedInUse(o)
      /\ m_qps' = [m_qps EXCEPT ![o] = <<>>] /\ m_srqs' = m_srqs \ {o}
      /\ m_connected' = [m_connected EXCEPT ![o] = <<>>]
      /\ m_rconns' = [m_rconns EXCEPT ![o] = [id \in IDs |-> NoRemote]]
      /\ UNCHANGED <<kind, m_qpNum2connID, m_connectedQPs, handles, inits, failures, lost, status>>
  BY DEF Destroy, Gone, IInv, Live, course
<1>2. /\ kind \in {"RC", "UD"} /\ \A m \in DOMAIN pairs : pairs[m].owner \in Objects
      /\ \A m \in DOMAIN pairs : IsStray(m) => kind = "RC"
  BY <1>1 DEF StateTyped, IsPartial, PairType, IInv, PairsRecorded
<1>3. ns \in SUBSET DOMAIN pairs
      /\ \A m \in DOMAIN pairs : m \in ns <=> pairs[m].owner = o /\ ~ IsStray(m)
  <2>1. CASE kind = "RC"
    <3>1. \A id \in IDs : QP(o, id) # NoQP =>
            /\ QP(o, id) \in DOMAIN pairs /\ pairs[QP(o, id)].owner = o
            /\ ~ IsStray(QP(o, id))
      BY <1>1 DEF IInv, RecordsPaired
    <3>2. \A m \in DOMAIN pairs : pairs[m].owner = o /\ ~ IsStray(m) =>
            \E id \in IDs : QP(o, id) = m
      BY <2>1 DEF IInv, PairsRecorded, HasRecord
    <3>3. NoQP \notin DOMAIN pairs
      BY <1>1, EndpointAssumption DEF StateTyped, IsPartial
    <3>4. QED
      BY <2>1, <3>1, <3>2, <3>3
  <2>2. CASE kind = "UD"
    BY <1>1, <1>2, <2>2 DEF IInv, PairsRecorded, HasRecord, RecordsPaired
  <2>3. QED
    BY <1>2, <2>1, <2>2
<1>4. /\ \A n \in ns : ~ IsStray(n)
      /\ \A m \in DOMAIN pairs : pairs[m].owner = o /\ IsStray(m) => pairs[m].cq = m
  <2>1. \A m \in DOMAIN pairs : IsStray(m) => pairs[m].cq # SRQ(o)
    BY <1>1 DEF SharedInUse, Strays, IsStray
  <2>2. QED
    BY <1>3, <2>1 DEF IInv, QueuesUsed
<1> HIDE DEF ns
<1>5. ns \in SUBSET DOMAIN pairs
  BY <1>3
<1>6. /\ IsPartial(pairs', Numbers, PairType) /\ DOMAIN pairs' = DOMAIN pairs \ ns
      /\ \A m \in DOMAIN pairs' : pairs'[m] = pairs[m]
      /\ QueuesTyped'
  BY <1>1, <1>5, PairsDestroyed
<1>7. /\ cqs' \subseteq cqs
      /\ \A m \in DOMAIN pairs' : pairs'[m].cq \in cqs'
      /\ \A q \in cqs' : q \in Numbers => q \in DOMAIN pairs' /\ pairs'[q].cq = q
      /\ \A p \in Objects :
           /\ SRQ(p) \in cqs' /\ m_connectedQPs'[p] # {} =>
                \E m \in DOMAIN pairs' : pairs'[m].cq = SRQ(p)
           /\ SRQ(p) \in cqs /\ m_connectedQPs'[p] = {} => SRQ(p) \in cqs'
           /\ m_connectedQPs'[p] = {} =>
                \A m \in DOMAIN pairs' : pairs'[m].cq = SRQ(p) => IsStray(m)'
      /\ \A m \in DOMAIN pairs' : IsStray(m)' <=> IsStray(m)
      /\ \A m \in DOMAIN pairs : IsStray(m) => m \in DOMAIN pairs'
  BY <1>1, <1>4, <1>5, DestroyedFacts
<1>8. /\ m_qps' \in [Objects -> Seq(Numbers \cup {NoQP})]
      /\ \A p \in Objects : p # o => \A i : QP(p, i)' = QP(p, i)
  <2>1. <<>> \in Seq(Numbers \cup {NoQP})
    OBVIOUS
  <2>2. \A p \in Objects : p # o => m_qps'[p] = m_qps[p]
    BY <1>1 DEF StateTyped
  <2>3. QED
    BY <1>1, <2>1, <2>2 DEF StateTyped, QP
<1>9. /\ DOMAIN m_connected' = Objects
      /\ \A p \in Objects : IsPartial(m_connected'[p], IDs, BOOLEAN)
      /\ \A p \in Objects : p # o => m_connected'[p] = m_connected[p]
  BY <1>1 DEF StateTyped, IsPartial
<1>10. /\ m_rconns' \in [Objects -> [IDs -> [qp : Numbers \cup {NoQP}, ah : Handles]]]
       /\ \A p \in Objects : p # o => m_rconns'[p] = m_rconns[p]
  <2>1. NoRemote \in [qp : Numbers \cup {NoQP}, ah : Handles]
    BY EndpointAssumption DEF NoRemote, Handles
  <2> DEFINE none == [id \in IDs |-> NoRemote]
  <2>2. none \in [IDs -> [qp : Numbers \cup {NoQP}, ah : Handles]]
    BY <2>1
  <2>3. m_rconns' = [m_rconns EXCEPT ![o] = none]
    BY <1>1
  <2> HIDE DEF none
  <2>4. QED
    BY <1>1, <2>2, <2>3 DEF StateTyped
<1>11. /\ \A p : Live(p)' <=> Live(p) /\ p # o
       /\ \A p \in Objects : p # o => \A i : IsConnected(p, i)' = IsConnected(p, i)
  BY <1>1, <1>9 DEF Live, IsConnected
<1>12. StateTyped'
  BY <1>1, <1>6, <1>7, <1>8, <1>9, <1>10 DEF StateTyped, QueuesTyped
<1>13. \A m \in DOMAIN pairs' :
         /\ m \in DOMAIN pairs /\ pairs[m].owner \in Objects
         /\ pairs[m].owner = o => IsStray(m)
  BY <1>2, <1>3, <1>6
<1>14. PairsRecorded'
  <2> SUFFICES ASSUME NEW m \in DOMAIN pairs', ~ IsStray(m) PROVE HasRecord(m)'
    BY <1>1, <1>2, <1>7, <1>13 DEF PairsRecorded
  <2>1. /\ m \in DOMAIN pairs /\ pairs'[m] = pairs[m] /\ HasRecord(m)
        /\ pairs[m].owner \in Objects \ {o}
    BY <1>6, <1>13 DEF IInv, PairsRecorded
  <2>2. QED
    BY <1>1, <1>8, <1>11, <2>1 DEF HasRecord
<1>15. RecordsPaired'
  <2> SUFFICES ASSUME NEW p \in Objects \ destroyed, p # o
               PROVE  /\ \A id \in IDs : QP(p, id) # NoQP =>
                           /\ QP(p, id) \in DOMAIN pairs' /\ pairs'[QP(p, id)].owner = p
                           /\ ~ IsStray(QP(p, id))'
                           /\ kind = "RC" => \A i \in IDs : QP(p, i) = QP(p, id) => i = id
                      /\ kind = "UD" => udqp[p] \in DOMAIN pairs' /\ pairs'[udqp[p]].owner = p
    BY <1>1, <1>8 DEF RecordsPaired, IsStray
  <2>1. \A m \in DOMAIN pairs : pairs[m].owner = p => m \in DOMAIN pairs' /\ pairs'[m] = pairs[m]
    BY <1>3, <1>6
  <2>2. \A id \in IDs : QP(p, id) # NoQP =>
          /\ QP(p, id) \in DOMAIN pairs /\ pairs[QP(p, id)].owner = p
          /\ ~ IsStray(QP(p, id))
          /\ kind = "RC" => \A i \in IDs : QP(p, i) = QP(p, id) => i = id
    BY DEF IInv, RecordsPaired
  <2>3. kind = "UD" => udqp[p] \in DOMAIN pairs /\ pairs[udqp[p]].owner = p
    BY DEF IInv, RecordsPaired
  <2>4. \A id \in IDs : (~ IsStray(QP(p, id)))' = (pairs'[QP(p, id)'].state # "RESET")
    BY DEF IsStray
  <2>5. QED
    BY <1>8, <2>1, <2>2, <2>3, <2>4 DEF IsStray
<1>16. StraysCounted'
  BY <1>1, <1>6, <1>7, StraysStay DEF IInv
<1>17. QueuesUsed'
  <2>1. ASSUME NEW m \in DOMAIN pairs', pairs'[m].cq # m
        PROVE  pairs'[m].cq = SRQ(pairs'[m].owner) /\ Live(pairs[m].owner)'
    <3>1. pairs[m].cq = SRQ(pairs[m].owner) /\ Live(pairs[m].owner) /\ pairs'[m] = pairs[m]
      BY <1>6, <2>1 DEF IInv, QueuesUsed
    <3>2. pairs[m].owner # o
      BY <1>4, <1>6, <1>13, <2>1
    <3>3. QED
      BY <1>11, <3>1, <3>2
  <2>2. QED
    BY <1>1, <1>7, <2>1 DEF IInv, QueuesUsed
<1>18. SharedQueuesUsed'
  BY <1>1, <1>7, <1>11 DEF IInv, SharedQueuesUsed
<1>19. ReliableConnected'
  <2> SUFFICES ASSUME kind = "RC", NEW p \in Objects \ destroyed, p # o, NEW i \in IDs
               PROVE  /\ IsConnected(p, i) <=>
                           QP(p, i) # NoQP /\ pairs'[QP(p, i)].state \in {"RTS", "ERR"}
                      /\ IsConnected(p, i) => pairs'[QP(p, i)].peer = m_rconns[p][i].qp
    BY <1>1, <1>8, <1>10, <1>11 DEF ReliableConnected, Up
  <2>1. QP(p, i) # NoQP => pairs'[QP(p, i)] = pairs[QP(p, i)]
    BY <1>3, <1>6 DEF IInv, RecordsPaired
  <2>2. QED
    BY <2>1 DEF IInv, ReliableConnected, Up
<1>20. DatagramsConnected'
  BY <1>1, <1>10, <1>11 DEF IInv, DatagramsConnected, HasHandle
<1>21. QED
  BY <1>12, <1>14, <1>15, <1>16, <1>17, <1>18, <1>19, <1>20 DEF IInv

-----------------------------------------------------------------------------
(* Messages. *)
LEMMA MessageSteps ==
  ASSUME IInv, status = "runs", NEW o \in Objects,
         \/ receiveSRQ(o) \/ pollReceiveSRQ(o) \/ DestroyThrows(o)
         \/ \E id \in DOMAIN Partner[o] : receive(o, id) \/ send(o, id) \/ pollReceive(o, id)
  PROVE  IInv'
<1>1. /\ StateTyped /\ IsPartial(pairs, Numbers, PairType) /\ posted \in [Queues -> Nat]
      /\ DOMAIN completed = Queues /\ DOMAIN Partner[o] \subseteq IDs
  BY EndpointAssumption DEF IInv, StateTyped, IDs
<1> DEFINE Alone == UNCHANGED connections /\ UNCHANGED <<failures, lost>>
<1>2. ASSUME Alone, QueuesTyped', UNCHANGED pairs,
             status' \in {"runs", "undefined", "terminated"}
      PROVE  IInv'
  <2>1. PairsKept
    BY <1>2 DEF PairsKept, IsStray, Up
  <2>2. QED
    BY <1>1, <1>2, <2>1, MessagesKeep
<1>3. ASSUME UNCHANGED <<posted, completed>> PROVE QueuesTyped'
  BY <1>1, <1>3 DEF QueuesTyped
<1>4. ASSUME NEW q, Post(q) PROVE IInv'
  <2>1. Alone /\ pairs' = pairs /\ QueuesTyped' /\ status' = status
    <3>1. posted' = [posted EXCEPT ![q] = posted[q] + 1]
      BY <1>4 DEF Post
    <3>2. posted' \in [Queues -> Nat]
      <4>1. CASE q \in Queues
        <5>1. posted[q] + 1 \in Nat
          BY <1>1, <4>1
        <5>2. QED
          BY <1>1, <3>1, <5>1
      <4>2. CASE q \notin Queues
        BY <1>1, <3>1, <4>2
      <4>3. QED
        BY <4>1, <4>2
    <3>3. Alone /\ pairs' = pairs /\ completed' = completed /\ status' = status
      BY <1>4 DEF Post, connections, fields, course
    <3>4. QED
      BY <1>1, <3>2, <3>3 DEF QueuesTyped
  <2>2. QED
    BY <1>1, <1>2, <2>1 DEF StateTyped
<1>5. ASSUME NEW q, Poll(q) PROVE IInv'
  <2>1. Alone /\ pairs' = pairs /\ QueuesTyped' /\ status' = status
    BY <1>1, <1>5 DEF Poll, connections, fields, course, QueuesTyped
  <2>2. QED
    BY <1>1, <1>2, <2>1 DEF StateTyped
<1>6. CASE pollReceiveSRQ(o)
  <2>1. CASE SRQ(o) \in cqs
    BY <1>5, <1>6, <2>1 DEF pollReceiveSRQ
  <2>2. CASE SRQ(o) \notin cqs
    <3>1. Alone /\ UNCHANGED <<pairs, posted, completed>> /\ status' = "undefined"
      BY <1>6, <2>2 DEF pollReceiveSRQ, connections, fields, card
    <3>2. QED
      BY <1>2, <1>3, <3>1
  <2>3. QED
    BY <2>1, <2>2
<1>7. CASE DestroyThrows(o)
  <2>1. Alone /\ UNCHANGED <<pairs, posted, completed>> /\ status' = "terminated"
    BY <1>7 DEF DestroyThrows, connections, fields, card
  <2>2. QED
    BY <1>2, <1>3, <2>1
<1>8. ASSUME NEW id \in IDs, send(o, id) PROVE IInv'
  <2> DEFINE n == OwnQueue(o, id)
             m == m_rconns[o][id].qp
  <2>1. /\ Alone /\ status' = status /\ status' \in {"runs", "undefined", "terminated"}
        /\ Live(o) /\ IsConnected(o, id) /\ pairs[n].state = "RTS"
    BY <1>1, <1>8 DEF send, connections, fields, course, StateTyped
  <2>2. n \in DOMAIN pairs /\ n \in Numbers
    <3>1. o \in Objects \ destroyed
      BY <2>1 DEF Live
    <3>2. CASE kind = "RC"
      BY <1>1, <2>1, <3>1, <3>2 DEF IInv, ReliableConnected, RecordsPaired, OwnQueue, IsPartial
    <3>3. CASE kind = "UD"
      BY <1>1, <3>1, <3>3 DEF IInv, RecordsPaired, OwnQueue, IsPartial
    <3>4. QED
      BY <1>1, <3>2, <3>3 DEF StateTyped
  <2>3. CASE Reaches(n, m) /\ Arrive(o, m)
    <3>1. m \in DOMAIN pairs /\ pairs[m].cq \in Queues /\ posted[pairs[m].cq] > 0
      BY <1>1, <2>3 DEF Reaches, IsPartial, PairType
    <3> HIDE DEF m, n
    <3>2. QueuesTyped' /\ pairs' = pairs
      BY <1>1, <2>3, <3>1 DEF Arrive, QueuesTyped
    <3>3. QED
      BY <1>2, <2>1, <3>2
  <2>4. CASE Fail(n)
    <3> HIDE DEF m, n
    <3>1. QueuesTyped' /\ pairs' = [pairs EXCEPT ![n].state = "ERR"]
      BY <1>1, <2>4 DEF Fail, QueuesTyped
    <3>2. IsPartial(pairs', Numbers, PairType) /\ DOMAIN pairs' = DOMAIN pairs
      BY <1>1, <2>2, <3>1 DEF IsPartial, PairType
    <3>3. PairsKept
      BY <1>1, <2>1, <2>2, <3>1, <3>2 DEF PairsKept, IsPartial, PairType, IsStray, Up, n
    <3>4. QED
      BY <2>1, <3>1, <3>2, <3>3, MessagesKeep
  <2>5. CASE UNCHANGED <<pairs, posted, completed>>
    <3>1. QueuesTyped'
      BY <1>3, <2>5
    <3>2. QED
      BY <1>2, <2>1, <2>5, <3>1
  <2>6. QED
    BY <1>8, <2>3, <2>4, <2>5 DEF send
<1>9. QED
  BY <1>1, <1>4, <1>5, <1>6, <1>7, <1>8 DEF receiveSRQ, receive, pollReceive

-----------------------------------------------------------------------------
(* The invariant. *)
LEMMA InitInvariant == Init => IInv
<1> SUFFICES ASSUME Init PROVE IInv
  OBVIOUS
<1>1. udqp \in [Objects -> Numbers] /\ \A o, p \in Objects : udqp[o] = udqp[p] => o = p
  BY UdqpInjective
<1>2. /\ kind \in {"RC", "UD"} /\ destroyed = {} /\ m_srqs = {}
      /\ m_connected = [o \in Objects |-> <<>>]
      /\ m_connectedQPs = [o \in Objects |-> {}]
      /\ cqs = DOMAIN pairs
      /\ failures = 0 /\ lost = 0 /\ status = "runs"
  BY DEF Init
<1>3. \A o, id : Live(o) /\ (o \in Objects => ~ IsConnected(o, id))
  BY <1>2 DEF Live, IsConnected
<1>4. /\ m_qps \in [Objects -> Seq(Numbers \cup {NoQP})]
      /\ \A o \in Objects, id \in IDs :
           /\ kind = "RC" => QP(o, id) = NoQP
           /\ kind = "UD" => QP(o, id) \in {NoQP, udqp[o]}
  <2>1. m_qps = [o \in Objects |-> IF kind = "UD" THEN <<udqp[o]>> ELSE <<>>]
    BY DEF Init
  <2>2. \A id \in IDs : id \in Nat /\ (id < 1 => id + 1 = 1)
    BY EndpointAssumption DEF IDs
  <2>3. CASE kind = "RC"
    BY <2>1, <2>2, <2>3 DEF QP
  <2>4. CASE kind = "UD"
    <3>1. \A o \in Objects : m_qps[o] = <<udqp[o]>> /\ udqp[o] \in Numbers
      BY <1>1, <2>1, <2>4
    <3>2. \A o \in Objects, id \in IDs : QP(o, id) \in {NoQP, udqp[o]}
      BY <2>2, <3>1 DEF QP
    <3>3. m_qps \in [Objects -> Seq(Numbers \cup {NoQP})]
      BY <2>1, <2>4, <3>1
    <3>4. QED
      BY <2>4, <3>2, <3>3
  <2>5. QED
    BY <1>2, <2>3, <2>4
<1>5. /\ IsPartial(pairs, Numbers, PairType)
      /\ kind = "RC" => DOMAIN pairs = {}
      /\ kind = "UD" => DOMAIN pairs = Range(udqp)
      /\ \A o \in Objects : kind = "UD" =>
           /\ pairs[udqp[o]].owner = o /\ pairs[udqp[o]].cq = udqp[o]
           /\ pairs[udqp[o]].state = "RTS"
  <2>1. CASE kind = "RC"
    BY <2>1 DEF Init, IsPartial
  <2>2. CASE kind = "UD"
    <3> DEFINE Pair(o, n) == [owner |-> o, state |-> "RTS", peer |-> NoQP, cq |-> n]
               Owner(n) == CHOOSE p \in Objects : udqp[p] = n
    <3>1. pairs = [n \in Range(udqp) |-> Pair(Owner(n), n)]
      <4>1. pairs = [n \in Range(udqp) |-> [NewPair(Owner(n), n) EXCEPT !.state = "RTS"]]
        BY <2>2 DEF Init
      <4>2. \A o, n : [NewPair(o, n) EXCEPT !.state = "RTS"] = Pair(o, n)
        BY DEF NewPair
      <4> HIDE DEF Pair, Owner
      <4>3. QED
        BY <4>1, <4>2
    <3>2. \A o \in Objects : udqp[o] \in Range(udqp) /\ Owner(udqp[o]) = o
      BY <1>1 DEF Range
    <3>3. \A n \in Range(udqp) : n \in Numbers /\ \E o \in Objects : n = udqp[o]
      BY <1>1 DEF Range
    <3>4. \A o \in Objects, n \in Numbers : Pair(o, n) \in PairType
      BY DEF PairType, Queues
    <3> HIDE DEF Pair, Owner
    <3>5. IsPartial(pairs, Numbers, PairType)
      BY <3>1, <3>2, <3>3, <3>4 DEF IsPartial
    <3>6. QED
      BY <2>2, <3>1, <3>2, <3>5 DEF Pair
  <2>3. QED
    BY <1>2, <2>1, <2>2
<1>6. \A n \in DOMAIN pairs : kind = "UD" /\ ~ IsStray(n)
        /\ \E o \in Objects : n = udqp[o] /\ pairs[n].owner = o
  <2> SUFFICES ASSUME NEW n \in DOMAIN pairs
               PROVE  kind = "UD" /\ ~ IsStray(n)
                      /\ \E o \in Objects : n = udqp[o] /\ pairs[n].owner = o
    OBVIOUS
  <2>1. kind = "UD" /\ n \in Range(udqp)
    BY <1>2, <1>5
  <2>2. PICK o \in Objects : n = udqp[o]
    BY <1>1, <2>1 DEF Range
  <2>3. pairs[n].owner = o /\ ~ IsStray(n)
    BY <1>5, <2>1, <2>2 DEF IsStray
  <2>4. QED
    BY <2>1, <2>2, <2>3
<1>7. DOMAIN m_qpNum2connID = Objects /\ \A o \in Objects :
        IsPartial(m_qpNum2connID[o], Numbers, IDs) /\
        (kind = "UD" => udqp[o] \in DOMAIN m_qpNum2connID[o])
  <2>1. 0 \in IDs
    BY EndpointAssumption DEF IDs
  <2>2. m_qpNum2connID = [o \in Objects |-> [n \in Range(m_qps[o]) |-> 0]]
    BY DEF Init
  <2>3. \A o \in Objects : /\ Range(m_qps[o]) \subseteq Numbers
                           /\ kind = "UD" => udqp[o] \in Range(m_qps[o])
    BY <1>1, <1>2 DEF Init, Range
  <2>4. \A o \in Objects : m_qpNum2connID[o] = [n \in Range(m_qps[o]) |-> 0]
    BY <2>2
  <2>5. ASSUME NEW o \in Objects
        PROVE  /\ IsPartial(m_qpNum2connID[o], Numbers, IDs)
               /\ kind = "UD" => udqp[o] \in DOMAIN m_qpNum2connID[o]
    <3> DEFINE numbers == Range(m_qps[o])
    <3>1. m_qpNum2connID[o] = [n \in numbers |-> 0]
      BY <2>4
    <3>2. numbers \subseteq Numbers
      BY <2>3
    <3>3. kind = "UD" => udqp[o] \in numbers
      BY <2>3
    <3> HIDE DEF numbers
    <3>4. QED
      BY <2>1, <3>1, <3>2, <3>3 DEF IsPartial
  <2>6. QED
    BY <2>2, <2>5
<1>8. StateTyped
  <2>1. m_rconns \in [Objects -> [IDs -> [qp : Numbers \cup {NoQP}, ah : Handles]]]
    BY EndpointAssumption DEF Init, NoRemote, Handles
  <2>2. /\ posted \in [Queues -> Nat] /\ DOMAIN completed = Queues
        /\ IsPartial(handles, Handles, [owner : Objects, target : Objects])
        /\ inits \in 0 .. MaxInits /\ failures \in 0 .. MaxFailures /\ lost \in Nat
    BY EndpointAssumption DEF Init, IsPartial
  <2>3. \A o \in Objects : IsPartial(m_connected[o], IDs, BOOLEAN)
    BY <1>2 DEF IsPartial
  <2>4. cqs \subseteq Queues
    BY <1>2, <1>5 DEF IsPartial, Queues
  <2>5. QED
    BY <1>2, <1>4, <1>5, <1>7, <2>1, <2>2, <2>3, <2>4 DEF StateTyped
<1>9. PairsRecorded /\ RecordsPaired
  <2>1. PairsRecorded
    BY <1>3, <1>6, <1>7 DEF PairsRecorded, HasRecord
  <2>2. \A o \in Objects : kind = "UD" => udqp[o] \in DOMAIN pairs /\ pairs[udqp[o]].owner = o
    BY <1>1, <1>5 DEF Range
  <2>3. RecordsPaired
    BY <1>2, <1>4, <1>6, <2>2 DEF RecordsPaired
  <2>4. QED
    BY <2>1, <2>3
<1>10. QueuesUsed /\ SharedQueuesUsed
  <2>1. \A n \in DOMAIN pairs : n \in Numbers /\ pairs[n].cq = n
    BY <1>5, <1>6 DEF IsPartial
  <2>2. QueuesUsed
    BY <1>2, <2>1 DEF QueuesUsed
  <2>3. SharedQueuesUsed
    BY <1>2, <2>1, SRQFacts DEF SharedQueuesUsed
  <2>4. QED
    BY <2>2, <2>3
<1>11. ReliableConnected /\ DatagramsConnected
  BY <1>3, <1>4 DEF ReliableConnected, DatagramsConnected
<1>12. StraysCounted
  <2>1. Strays = {}
    BY <1>6 DEF Strays, IsStray
  <2>2. QED
    BY <1>2, <2>1, FS_EmptySet DEF StraysCounted
<1>13. QED
  BY <1>8, <1>9, <1>10, <1>11, <1>12 DEF IInv

LEMMA NextKeepsInvariant ==
  ASSUME IInv, [Next]_vars
  PROVE  IInv'
<1>1. CASE UNCHANGED vars
  <2>1. UNCHANGED connections /\ UNCHANGED <<pairs, posted, completed, failures, lost, status>>
    BY <1>1 DEF vars, fields, card, course, connections
  <2>2. /\ QueuesTyped' /\ IsPartial(pairs, Numbers, PairType)' /\ PairsKept
        /\ status' \in {"runs", "undefined", "terminated"}
    BY <2>1 DEF IInv, StateTyped, QueuesTyped, PairsKept, IsStray, Up
  <2>3. QED
    BY <2>1, <2>2, MessagesKeep
<1>2. ASSUME NEW o \in Objects, NEW id \in DOMAIN Partner[o], initQPWithSuppliedID(o, id)
      PROVE  IInv'
  BY <1>2, NewPairKeeps, UdqpRecordedKeeps DEF initQPWithSuppliedID
<1>3. ASSUME NEW o \in Objects, NEW id \in DOMAIN Partner[o], initQPForSRQWithSuppliedID(o, id)
      PROVE  IInv'
  <2>1. kind = "RC"
    BY <1>3 DEF initQPForSRQWithSuppliedID, IInv, QueuesUsed, StateTyped
  <2>2. QED
    BY <1>3, <2>1, NewPairKeeps DEF initQPForSRQWithSuppliedID
<1>4. ASSUME NEW o \in Objects, NEW id \in DOMAIN Partner[o], connectQP(o, id)
      PROVE  IInv'
  <2>1. CASE kind = "RC"
    <3>1. PICK n \in Offered(o, id) :
            /\ m_rconns' = [m_rconns EXCEPT ![o][id] = [qp |-> n, ah |-> 0]]
            /\ \/ UNCHANGED <<pairs, m_connected>>
               \/ /\ pairs' = [pairs EXCEPT ![QP(o, id)].state = "RTS", ![QP(o, id)].peer = n]
                  /\ m_connected' = [m_connected EXCEPT ![o] = With(@, id, TRUE)]
            /\ UNCHANGED handles
      BY <1>4, <2>1 DEF connectQP
    <3>2. /\ Live(o) /\ QP(o, id) # NoQP /\ pairs[QP(o, id)].state = "INIT"
          /\ UNCHANGED <<kind, m_qps, m_qpNum2connID, m_srqs, m_connectedQPs, destroyed, cqs,
                         posted, completed, inits, failures, lost, status>>
      BY <1>4, <2>1 DEF connectQP, course
    <3>3. ~ IsConnected(o, id) /\ n \in Numbers
      <4>1. id \in IDs /\ o \in Objects \ destroyed
        BY <3>2, EndpointAssumption DEF IDs, Live
      <4>2. QED
        BY <2>1, <3>1, <3>2, <4>1 DEF IInv, ReliableConnected, Up, Offered
    <3>4. QED
      BY <2>1, <3>1, <3>2, <3>3, ConnectReliableKeeps
  <2>2. CASE kind = "UD"
    BY <1>4, <2>2, ConnectDatagramKeeps DEF connectQP
  <2>3. QED
    BY <2>1, <2>2 DEF IInv, StateTyped
<1>5. ASSUME NEW o \in Objects, NEW id \in DOMAIN Partner[o], ConnectFails(o, id)
      PROVE  IInv'
  <2>1. PICK n \in Offered(o, id) :
          /\ m_rconns' = [m_rconns EXCEPT ![o][id] = [qp |-> n, ah |-> 0]]
          /\ \/ UNCHANGED pairs
             \/ pairs' = [pairs EXCEPT ![QP(o, id)].state = "RTR", ![QP(o, id)].peer = n]
          /\ UNCHANGED failures \/ Fails
    BY <1>5 DEF ConnectFails
  <2>2. /\ kind = "RC" /\ Live(o) /\ QP(o, id) # NoQP /\ id \notin DOMAIN m_connected[o]
        /\ UNCHANGED <<kind, m_qps, m_connected, m_qpNum2connID, m_srqs, m_connectedQPs,
                       destroyed, cqs, posted, completed, handles, inits, lost, status>>
    BY <1>5 DEF ConnectFails
  <2>3. n \in Numbers /\ ~ IsConnected(o, id)
    BY <2>1, <2>2 DEF Offered, IsConnected
  <2>4. QED
    BY <2>1, <2>2, <2>3, ConnectReliableKeeps
<1>6. ASSUME status = "runs", NEW o \in Objects, NEW id \in DOMAIN Partner[o], disconnectQP(o, id)
      PROVE  IInv'
  <2>1. id \in IDs /\ kind \in {"RC", "UD"}
    BY EndpointAssumption DEF IDs, IInv, StateTyped
  <2>2. QED
    BY <1>6, <2>1, DisconnectReliableKeeps, DisconnectDatagramKeeps
<1>7. ASSUME NEW o \in Objects, initQP(o)
      PROVE  IInv'
  <2>1. nextConnKey(o) \in DOMAIN Partner[o]
    BY <1>7 DEF initQP, initQPWithSuppliedID, Recorded
  <2>2. QED
    BY <1>2, <1>7, <2>1 DEF initQP
<1>8. QED
  BY <1>1, <1>2, <1>3, <1>4, <1>5, <1>6, <1>7, SharedQueueKeeps, DestroyKeeps, InitFailsKeeps,
     MessageSteps DEF Next

LEMMA Invariance == Spec => []IInv
BY InitInvariant, NextKeepsInvariant, PTL DEF Spec

-----------------------------------------------------------------------------
(* Whom messages come from. *)

(* The id that qpNum2connID has for a queue pair, and who it stands for. *)
IDOf(n) == m_qpNum2connID[pairs[n].owner][n]
PartnerOf(n) == Partner[pairs[n].owner][IDOf(n)]

Arrival == [num : Numbers, from : Objects \cup {NoObject}]

(* The map leads back to the id that has the queue pair; a stray one is *)
(* connected to nobody.                                                 *)
Named ==
  \A n \in DOMAIN pairs :
    IF IsStray(n) THEN pairs[n].peer = NoQP
    ELSE IDOf(n) \in DOMAIN Partner[pairs[n].owner] /\ QP(pairs[n].owner, IDOf(n)) = n

(* Two queue pairs that are connected to each other are their owners' ones *)
(* for each other, whichever of the numbers is in use for the second time. *)
Mutual ==
  \A m, n \in DOMAIN pairs :
    pairs[m].peer = n /\ pairs[n].peer = m => PartnerOf(m) = pairs[n].owner

(* What arrived, or completed with an error, and is not polled. *)
IsFrom(q, c) ==
  /\ c.num \in DOMAIN pairs /\ ~ IsStray(c.num)
  /\ \/ pairs[c.num].cq = q /\ c.from = PartnerOf(c.num)
     \/ c.num = q /\ c.from = NoObject

Arrived ==
  /\ completed \in [Queues -> Seq(Arrival)]
  /\ \A q \in Queues : \A i \in DOMAIN completed[q] : IsFrom(q, completed[q][i])

(* The id written last was the sender's. *)
ReportsTyped == reported \in [Objects -> [id : IDs, from : Objects \cup {NoObject}]]

ReportsRight ==
  \A o \in Objects \ destroyed :
    reported[o].from # NoObject => Partner[o][reported[o].id] = reported[o].from

Attribution ==
  ReportsTyped /\ (kind = "RC" => Named /\ Mutual /\ Arrived /\ ReportsRight)

(* What a completion queue keeps comes from what it had. *)
LEMMA RemainingFacts ==
  ASSUME NEW S, NEW s \in Seq(S), NEW ns
  PROVE  /\ Remaining(s, ns) \in Seq(S)
         /\ \A k \in DOMAIN Remaining(s, ns) : \E i \in DOMAIN s :
              Remaining(s, ns)[k] = s[i] /\ s[i].num \notin ns
<1> DEFINE kept == {i \in DOMAIN s : s[i].num \notin ns}
           upTo(i) == {j \in kept : j <= i}
           places == [i \in kept |-> Cardinality(upTo(i))]
           n == Cardinality(kept)
<1>1. kept \subseteq 1 .. Len(s) /\ Len(s) \in Nat /\ kept \subseteq Nat
  OBVIOUS
<1>2. IsFiniteSet(kept) /\ n \in Nat
  <2>1. IsFiniteSet(1 .. Len(s))
    BY <1>1, FS_Interval
  <2> HIDE DEF kept
  <2>2. QED
    BY <1>1, <2>1, FS_Subset, FS_CardinalityType
<1>3. ASSUME NEW i \in kept
      PROVE  IsFiniteSet(upTo(i)) /\ places[i] \in 1 .. n
  <2>1. upTo(i) \in SUBSET kept /\ i \in upTo(i)
    BY <1>1, <1>3
  <2> HIDE DEF kept, upTo
  <2>2. IsFiniteSet(upTo(i)) /\ Cardinality(upTo(i)) <= n
    BY <1>2, <2>1, FS_Subset
  <2>3. Cardinality(upTo(i)) \in Nat /\ Cardinality(upTo(i)) # 0
    BY <2>1, <2>2, FS_CardinalityType, FS_EmptySet
  <2>4. QED
    BY <1>2, <1>3, <2>2, <2>3
<1>4. ASSUME NEW i \in kept, NEW j \in kept, i < j
      PROVE  places[i] # places[j]
  <2>1. upTo(i) \in SUBSET upTo(j) /\ j \in upTo(j) /\ j \notin upTo(i)
    BY <1>1, <1>4
  <2>2. IsFiniteSet(upTo(j))
    BY <1>3
  <2> HIDE DEF kept, upTo
  <2>3. Cardinality(upTo(j)) # Cardinality(upTo(i))
    BY <2>1, <2>2, FS_Subset
  <2>4. QED
    BY <1>4, <2>3
<1>5. places \in [kept -> 1 .. n] /\ \A i, j \in kept : places[i] = places[j] => i = j
  <2>1. \A i, j \in kept : i = j \/ i < j \/ j < i
    BY <1>1
  <2>2. places = [i \in kept |-> places[i]]
    OBVIOUS
  <2> HIDE DEF places, kept, n
  <2>3. \A i \in kept : places[i] \in 1 .. n
    BY <1>3
  <2>4. QED
    BY <1>4, <2>1, <2>2, <2>3
<1> HIDE DEF places, n
<1>6. \A k \in 1 .. n : \E i \in kept : places[i] = k
  <2>1. IsFiniteSet(1 .. n) /\ Cardinality(1 .. n) = n
    BY <1>2, FS_Interval
  <2> HIDE DEF kept
  <2>2. places \in Injection(kept, 1 .. n)
    BY <1>5 DEF Injection, IsInjective
  <2>3. places \in Surjection(kept, 1 .. n)
    BY <2>1, <2>2, FS_Injection DEF n
  <2>4. QED
    BY <2>3 DEF Surjection
<1> DEFINE r == Remaining(s, ns)
<1>7. r = [k \in 1 .. n |-> s[CHOOSE i \in kept : Cardinality({j \in kept : j <= i}) = k]]
  BY DEF Remaining, n
<1> HIDE DEF r
<1>8. \A k \in 1 .. n : \E i \in kept : r[k] = s[i]
  <2> TAKE k \in 1 .. n
  <2>1. PICK i \in kept : places[i] = k
    BY <1>6
  <2>2. Cardinality({j \in kept : j <= i}) = k
    BY <2>1 DEF places
  <2> HIDE DEF kept
  <2>3. (CHOOSE x \in kept : Cardinality({j \in kept : j <= x}) = k) \in kept
    BY <2>1, <2>2
  <2>4. QED
    BY <1>7, <2>3
<1>9. \A k \in 1 .. n : r[k] \in S
  BY <1>8
<1>10. r \in Seq(S) /\ DOMAIN r = 1 .. n
  <2>1. r = [k \in 1 .. n |-> r[k]] /\ DOMAIN r = 1 .. n
    BY <1>7
  <2>2. r \in [1 .. n -> S]
    BY <1>9, <2>1
  <2>3. QED
    BY <1>2, <2>1, <2>2
<1>11. QED
  BY <1>8, <1>10 DEF r

(* Steps that leave the ids of queue pairs alone. *)
LEMMA NamesKept ==
  ASSUME StateTyped, Named, UNCHANGED m_qpNum2connID, DOMAIN pairs' \subseteq DOMAIN pairs,
         \A n \in DOMAIN pairs' : /\ pairs'[n].owner = pairs[n].owner
                                  /\ IsStray(n)' <=> IsStray(n)
                                  /\ IsStray(n) => pairs'[n].peer = pairs[n].peer,
         \A n \in DOMAIN pairs', o \in Objects, i \in IDs : QP(o, i) = n => QP(o, i)' = n
  PROVE  /\ Named'
         /\ \A n \in DOMAIN pairs' : IDOf(n)' = IDOf(n) /\ PartnerOf(n)' = PartnerOf(n)
<1>1. \A n \in DOMAIN pairs' : IDOf(n)' = IDOf(n)
  BY DEF IDOf
<1>2. \A n \in DOMAIN pairs' : PartnerOf(n)' = PartnerOf(n)
  BY <1>1 DEF PartnerOf
<1>3. ASSUME NEW n \in DOMAIN pairs', ~ IsStray(n)
      PROVE  (IDOf(n) \in DOMAIN Partner[pairs[n].owner] /\ QP(pairs[n].owner, IDOf(n)) = n)'
  <2>1. PICK o, i : o = pairs[n].owner /\ i = IDOf(n)
    OBVIOUS
  <2>2. i \in DOMAIN Partner[o] /\ QP(o, i) = n
    BY <1>3, <2>1 DEF Named
  <2>3. o \in Objects
    BY <2>1 DEF StateTyped, IsPartial, PairType
  <2>4. i \in IDs
    BY <2>2, <2>3, EndpointAssumption DEF IDs
  <2>5. QP(o, i)' = n
    BY <2>2, <2>3, <2>4
  <2>6. o = pairs'[n].owner /\ i = IDOf(n)'
    BY <1>1, <2>1
  <2>7. QED
    BY <2>2, <2>5, <2>6
<1>4. QED
  BY <1>1, <1>2, <1>3 DEF Named

LEMMA IsFromKept ==
  ASSUME \A n \in DOMAIN pairs' : n \in DOMAIN pairs /\ ~ IsStray(n) =>
           /\ pairs'[n].cq = pairs[n].cq /\ PartnerOf(n)' = PartnerOf(n)
           /\ pairs'[n].state # "RESET",
         NEW q, NEW c, IsFrom(q, c), c.num \in DOMAIN pairs'
  PROVE  IsFrom(q, c)'
<1>1. c.num \in DOMAIN pairs /\ ~ IsStray(c.num)
  BY DEF IsFrom
<1>2. PICK n : n = c.num
  OBVIOUS
<1>3. /\ pairs'[n].cq = pairs[n].cq /\ PartnerOf(n)' = PartnerOf(n)
      /\ pairs'[n].state # "RESET"
  BY <1>1, <1>2
<1>4. QED
  BY <1>2, <1>3 DEF IsFrom, IsStray

(* Nothing is left of the messages of a queue pair that is destroyed. *)
LEMMA DestroyAttributes ==
  ASSUME IInv, Named, Mutual, Arrived, NEW ns \in SUBSET DOMAIN pairs, Destroyed(ns),
         UNCHANGED m_qpNum2connID,
         \A n \in DOMAIN pairs \ ns, o \in Objects, i \in IDs : QP(o, i) = n => QP(o, i)' = n
  PROVE  Named' /\ Mutual' /\ Arrived'
<1>1. DOMAIN pairs' = DOMAIN pairs \ ns /\ \A n \in DOMAIN pairs' : pairs'[n] = pairs[n]
  BY PairsDestroyed DEF IInv
<1>2. /\ Named'
      /\ \A n \in DOMAIN pairs' : IDOf(n)' = IDOf(n) /\ PartnerOf(n)' = PartnerOf(n)
  BY <1>1, NamesKept DEF IInv, IsStray
<1>3. Mutual'
  BY <1>1, <1>2 DEF Mutual
<1>4. completed \in [Queues -> Seq(Arrival)]
  BY DEF Arrived
<1>5. completed' = [q \in Queues |-> Remaining(completed[q], ns)]
  BY DEF Destroyed
<1>6. ASSUME NEW q \in Queues
      PROVE  completed'[q] \in Seq(Arrival) /\ \A k \in DOMAIN completed'[q] : IsFrom(q, completed[q][k])'
  <2>1. completed[q] \in Seq(Arrival) /\ completed'[q] = Remaining(completed[q], ns)
    BY <1>4, <1>5
  <2>2. /\ completed'[q] \in Seq(Arrival)
        /\ \A k \in DOMAIN completed'[q] : \E i \in DOMAIN completed[q] :
             completed'[q][k] = completed[q][i] /\ completed[q][i].num \notin ns
    BY <2>1, RemainingFacts
  <2>3. ASSUME NEW k \in DOMAIN completed'[q]
        PROVE  IsFrom(q, completed[q][k])'
    <3>1. PICK i \in DOMAIN completed[q] :
            completed'[q][k] = completed[q][i] /\ completed[q][i].num \notin ns
      BY <2>2
    <3>2. PICK c : c = completed[q][i]
      OBVIOUS
    <3>3. IsFrom(q, c) /\ c.num \in DOMAIN pairs'
      BY <1>1, <3>1, <3>2 DEF Arrived, IsFrom
    <3>4. IsFrom(q, c)'
      BY <1>1, <1>2, <3>3, IsFromKept DEF IsStray
    <3>5. QED
      BY <3>1, <3>2, <3>4
  <2>4. QED
    BY <2>2, <2>3
<1>7. completed' \in [Queues -> Seq(Arrival)]
  BY <1>5, <1>6
<1>8. Arrived'
  BY <1>6, <1>7 DEF Arrived
<1>9. QED
  BY <1>2, <1>3, <1>8

(* A new queue pair has no messages and is connected to nobody. *)
LEMMA NewPairAttributes ==
  ASSUME IInv, Named, Mutual, Arrived, NEW o \in Objects, NEW id \in DOMAIN Partner[o],
         NEW n \in FreeNumbers, QP(o, id) = NoQP, Recorded(o, id, n),
         NEW q, pairs' = With(pairs, n, NewPair(o, q))
  PROVE  Named' /\ Mutual' /\ Arrived'
<1>1. /\ id \in IDs /\ n \in Numbers /\ n \notin DOMAIN pairs /\ StateTyped
      /\ NoQP \notin Numbers /\ DOMAIN pairs \subseteq Numbers
  BY FreeNumbersAreFree, EndpointAssumption DEF IInv, StateTyped, IsPartial, IDs
<1>2. /\ DOMAIN pairs' = DOMAIN pairs \cup {n} /\ pairs'[n] = NewPair(o, q)
      /\ \A m \in DOMAIN pairs : pairs'[m] = pairs[m]
  BY <1>1 DEF With
<1>3. setQP(o, id, n) /\ completed' = completed
  BY DEF Recorded
<1>4. \A p \in Objects, i \in IDs : QP(p, i)' = IF p = o /\ i = id THEN n ELSE QP(p, i)
  BY <1>1, <1>3, setQPFacts
<1>5. /\ m_qpNum2connID'[o][n] = id
      /\ \A m \in DOMAIN pairs : \A p \in Objects : m \in DOMAIN m_qpNum2connID[p] =>
           m_qpNum2connID'[p][m] = m_qpNum2connID[p][m]
  <2>1. m_qpNum2connID' = [m_qpNum2connID EXCEPT ![o] = With(m_qpNum2connID[o], n, id)]
    BY <1>3 DEF setQP
  <2>2. DOMAIN m_qpNum2connID = Objects
    BY <1>1 DEF StateTyped
  <2>3. QED
    BY <1>1, <2>1, <2>2 DEF With
<1>6. \A m \in DOMAIN pairs :
        /\ pairs[m].owner \in Objects
        /\ ~ IsStray(m) => m \in DOMAIN m_qpNum2connID[pairs[m].owner]
  BY <1>1 DEF IInv, PairsRecorded, HasRecord, StateTyped, IsPartial, PairType
<1>7. \A m \in DOMAIN pairs : ~ IsStray(m) => IDOf(m)' = IDOf(m) /\ PartnerOf(m)' = PartnerOf(m)
  <2>1. \A m \in DOMAIN pairs : ~ IsStray(m) => IDOf(m)' = IDOf(m)
    BY <1>2, <1>5, <1>6 DEF IDOf
  <2>2. QED
    BY <1>2, <2>1 DEF PartnerOf
<1>8. Named'
  <2>1. ASSUME NEW m \in DOMAIN pairs', ~ IsStray(m)'
        PROVE  (IDOf(m) \in DOMAIN Partner[pairs[m].owner] /\ QP(pairs[m].owner, IDOf(m)) = m)'
    <3>1. PICK p, i : p = pairs'[m].owner /\ i = IDOf(m)'
      OBVIOUS
    <3>2. CASE m = n
      <4>1. p = o /\ i = id
        BY <1>2, <1>5, <3>1, <3>2 DEF NewPair, IDOf
      <4>2. QP(p, i)' = n
        BY <1>1, <1>4, <4>1
      <4>3. QED
        BY <3>1, <3>2, <4>1, <4>2
    <3>3. CASE m \in DOMAIN pairs
      <4>0. ~ IsStray(m)
        BY <1>2, <2>1, <3>3 DEF IsStray
      <4>1. p = pairs[m].owner /\ i = IDOf(m)
        BY <1>2, <1>7, <3>1, <3>3, <4>0
      <4>2. i \in DOMAIN Partner[p] /\ QP(p, i) = m
        BY <3>3, <4>0, <4>1 DEF Named
      <4>3. p \in Objects /\ i \in IDs
        BY <1>6, <3>3, <4>1, <4>2, EndpointAssumption DEF IDs
      <4>4. QP(p, i)' = m
        BY <1>1, <1>4, <3>3, <4>2, <4>3
      <4>5. QED
        BY <3>1, <4>2, <4>4
    <3>4. QED
      BY <1>2, <3>2, <3>3
  <2>2. \A m \in DOMAIN pairs' : pairs'[m].state = "RESET" => pairs'[m].peer = NoQP
    BY <1>2 DEF NewPair, Named, IsStray
  <2>3. QED
    BY <2>1, <2>2 DEF Named, IsStray
<1>9. Mutual'
  <2>1. pairs'[n].peer = NoQP /\ NoQP \notin DOMAIN pairs'
    BY <1>1, <1>2 DEF NewPair
  <2>2. \A m \in DOMAIN pairs : IsStray(m) => pairs'[m].peer = NoQP
    BY <1>2 DEF Named
  <2>3. QED
    BY <1>2, <1>7, <2>1, <2>2 DEF Mutual
<1>10. Arrived'
  <2>1. \A r \in Queues : \A k \in DOMAIN completed[r] : IsFrom(r, completed[r][k])'
    <3> TAKE r \in Queues
    <3> TAKE k \in DOMAIN completed[r]
    <3>1. PICK c : c = completed[r][k]
      OBVIOUS
    <3>2. IsFrom(r, c) /\ c.num \in DOMAIN pairs'
      BY <1>2, <3>1 DEF Arrived, IsFrom
    <3>3. IsFrom(r, c)'
      BY <1>2, <1>7, <3>2, IsFromKept DEF IsStray
    <3>4. QED
      BY <1>3, <3>1, <3>3
  <2>2. QED
    BY <1>3, <2>1 DEF Arrived
<1>11. QED
  BY <1>8, <1>9, <1>10

(* Nor does a stray one. *)
LEMMA StrayAttributes ==
  ASSUME IInv, Named, Mutual, Arrived, NEW o \in Objects, NEW n \in FreeNumbers,
         NEW q, pairs' = With(pairs, n, NewStray(o, q)),
         UNCHANGED <<m_qps, m_qpNum2connID, completed>>
  PROVE  Named' /\ Mutual' /\ Arrived'
<1>1. n \notin DOMAIN pairs /\ n \in Numbers /\ NoQP \notin Numbers /\ DOMAIN pairs \subseteq Numbers
  BY FreeNumbersAreFree, EndpointAssumption DEF IInv, StateTyped, IsPartial
<1>2. /\ DOMAIN pairs' = DOMAIN pairs \cup {n} /\ pairs'[n] = NewStray(o, q)
      /\ \A m \in DOMAIN pairs : pairs'[m] = pairs[m]
  BY <1>1 DEF With
<1>3. pairs'[n].peer = NoQP /\ pairs'[n].state = "RESET" /\ NoQP \notin DOMAIN pairs'
  BY <1>1, <1>2 DEF NewStray, NewPair
<1>4. \A m \in DOMAIN pairs : IDOf(m)' = IDOf(m) /\ PartnerOf(m)' = PartnerOf(m)
  BY <1>2 DEF IDOf, PartnerOf
<1>5. \A p, i : QP(p, i)' = QP(p, i)
  BY DEF QP
<1>6. Named'
  <2>1. ASSUME NEW m \in DOMAIN pairs
        PROVE  (IF IsStray(m) THEN pairs[m].peer = NoQP
                ELSE IDOf(m) \in DOMAIN Partner[pairs[m].owner] /\ QP(pairs[m].owner, IDOf(m)) = m)'
    <3>1. PICK p, i : p = pairs[m].owner /\ i = IDOf(m)
      OBVIOUS
    <3>2. p = pairs'[m].owner /\ i = IDOf(m)'
      BY <1>2, <1>4, <3>1
    <3>3. QP(p, i)' = QP(p, i)
      BY <1>5
    <3>4. QED
      BY <1>2, <3>1, <3>2, <3>3 DEF Named, IsStray
  <2>2. QED
    BY <1>2, <1>3, <2>1 DEF Named, IsStray
<1>7. Mutual'
  BY <1>2, <1>3, <1>4 DEF Mutual
<1>8. Arrived'
  <2>1. \A r \in Queues : \A k \in DOMAIN completed[r] : IsFrom(r, completed[r][k])'
    <3> TAKE r \in Queues
    <3> TAKE k \in DOMAIN completed[r]
    <3>1. PICK c : c = completed[r][k]
      OBVIOUS
    <3>2. IsFrom(r, c) /\ c.num \in DOMAIN pairs'
      BY <1>2, <3>1 DEF Arrived, IsFrom
    <3>3. IsFrom(r, c)'
      BY <1>2, <1>4, <3>2, IsFromKept DEF IsStray
    <3>4. QED
      BY <3>1, <3>3
  <2>2. QED
    BY <2>1 DEF Arrived
<1>9. QED
  BY <1>6, <1>7, <1>8

(* Who is connected is connected to a queue pair for it. *)
LEMMA ConnectAttributes ==
  ASSUME IInv, Named, Mutual, Arrived, NEW o \in Objects, NEW id \in DOMAIN Partner[o],
         Live(o), kind = "RC", QP(o, id) # NoQP, NEW n \in Offered(o, id),
         NEW st \in {"RTR", "RTS"},
         \/ UNCHANGED pairs
         \/ pairs' = [pairs EXCEPT ![QP(o, id)].state = st, ![QP(o, id)].peer = n],
         UNCHANGED <<m_qps, m_qpNum2connID, completed>>
  PROVE  Named' /\ Mutual' /\ Arrived'
<1> DEFINE k == QP(o, id)
           p == Partner[o][id]
<1>1. /\ id \in IDs /\ n \in Numbers /\ NoQP \notin Numbers /\ StateTyped
      /\ o \in Objects \ destroyed /\ p \in Objects
  BY EndpointAssumption DEF IInv, IDs, Live, Offered, Range
<1>2. PICK j \in DOMAIN Partner[p] : Live(p) /\ Partner[p][j] = o /\ QP(p, j) = n
  BY DEF Offered
<1>3. j \in IDs /\ p \in Objects \ destroyed
  BY <1>1, <1>2, EndpointAssumption DEF IDs, Live
<1>4. ASSUME NEW r \in Objects \ destroyed, NEW i \in IDs, NEW m, m = QP(r, i), m # NoQP
      PROVE  /\ m \in DOMAIN pairs /\ ~ IsStray(m) /\ pairs[m].owner = r
             /\ IDOf(m) = i /\ PartnerOf(m) = Partner[r][i]
  <2>1. /\ m \in DOMAIN pairs /\ pairs[m].owner = r /\ ~ IsStray(m)
        /\ \A x \in IDs : QP(r, x) = m => x = i
    BY <1>4 DEF IInv, RecordsPaired
  <2>2. IDOf(m) \in DOMAIN Partner[r] /\ QP(r, IDOf(m)) = m
    BY <2>1 DEF Named
  <2>3. IDOf(m) \in IDs
    BY <2>2, EndpointAssumption DEF IDs
  <2>4. IDOf(m) = i
    BY <2>1, <2>2, <2>3
  <2>5. QED
    BY <2>1, <2>4 DEF PartnerOf
<1>5. k \in DOMAIN pairs /\ ~ IsStray(k) /\ pairs[k].owner = o /\ PartnerOf(k) = p
  BY <1>1, <1>4
<1>6. n \in DOMAIN pairs /\ pairs[n].owner = p /\ PartnerOf(n) = o
  BY <1>1, <1>2, <1>3, <1>4
<1> HIDE DEF k, p
<1>7. /\ DOMAIN pairs' = DOMAIN pairs
      /\ \A m \in DOMAIN pairs : /\ pairs'[m].owner = pairs[m].owner /\ pairs'[m].cq = pairs[m].cq
                                 /\ IsStray(m)' <=> IsStray(m)
                                 /\ \/ pairs'[m].peer = pairs[m].peer
                                    \/ m = k /\ pairs'[m].peer = n
  <2>1. IsPartial(pairs, Numbers, PairType)
    BY <1>1 DEF StateTyped
  <2>2. CASE UNCHANGED pairs
    BY <2>2 DEF IsStray
  <2>3. CASE pairs' = [pairs EXCEPT ![k].state = st, ![k].peer = n]
    BY <1>1, <1>5, <2>1, <2>3, BroughtUp DEF IsStray
  <2>4. QED
    BY <2>2, <2>3 DEF k
<1>8. \A r, i : QP(r, i)' = QP(r, i)
  BY DEF QP
<1>9. /\ Named'
      /\ \A m \in DOMAIN pairs : IDOf(m)' = IDOf(m) /\ PartnerOf(m)' = PartnerOf(m)
  BY <1>1, <1>5, <1>7, <1>8, NamesKept
<1>10. Mutual'
  BY <1>5, <1>6, <1>7, <1>9 DEF Mutual
<1>11. Arrived'
  <2>1. \A r \in Queues : \A i \in DOMAIN completed[r] : IsFrom(r, completed[r][i])'
    <3> TAKE r \in Queues
    <3> TAKE i \in DOMAIN completed[r]
    <3>1. PICK c : c = completed[r][i]
      OBVIOUS
    <3>2. IsFrom(r, c) /\ c.num \in DOMAIN pairs'
      BY <1>7, <3>1 DEF Arrived, IsFrom
    <3>3. IsFrom(r, c)'
      BY <1>7, <1>9, <3>2, IsFromKept DEF IsStray
    <3>4. QED
      BY <3>1, <3>3
  <2>2. QED
    BY <2>1 DEF Arrived
<1>12. QED
  BY <1>9, <1>10, <1>11

(* Messages: queue pairs keep their owners, ids, peers and queues. *)
LEMMA PairsSame ==
  ASSUME StateTyped, Named, Mutual, UNCHANGED <<m_qps, m_qpNum2connID>>, DOMAIN pairs' = DOMAIN pairs,
         \A n \in DOMAIN pairs : /\ pairs'[n].owner = pairs[n].owner
                                 /\ pairs'[n].peer = pairs[n].peer /\ pairs'[n].cq = pairs[n].cq
                                 /\ IsStray(n)' <=> IsStray(n)
  PROVE  /\ Named' /\ Mutual'
         /\ \A n \in DOMAIN pairs : PartnerOf(n)' = PartnerOf(n)
         /\ \A q, c : IsFrom(q, c) => IsFrom(q, c)'
<1>1. \A r, i : QP(r, i)' = QP(r, i)
  BY DEF QP
<1>2. Named' /\ \A n \in DOMAIN pairs : PartnerOf(n)' = PartnerOf(n)
  BY <1>1, NamesKept
<1>3. Mutual'
  BY <1>2 DEF Mutual
<1>4. ASSUME NEW q, NEW c, IsFrom(q, c)
      PROVE  IsFrom(q, c)'
  <2>1. c.num \in DOMAIN pairs'
    BY <1>4 DEF IsFrom
  <2>2. QED
    BY <1>2, <1>4, <2>1, IsFromKept DEF IsStray
<1>5. QED
  BY <1>2, <1>3, <1>4

LEMMA PollAttributes ==
  ASSUME StateTyped, Named, Mutual, Arrived, NEW q, Poll(q)
  PROVE  Named' /\ Mutual' /\ Arrived'
<1>1. UNCHANGED <<m_qps, m_qpNum2connID, pairs>>
  BY DEF Poll, fields
<1>2. Named' /\ Mutual' /\ \A r, c : IsFrom(r, c) => IsFrom(r, c)'
  BY <1>1, PairsSame DEF IsStray
<1>3. completed \in [Queues -> Seq(Arrival)] /\ completed[q] # <<>>
      /\ completed' = [completed EXCEPT ![q] = Tail(completed[q])]
  BY DEF Poll, Arrived
<1>4. ASSUME NEW r \in Queues
      PROVE  /\ completed'[r] \in Seq(Arrival)
             /\ \A k \in DOMAIN completed'[r] : \E i \in DOMAIN completed[r] :
                  completed'[r][k] = completed[r][i]
  <2> DEFINE s == completed[r]
  <2>1. s \in Seq(Arrival)
    BY <1>3
  <2>2. CASE r = q
    <3>1. completed'[r] = Tail(s) /\ s # <<>>
      BY <1>3, <2>2
    <3> HIDE DEF s
    <3>2. Tail(s) \in Seq(Arrival) /\ \A k \in DOMAIN Tail(s) : k + 1 \in DOMAIN s /\ Tail(s)[k] = s[k + 1]
      BY <2>1, <3>1
    <3>3. QED
      BY <3>1, <3>2 DEF s
  <2>3. CASE r # q
    BY <1>3, <2>1, <2>3
  <2>4. QED
    BY <2>2, <2>3
<1>5. Arrived'
  <2>1. completed' \in [Queues -> Seq(Arrival)]
    BY <1>3, <1>4
  <2>2. \A r \in Queues : \A k \in DOMAIN completed'[r] : IsFrom(r, completed[r][k])'
    BY <1>2, <1>4 DEF Arrived
  <2>3. QED
    BY <2>1, <2>2 DEF Arrived
<1>6. QED
  BY <1>2, <1>5

(* A message comes from whom its queue pair is connected to. *)
LEMMA ArriveAttributes ==
  ASSUME IInv, Named, Mutual, Arrived, NEW o \in Objects, NEW m \in DOMAIN pairs, ~ IsStray(m),
         PartnerOf(m) = o, Arrive(o, m), UNCHANGED <<m_qps, m_qpNum2connID>>
  PROVE  Named' /\ Mutual' /\ Arrived'
<1>1. UNCHANGED pairs /\ pairs[m].cq \in Queues /\ StateTyped /\ m \in Numbers
  BY DEF Arrive, IInv, StateTyped, IsPartial, PairType
<1>2. Named' /\ Mutual' /\ \A r, c : IsFrom(r, c) => IsFrom(r, c)'
  BY <1>1, PairsSame DEF IsStray
<1>3. PICK q, c : q = pairs[m].cq /\ c = [num |-> m, from |-> o]
  OBVIOUS
<1>4. completed \in [Queues -> Seq(Arrival)] /\ c \in Arrival /\ q \in Queues
      /\ completed' = [completed EXCEPT ![q] = Append(completed[q], c)]
  BY <1>1, <1>3 DEF Arrive, Arrived, Arrival
<1>5. IsFrom(q, c)
  BY <1>3 DEF IsFrom
<1>6. ASSUME NEW r \in Queues
      PROVE  /\ completed'[r] \in Seq(Arrival)
             /\ \A k \in DOMAIN completed'[r] :
                  \/ k \in DOMAIN completed[r] /\ completed'[r][k] = completed[r][k]
                  \/ r = q /\ completed'[r][k] = c
  <2> DEFINE s == completed[r]
  <2>1. s \in Seq(Arrival)
    BY <1>4
  <2>2. CASE r = q
    <3>1. completed'[r] = Append(s, c)
      BY <1>4, <2>2
    <3> HIDE DEF s
    <3>2. Append(s, c) \in Seq(Arrival)
          /\ \A k \in DOMAIN Append(s, c) :
               (k \in DOMAIN s /\ Append(s, c)[k] = s[k]) \/ Append(s, c)[k] = c
      BY <1>4, <2>1
    <3>3. QED
      BY <2>2, <3>1, <3>2 DEF s
  <2>3. CASE r # q
    BY <1>4, <2>1, <2>3
  <2>4. QED
    BY <2>2, <2>3
<1>7. Arrived'
  <2>1. completed' \in [Queues -> Seq(Arrival)]
    BY <1>4, <1>6
  <2>2. \A r \in Queues : \A k \in DOMAIN completed'[r] : IsFrom(r, completed[r][k])'
    BY <1>2, <1>5, <1>6 DEF Arrived
  <2>3. QED
    BY <2>1, <2>2 DEF Arrived
<1>8. QED
  BY <1>2, <1>7

LEMMA FailAttributes ==
  ASSUME IInv, Named, Mutual, Arrived, NEW n \in DOMAIN pairs, ~ IsStray(n), Fail(n),
         UNCHANGED <<m_qps, m_qpNum2connID>>
  PROVE  Named' /\ Mutual' /\ Arrived'
<1>1. /\ DOMAIN pairs' = DOMAIN pairs
      /\ \A m \in DOMAIN pairs : /\ pairs'[m].owner = pairs[m].owner
                                 /\ pairs'[m].peer = pairs[m].peer /\ pairs'[m].cq = pairs[m].cq
                                 /\ IsStray(m)' <=> IsStray(m)
  BY DEF Fail, IInv, StateTyped, IsPartial, PairType, IsStray
<1>2. Named' /\ Mutual' /\ \A r, c : IsFrom(r, c) => IsFrom(r, c)'
  BY <1>1, PairsSame DEF IInv
<1>3. PICK c : c = [num |-> n, from |-> NoObject]
  OBVIOUS
<1>4. c \in Arrival /\ IsFrom(n, c)
  BY <1>3 DEF IInv, StateTyped, IsPartial, Arrival, IsFrom
<1>5. ASSUME NEW r \in Queues
      PROVE  /\ completed'[r] \in Seq(Arrival)
             /\ \A k \in DOMAIN completed'[r] :
                  \/ k \in DOMAIN completed[r] /\ completed'[r][k] = completed[r][k]
                  \/ r = n /\ completed'[r][k] = c
  <2> DEFINE s == completed[r]
             t == [i \in 1 .. posted[n] |-> c]
  <2>1. s \in Seq(Arrival)
    BY DEF Arrived
  <2>2. CASE r = n
    <3>1. completed'[r] = s \o t
      BY <1>3, <2>2 DEF Fail
    <3>2. posted[n] \in Nat
      BY <2>2 DEF IInv, StateTyped
    <3>3. t \in Seq(Arrival) /\ Len(t) = posted[n] /\ \A i \in 1 .. posted[n] : t[i] = c
      BY <1>4, <3>2
    <3> HIDE DEF s, t
    <3>4. /\ s \o t \in Seq(Arrival) /\ Len(s) \in Nat
          /\ \A k \in DOMAIN (s \o t) :
               \/ k \in DOMAIN s /\ (s \o t)[k] = s[k]
               \/ k - Len(s) \in 1 .. posted[n] /\ (s \o t)[k] = t[k - Len(s)]
      BY <2>1, <3>2, <3>3
    <3>5. QED
      BY <2>2, <3>1, <3>3, <3>4 DEF s
  <2>3. CASE r # n
    BY <2>1, <2>3 DEF Fail
  <2>4. QED
    BY <2>2, <2>3
<1>6. Arrived'
  <2>1. completed' \in [Queues -> Seq(Arrival)]
    BY <1>5 DEF Fail
  <2>2. \A r \in Queues : \A k \in DOMAIN completed'[r] : IsFrom(r, completed[r][k])'
    BY <1>2, <1>4, <1>5, ZenonT(40) DEF Arrived
  <2>3. QED
    BY <2>1, <2>2 DEF Arrived
<1>7. QED
  BY <1>2, <1>6

LEMMA SameAttributes ==
  ASSUME StateTyped, Named, Mutual, Arrived, UNCHANGED <<m_qps, m_qpNum2connID, pairs, completed>>
  PROVE  Named' /\ Mutual' /\ Arrived'
<1>1. Named' /\ Mutual' /\ \A r, c : IsFrom(r, c) => IsFrom(r, c)'
  BY PairsSame DEF IsStray
<1>2. Arrived'
  BY <1>1 DEF Arrived
<1>3. QED
  BY <1>1, <1>2

LEMMA SendAttributes ==
  ASSUME IInv, Named, Mutual, Arrived, kind = "RC",
         NEW o \in Objects, NEW id \in IDs, send(o, id)
  PROVE  Named' /\ Mutual' /\ Arrived'
<1> DEFINE n == QP(o, id)
           m == m_rconns[o][id].qp
<1>1. /\ UNCHANGED <<m_qps, m_qpNum2connID>> /\ o \in Objects \ destroyed
      /\ IsConnected(o, id) /\ OwnQueue(o, id) = n
      /\ (Reaches(n, m) /\ Arrive(o, m)) \/ Fail(n)
      /\ pairs[n].state = "RTS"
  BY DEF send, fields, Live, OwnQueue
<1>2. n \in DOMAIN pairs /\ pairs[n].owner = o /\ pairs[n].peer = m /\ ~ IsStray(n)
  BY <1>1 DEF IInv, ReliableConnected, RecordsPaired
<1> HIDE DEF n, m
<1>3. CASE Reaches(n, m) /\ Arrive(o, m)
  <2>1. m \in DOMAIN pairs /\ pairs[m].peer = n /\ ~ IsStray(m)
    BY <1>3 DEF Reaches, IsStray
  <2>2. PartnerOf(m) = o
    BY <1>2, <2>1 DEF Mutual
  <2>3. QED
    BY <1>1, <1>3, <2>1, <2>2, ArriveAttributes
<1>4. CASE Fail(n)
  BY <1>1, <1>2, <1>4, FailAttributes
<1>5. QED
  BY <1>1, <1>3, <1>4

LEMMA DisconnectAttributes ==
  ASSUME IInv, Named, Mutual, Arrived, kind = "RC", NEW o \in Objects, NEW id \in IDs,
         disconnectQP(o, id)
  PROVE  Named' /\ Mutual' /\ Arrived'
<1> DEFINE k == QP(o, id)
<1>1. /\ Destroyed({k}) /\ o \in Objects \ destroyed /\ IsConnected(o, id) /\ StateTyped
      /\ m_qps' = [m_qps EXCEPT ![o][id + 1] = NoQP] /\ UNCHANGED m_qpNum2connID
  BY DEF disconnectQP, IInv, Live
<1>2. k # NoQP /\ k \in DOMAIN pairs
  BY <1>1 DEF IInv, ReliableConnected, RecordsPaired
<1>3. \A p \in Objects, i \in IDs : QP(p, i)' = QP(p, i) \/ (p = o /\ i = id)
  <2> TAKE p \in Objects, i \in IDs
  <2>1. id \in Nat /\ i \in Nat /\ m_qps[p] \in Seq(Numbers \cup {NoQP})
    BY <1>1, EndpointAssumption DEF StateTyped, IDs
  <2>2. CASE p # o
    BY <1>1, <2>2 DEF StateTyped, QP
  <2>3. CASE p = o
    <3>1. m_qps'[p] = [m_qps[p] EXCEPT ![id + 1] = NoQP]
      BY <1>1, <2>3 DEF StateTyped
    <3>2. Len(m_qps'[p]) = Len(m_qps[p]) /\ (i # id => m_qps'[p][i + 1] = m_qps[p][i + 1])
      BY <2>1, <3>1
    <3>3. QED
      BY <2>3, <3>2 DEF QP
  <2>4. QED
    BY <2>2, <2>3
<1>4. \A n \in DOMAIN pairs \ {k}, p \in Objects, i \in IDs : QP(p, i) = n => QP(p, i)' = n
  BY <1>3
<1>5. {k} \in SUBSET DOMAIN pairs
  BY <1>2
<1> HIDE DEF k
<1>6. QED
  BY <1>1, <1>4, <1>5, DestroyAttributes

LEMMA DestructorAttributes ==
  ASSUME IInv, Named, Mutual, Arrived, kind = "RC", NEW o \in Objects, Destroy(o)
  PROVE  Named' /\ Mutual' /\ Arrived'
<1> DEFINE ns == {QP(o, id) : id \in IDs} \ {NoQP}
<1>1. /\ Destroyed(ns) /\ o \in Objects \ destroyed
      /\ m_qps' = [m_qps EXCEPT ![o] = <<>>] /\ UNCHANGED m_qpNum2connID
  BY DEF Destroy, Gone, Live
<1>2. ns \in SUBSET DOMAIN pairs
  BY <1>1 DEF IInv, RecordsPaired
<1>3. ASSUME NEW n \in DOMAIN pairs \ ns, NEW p \in Objects, NEW i \in IDs, QP(p, i) = n
      PROVE  QP(p, i)' = n
  <2>1. n # NoQP
    BY EndpointAssumption DEF IInv, StateTyped, IsPartial
  <2>2. p # o
    BY <1>3, <2>1
  <2>3. m_qps'[p] = m_qps[p]
    BY <1>1, <2>2
  <2>4. QED
    BY <1>3, <2>3 DEF QP
<1> HIDE DEF ns
<1>4. QED
  BY <1>1, <1>2, <1>3, DestroyAttributes

LEMMA KindKept ==
  ASSUME [Next]_vars
  PROVE  UNCHANGED kind
<1>1. CASE UNCHANGED vars
  BY <1>1 DEF vars
<1>2. ASSUME NEW o \in Objects, NEW id,
             \/ initQPWithSuppliedID(o, id) \/ initQPForSRQWithSuppliedID(o, id)
             \/ connectQP(o, id) \/ ConnectFails(o, id) \/ disconnectQP(o, id)
             \/ receive(o, id) \/ send(o, id) \/ pollReceive(o, id)
      PROVE  UNCHANGED kind
  BY <1>2 DEF initQPWithSuppliedID, Recorded, initQPForSRQWithSuppliedID, connectQP,
              ConnectFails, disconnectQP, receive, send, pollReceive, Post, Poll
<1>3. ASSUME NEW o \in Objects,
             \/ createSharedReceiveQueue(o) \/ Destroy(o) \/ InitFails(o) \/ DestroyThrows(o)
             \/ receiveSRQ(o) \/ pollReceiveSRQ(o)
      PROVE  UNCHANGED kind
  BY <1>3 DEF createSharedReceiveQueue, Destroy, InitFails, DestroyThrows, receiveSRQ,
              pollReceiveSRQ, Post, Poll
<1>4. QED
  BY <1>1, <1>2, <1>3 DEF Next, initQP

LEMMA NextKeepsArrivals ==
  ASSUME IInv, kind = "RC", Named, Mutual, Arrived, [Next]_vars
  PROVE  Named' /\ Mutual' /\ Arrived'
<1>1. StateTyped
  BY DEF IInv
<1>2. CASE UNCHANGED vars
  BY <1>1, <1>2, SameAttributes DEF vars, fields, card
<1>3. ASSUME NEW o \in Objects, NEW id \in DOMAIN Partner[o],
             initQPWithSuppliedID(o, id) \/ initQPForSRQWithSuppliedID(o, id)
      PROVE  Named' /\ Mutual' /\ Arrived'
  <2>1. QP(o, id) = NoQP /\ \E n \in FreeNumbers : \E q :
          pairs' = With(pairs, n, NewPair(o, q)) /\ Recorded(o, id, n)
    BY <1>3 DEF initQPWithSuppliedID, initQPForSRQWithSuppliedID
  <2>2. QED
    BY <2>1, NewPairAttributes
<1>4. ASSUME NEW o \in Objects, initQP(o)
      PROVE  Named' /\ Mutual' /\ Arrived'
  <2>1. nextConnKey(o) \in DOMAIN Partner[o]
    BY <1>4 DEF initQP, initQPWithSuppliedID, Recorded
  <2>2. QED
    BY <1>3, <1>4, <2>1 DEF initQP
<1>5. ASSUME NEW o \in Objects, InitFails(o)
      PROVE  Named' /\ Mutual' /\ Arrived'
  <2>1. UNCHANGED <<m_qps, m_qpNum2connID, completed>>
    BY <1>5 DEF InitFails, fields
  <2>2. \/ UNCHANGED pairs
        \/ \E n \in FreeNumbers : \E q : pairs' = With(pairs, n, NewStray(o, q))
    BY <1>5 DEF InitFails
  <2>3. QED
    BY <1>1, <2>1, <2>2, SameAttributes, StrayAttributes
<1>6. ASSUME NEW o \in Objects, NEW id \in DOMAIN Partner[o], connectQP(o, id)
      PROVE  Named' /\ Mutual' /\ Arrived'
  <2>1. PICK n \in Offered(o, id) :
          /\ QP(o, id) # NoQP
          /\ \/ UNCHANGED pairs
             \/ pairs' = [pairs EXCEPT ![QP(o, id)].state = "RTS", ![QP(o, id)].peer = n]
    BY <1>6 DEF connectQP
  <2>2. Live(o) /\ UNCHANGED <<m_qps, m_qpNum2connID, completed>>
    BY <1>6 DEF connectQP
  <2>3. QED
    BY <2>1, <2>2, ConnectAttributes
<1>7. ASSUME NEW o \in Objects, NEW id \in DOMAIN Partner[o], ConnectFails(o, id)
      PROVE  Named' /\ Mutual' /\ Arrived'
  <2>1. PICK n \in Offered(o, id) :
          \/ UNCHANGED pairs
          \/ pairs' = [pairs EXCEPT ![QP(o, id)].state = "RTR", ![QP(o, id)].peer = n]
    BY <1>7 DEF ConnectFails
  <2>2. Live(o) /\ QP(o, id) # NoQP /\ UNCHANGED <<m_qps, m_qpNum2connID, completed>>
    BY <1>7 DEF ConnectFails
  <2>3. QED
    BY <2>1, <2>2, ConnectAttributes
<1>8. ASSUME NEW o \in Objects, NEW id \in DOMAIN Partner[o], disconnectQP(o, id) \/ send(o, id)
      PROVE  Named' /\ Mutual' /\ Arrived'
  <2>1. id \in IDs
    BY EndpointAssumption DEF IDs
  <2>2. QED
    BY <1>8, <2>1, DisconnectAttributes, SendAttributes
<1>9. ASSUME NEW q, Post(q)
      PROVE  Named' /\ Mutual' /\ Arrived'
  BY <1>1, <1>9, SameAttributes DEF Post, fields
<1>10. ASSUME NEW q, Poll(q)
       PROVE  Named' /\ Mutual' /\ Arrived'
  BY <1>1, <1>10, PollAttributes
<1>11. ASSUME NEW o \in Objects, pollReceiveSRQ(o)
       PROVE  Named' /\ Mutual' /\ Arrived'
  <2>1. Poll(SRQ(o)) \/ UNCHANGED <<fields, card>>
    BY <1>11 DEF pollReceiveSRQ
  <2>2. QED
    BY <1>1, <1>10, <2>1, SameAttributes DEF fields, card
<1>12. ASSUME NEW o \in Objects, createSharedReceiveQueue(o) \/ DestroyThrows(o)
       PROVE  Named' /\ Mutual' /\ Arrived'
  BY <1>1, <1>12, SameAttributes DEF createSharedReceiveQueue, DestroyThrows, fields, card
<1>13. ASSUME NEW o \in Objects, Destroy(o)
       PROVE  Named' /\ Mutual' /\ Arrived'
  BY <1>13, DestructorAttributes
<1>14. QED
  BY <1>2, <1>3, <1>4, <1>5, <1>6, <1>7, <1>8, <1>9, <1>10, <1>11, <1>12, <1>13
     DEF Next, receiveSRQ, receive, pollReceive

(* The first completion of a shared queue, whose id pollReceiveSRQ looks up. *)
LEMMA ReportedID ==
  ASSUME IInv, Named, Arrived, NEW o \in Objects, o \in m_srqs, completed[SRQ(o)] # <<>>,
         NEW c, c = Head(completed[SRQ(o)])
  PROVE  /\ ConnID(o, c) \in IDs /\ c.from \in Objects \cup {NoObject}
         /\ Partner[o][ConnID(o, c)] = c.from
<1>1. SRQ(o) \in Queues
  BY DEF IInv, StateTyped, Queues
<1>2. completed[SRQ(o)] \in Seq(Arrival)
  BY <1>1 DEF Arrived
<1>3. 1 \in DOMAIN completed[SRQ(o)] /\ c = completed[SRQ(o)][1] /\ c \in Arrival
  BY <1>2
<1>4. IsFrom(SRQ(o), c)
  BY <1>1, <1>3 DEF Arrived
<1>5. SRQ(o) \notin Numbers /\ \A p \in Objects : SRQ(p) = SRQ(o) => p = o
  BY SRQFacts
<1>6. \A n \in DOMAIN pairs : n \in Numbers /\ pairs[n].owner \in Objects
  BY DEF IInv, StateTyped, IsPartial, PairType
<1>7. PICK n : n = c.num
  OBVIOUS
<1>8. /\ n \in DOMAIN pairs /\ ~ IsStray(n) /\ pairs[n].cq = SRQ(o)
      /\ c.from = PartnerOf(n)
  BY <1>4, <1>5, <1>6, <1>7 DEF IsFrom
<1>9. pairs[n].owner = o
  BY <1>5, <1>6, <1>8 DEF IInv, QueuesUsed
<1>10. ConnID(o, c) = IDOf(n)
  BY <1>7, <1>9 DEF ConnID, IDOf
<1>11. IDOf(n) \in IDs
  BY <1>8, <1>9, EndpointAssumption DEF Named, IDs
<1>12. QED
  BY <1>3, <1>8, <1>9, <1>10, <1>11 DEF PartnerOf, Arrival

LEMMA NextKeepsReports ==
  ASSUME IInv, Attribution, [Next]_vars
  PROVE  ReportsTyped' /\ (kind = "RC" => ReportsRight')
<1>1. ReportsTyped /\ (kind = "RC" => ReportsRight)
  BY DEF Attribution
<1>2. ASSUME UNCHANGED reported, destroyed \subseteq destroyed'
      PROVE  ReportsTyped' /\ (kind = "RC" => ReportsRight')
  BY <1>1, <1>2 DEF ReportsTyped, ReportsRight
<1>3. CASE UNCHANGED vars
  BY <1>2, <1>3 DEF vars, fields
<1>4. ASSUME NEW o \in Objects, NEW id,
             \/ initQPWithSuppliedID(o, id) \/ initQPForSRQWithSuppliedID(o, id)
             \/ connectQP(o, id) \/ ConnectFails(o, id) \/ disconnectQP(o, id)
             \/ receive(o, id) \/ send(o, id) \/ pollReceive(o, id)
      PROVE  UNCHANGED <<reported, destroyed>>
  BY <1>4 DEF initQPWithSuppliedID, Recorded, initQPForSRQWithSuppliedID, connectQP,
              ConnectFails, disconnectQP, receive, send, pollReceive, Post, Poll, fields
<1>5. ASSUME NEW o \in Objects,
             \/ createSharedReceiveQueue(o) \/ InitFails(o) \/ DestroyThrows(o) \/ receiveSRQ(o)
      PROVE  UNCHANGED <<reported, destroyed>>
  BY <1>5 DEF createSharedReceiveQueue, InitFails, DestroyThrows, receiveSRQ, Post, fields
<1>6. ASSUME NEW o \in Objects, Destroy(o)
      PROVE  ReportsTyped' /\ (kind = "RC" => ReportsRight')
  <2>1. reported' = [reported EXCEPT ![o] = NoReport] /\ destroyed' = destroyed \cup {o}
    BY <1>6 DEF Destroy, Gone
  <2>2. NoReport \in [id : IDs, from : Objects \cup {NoObject}] /\ NoReport.from = NoObject
    BY EndpointAssumption DEF NoReport, IDs
  <2>3. ReportsTyped'
    BY <1>1, <2>1, <2>2 DEF ReportsTyped
  <2>4. \A p \in Objects \ destroyed' : reported'[p] = reported[p]
    BY <1>1, <2>1 DEF ReportsTyped
  <2>5. QED
    BY <1>1, <2>1, <2>3, <2>4 DEF ReportsRight
<1>7. ASSUME NEW o \in Objects, pollReceiveSRQ(o)
      PROVE  ReportsTyped' /\ (kind = "RC" => ReportsRight')
  <2>1. kind = "RC" /\ o \in m_srqs /\ UNCHANGED destroyed
    BY <1>7 DEF pollReceiveSRQ, Poll, fields, IInv, QueuesUsed, StateTyped
  <2>2. CASE UNCHANGED reported
    BY <1>2, <2>1, <2>2
  <2>3. CASE reported' # reported
    <3>1. PICK c : c = Head(completed[SRQ(o)])
      OBVIOUS
    <3>2. /\ completed[SRQ(o)] # <<>>
          /\ reported' = [reported EXCEPT ![o] = [id |-> ConnID(o, c), from |-> c.from]]
      BY <1>7, <2>3, <3>1 DEF pollReceiveSRQ, Poll
    <3>3. /\ ConnID(o, c) \in IDs /\ c.from \in Objects \cup {NoObject}
          /\ Partner[o][ConnID(o, c)] = c.from
      BY <2>1, <3>1, <3>2, ReportedID DEF Attribution
    <3>4. PICK r : r = [id |-> ConnID(o, c), from |-> c.from]
      OBVIOUS
    <3>5. /\ r \in [id : IDs, from : Objects \cup {NoObject}]
          /\ Partner[o][r.id] = r.from
      BY <3>3, <3>4
    <3>6. reported'[o] = r /\ \A p \in Objects : p # o => reported'[p] = reported[p]
      BY <1>1, <3>2, <3>4 DEF ReportsTyped
    <3>7. ReportsTyped'
      BY <1>1, <3>2, <3>4, <3>5 DEF ReportsTyped
    <3>8. ReportsRight'
      BY <1>1, <2>1, <3>5, <3>6 DEF ReportsRight
    <3>9. QED
      BY <3>7, <3>8
  <2>4. QED
    BY <2>2, <2>3
<1>8. QED
  BY <1>2, <1>3, <1>4, <1>5, <1>6, <1>7 DEF Next, initQP

LEMMA NextKeepsAttribution ==
  ASSUME IInv, Attribution, [Next]_vars
  PROVE  Attribution'
<1>1. kind' = kind
  BY KindKept
<1>2. kind = "RC" => Named' /\ Mutual' /\ Arrived'
  BY NextKeepsArrivals DEF Attribution
<1>3. ReportsTyped' /\ (kind = "RC" => ReportsRight')
  BY NextKeepsReports
<1>4. QED
  BY <1>1, <1>2, <1>3 DEF Attribution

LEMMA InitAttribution == Init => Attribution
<1> SUFFICES ASSUME Init PROVE Attribution
  OBVIOUS
<1>1. ReportsTyped /\ ReportsRight
  <2>1. reported = [o \in Objects |-> NoReport]
    BY DEF Init
  <2>2. NoReport \in [id : IDs, from : Objects \cup {NoObject}] /\ NoReport.from = NoObject
    BY EndpointAssumption DEF NoReport, IDs
  <2>3. QED
    BY <2>1, <2>2 DEF ReportsTyped, ReportsRight
<1>2. ASSUME kind = "RC" PROVE Named /\ Mutual /\ Arrived
  <2>1. DOMAIN pairs = {} /\ completed = [q \in Queues |-> <<>>]
    BY <1>2 DEF Init
  <2>2. <<>> \in Seq(Arrival) /\ DOMAIN <<>> = {}
    OBVIOUS
  <2>3. QED
    BY <2>1, <2>2 DEF Named, Mutual, Arrived
<1>3. QED
  BY <1>1, <1>2 DEF Attribution

LEMMA AttributionHolds == Spec => []Attribution
<1>1. IInv /\ Attribution /\ [Next]_vars => Attribution'
  BY NextKeepsAttribution
<1>2. QED
  BY <1>1, InitAttribution, Invariance, PTL DEF Spec

-----------------------------------------------------------------------------
(* The state is well typed: what is recorded of connections stays within   *)
(* the ids, numbers and handles there are.                                 *)
THEOREM TypeCorrect == Spec => []TypeOK
<1>1. IInv /\ Attribution => TypeOK
  BY DEF IInv, Attribution, ReportsTyped, TypeOK
<1>2. QED
  BY <1>1, Invariance, AttributionHolds, PTL

(* An id that m_connected has as connected can be used, and a reliable one *)
(* that it does not have so has no queue pair that was brought up,         *)
(* whatever was disconnected, connected again, failed half-way or was      *)
(* destroyed in between.                                                   *)
THEOREM ConnectedStaysUsable == Spec => []ConnectedMeansUsable
<1>1. IInv /\ TypeOK => ConnectedMeansUsable
  <2> SUFFICES ASSUME IInv, NEW o \in Objects \ destroyed, NEW id \in DOMAIN Partner[o]
               PROVE  IF kind = "RC"
                      THEN /\ IsConnected(o, id) <=>
                                QP(o, id) # NoQP /\ pairs[QP(o, id)].state \in {"RTS", "ERR"}
                           /\ IsConnected(o, id) =>
                                /\ pairs[QP(o, id)].owner = o
                                /\ pairs[QP(o, id)].peer = m_rconns[o][id].qp
                      ELSE IsConnected(o, id) =>
                             /\ m_rconns[o][id].ah \in DOMAIN handles
                             /\ handles[m_rconns[o][id].ah] = [owner |-> o, target |-> Partner[o][id]]
    BY DEF ConnectedMeansUsable
  <2>1. id \in IDs /\ kind \in {"RC", "UD"}
    BY EndpointAssumption DEF IDs, IInv, StateTyped
  <2>2. QED
    BY <2>1 DEF IInv, ReliableConnected, Up, RecordsPaired, DatagramsConnected, HasHandle
<1>2. QED
  BY <1>1, Invariance, TypeCorrect, PTL

(* A completion queue is there for as long as a queue pair uses it, also   *)
(* when several share it and some are disconnected or destroyed, and a     *)
(* shared one goes with the last of them - until the code uses it then.    *)
THEOREM CompletionQueuesAlwaysStay == Spec => []CompletionQueuesStay
<1>1. IInv => CompletionQueuesStay
  <2> SUFFICES ASSUME IInv, status # "undefined"
               PROVE  /\ \A n \in DOMAIN pairs : pairs[n].cq \in cqs
                      /\ \A o \in m_srqs : SRQ(o) \in cqs <=>
                           m_connectedQPs[o] = {} \/ \E n \in DOMAIN pairs : pairs[n].cq = SRQ(o)
    BY DEF CompletionQueuesStay, EveryPairHasQueue
  <2>1. \A n \in DOMAIN pairs : pairs[n].cq \in cqs
    BY DEF IInv, QueuesUsed
  <2>2. m_srqs \subseteq Objects
    BY EndpointAssumption DEF IInv, StateTyped
  <2>3. QED
    BY <2>1, <2>2 DEF IInv, SharedQueuesUsed
<1>2. QED
  BY <1>1, Invariance, PTL

(* The destructor leaves no queue pair and no completion queue that a      *)
(* queue pair ever used, but those of calls that failed, and of these no   *)
(* more than there were such calls.                                        *)
THEOREM NothingEverLeaks == Spec => []NothingLeaks
<1>1. IInv => NothingLeaks
  <2> SUFFICES ASSUME IInv, NEW o \in destroyed
               PROVE  /\ Owned(o) \subseteq Strays
                      /\ \A q \in cqs : q \in Numbers => q \in DOMAIN pairs
                      /\ SRQ(o) \in cqs => m_connectedQPs[o] = {}
    BY DEF NothingLeaks, IInv, StraysCounted
  <2>1. o \in Objects /\ \A n \in DOMAIN pairs : pairs[n].owner \in Objects /\ n \in Numbers
    BY DEF IInv, StateTyped, IsPartial, PairType
  <2>2. \A n \in DOMAIN pairs : pairs[n].owner = o => IsStray(n)
    BY DEF IInv, PairsRecorded, HasRecord, Live
  <2>3. \A n \in DOMAIN pairs : pairs[n].cq # SRQ(o)
    <3>1. ~ Live(o)
      BY DEF Live
    <3>2. QED
      BY <2>1, <3>1, SRQFacts DEF IInv, QueuesUsed
  <2>4. QED
    BY <2>1, <2>2, <2>3 DEF IInv, QueuesUsed, SharedQueuesUsed, Owned, Strays, IsStray
<1>2. QED
  BY <1>1, Invariance, PTL

(* The id that pollReceiveSRQ writes for a message is its sender's, and    *)
(* what arrives for an id is its partner's, also after the numbers of      *)
(* destroyed queue pairs have come back for others.                        *)
THEOREM MessagesAlwaysAttributed == Spec => []MessagesAttributed
<1>1. IInv /\ Attribution => MessagesAttributed
  <2> SUFFICES ASSUME IInv, kind = "RC", Named, Mutual, Arrived, ReportsRight,
                      NEW o \in Objects \ destroyed
               PROVE  /\ reported[o].from # NoObject => Partner[o][reported[o].id] = reported[o].from
                      /\ \A id \in DOMAIN Partner[o] \ {i \in IDs : QP(o, i) = NoQP} :
                           \A c \in Range(completed[pairs[QP(o, id)].cq]) :
                             c.num = QP(o, id) => c.from \in {Partner[o][id], NoObject}
    BY DEF MessagesAttributed, Attribution
  <2>1. \A n \in DOMAIN pairs : n \in Numbers /\ pairs[n].owner \in Objects /\ pairs[n].cq \in Queues
    BY DEF IInv, StateTyped, IsPartial, PairType
  <2>2. ASSUME NEW id \in DOMAIN Partner[o] \ {i \in IDs : QP(o, i) = NoQP},
               NEW c \in Range(completed[pairs[QP(o, id)].cq]), c.num = QP(o, id)
        PROVE  c.from \in {Partner[o][id], NoObject}
    <3>1. id \in IDs /\ QP(o, id) # NoQP
      BY <2>2, EndpointAssumption DEF IDs
    <3>2. PICK n : n = QP(o, id)
      OBVIOUS
    <3>3. /\ n \in DOMAIN pairs /\ pairs[n].owner = o /\ ~ IsStray(n)
          /\ \A i \in IDs : QP(o, i) = n => i = id
      BY <3>1, <3>2 DEF IInv, RecordsPaired
    <3>4. IDOf(n) = id
      <4>1. IDOf(n) \in DOMAIN Partner[o] /\ QP(o, IDOf(n)) = n
        BY <3>3 DEF Named
      <4>2. IDOf(n) \in IDs
        BY <4>1, EndpointAssumption DEF IDs
      <4>3. QED
        BY <3>3, <4>1, <4>2
    <3>5. IsFrom(pairs[n].cq, c)
      BY <2>1, <2>2, <3>2, <3>3 DEF Range, Arrived
    <3>6. QED
      BY <2>2, <3>2, <3>3, <3>4, <3>5 DEF IsFrom, PartnerOf
  <2>3. QED
    BY <2>2 DEF ReportsRight
<1>2. QED
  BY <1>1, Invariance, AttributionHolds, PTL
=============================================================================
