-------------------------- MODULE Multicast_proofs --------------------------
(***************************************************************************)
(* What a caller can rely on, however many nodes, groups and joins there   *)
(* are and whatever fails: a key names its group, and the object and the   *)
(* subnet manager agree on what is joined.  The argument is that a key is  *)
(* new when it is taken, so that a connection goes behind all those there  *)
(* are.  The sends of each group implement SendQueue, since each has a     *)
(* counter and a queue pair of its own, and a step of a node is one of one *)
(* group.                                                                  *)
(***************************************************************************)
EXTENDS Multicast, WellFoundedInduction, TLAPS

bookkeeping == <<object, m_lastMCastConnKey, m_udpMcastConns, given, members, failedJoins>>

Typed ==
  /\ object \in [Nodes -> {"live", "destroyed", "terminated"}]
  /\ m_lastMCastConnKey \in [Nodes -> 0 .. MaxJoins]
  /\ m_udpMcastConns \in [Nodes -> Seq(ConnType)]
  /\ given \subseteq MemberType
  /\ members \subseteq MemberType

(* The next key is beyond the vector. *)
KeyIsNew == \A n \in Nodes : Len(m_udpMcastConns[n]) <= m_lastMCastConnKey[n]

ActiveAreMembers ==
  \A n \in Nodes : object[n] = "live" =>
    \A k \in ActiveKeys(n) : Member(n, k, Conn(n, k).group) \in members

(* The connection of a member that no failed join left behind is active,   *)
(* and of the same group, so that leaving removes this member.             *)
HasConnection(m) ==
  /\ object[m.node] = "live"
  /\ m.key \in ActiveKeys(m.node)
  /\ Conn(m.node, m.key).group = m.group

MembersAreActive ==
  \A m \in members : HasConnection(m) \/ <<m.node, m.key>> \in failedJoins

IInv == Typed /\ KeyIsNew /\ KeysNameGroups /\ ActiveAreMembers /\ MembersAreActive

-----------------------------------------------------------------------------
(* PutAt as setMCastConn uses it: a vector that ends before the index. *)
LEMMA PutAtEnd ==
  ASSUME NEW vector \in Seq(ConnType), NEW i \in Nat \ {0}, Len(vector) < i,
         NEW element \in ConnType, NEW w, w = PutAt(vector, i, element, NoConn)
  PROVE  /\ w \in Seq(ConnType)
         /\ Len(w) = i
         /\ w[i] = element
         /\ \A j \in 1 .. Len(vector) : w[j] = vector[j]
         /\ \A j \in (Len(vector) + 1) .. (i - 1) : w[j] = NoConn
<1>1. w = [j \in 1 .. i |-> IF j = i THEN element
                            ELSE IF j <= Len(vector) THEN vector[j] ELSE NoConn]
  BY DEF PutAt
<1>2. w \in [1 .. i -> ConnType]
  <2>1. NoConn \in ConnType
    BY DEF ConnType, NoConn
  <2>2. \A j \in 1 .. i : j <= Len(vector) => vector[j] \in ConnType
    OBVIOUS
  <2>3. QED
    BY <1>1, <2>1, <2>2
<1>3. w \in Seq(ConnType) /\ Len(w) = i
  BY <1>2
<1>4. QED
  BY <1>1, <1>3

(* The active keys of a node are those its connections say. *)
LEMMA ActiveKeyFacts ==
  ASSUME NEW n, NEW k
  PROVE  k \in ActiveKeys(n) <=> /\ k \in Keys
                                 /\ k < Len(m_udpMcastConns[n])
                                 /\ m_udpMcastConns[n][k + 1].active
BY DEF ActiveKeys, Conn

(* Leaving changes no connection but those left, and of them only whether  *)
(* they are active.                                                        *)
LEMMA LeavesFacts ==
  ASSUME Typed, NEW n \in Nodes, NEW leaving \in SUBSET ActiveKeys(n), Leaves(n, leaving)
  PROVE  /\ m_udpMcastConns' \in [Nodes -> Seq(ConnType)]
         /\ \A o \in Nodes \ {n} : m_udpMcastConns'[o] = m_udpMcastConns[o]
         /\ Len(m_udpMcastConns'[n]) = Len(m_udpMcastConns[n])
         /\ \A k \in Keys : k < Len(m_udpMcastConns[n]) =>
              LET c == m_udpMcastConns[n][k + 1]
                  d == m_udpMcastConns'[n][k + 1]
              IN  /\ d.group = c.group
                  /\ d.active = (c.active /\ k \notin leaving)
<1> DEFINE v == m_udpMcastConns[n]
           w == [i \in DOMAIN v |->
                   IF i - 1 \in leaving THEN [v[i] EXCEPT !.active = FALSE] ELSE v[i]]
<1>1. v \in Seq(ConnType) /\ DOMAIN v = 1 .. Len(v) /\ Len(v) \in Nat
  BY DEF Typed
<1>2. m_udpMcastConns' = [m_udpMcastConns EXCEPT ![n] = w]
  BY DEF Leaves
<1>3. \A i \in 1 .. Len(v) : v[i] \in ConnType
  BY <1>1
<1>4. w \in [1 .. Len(v) -> ConnType]
  BY <1>1, <1>3 DEF ConnType
<1>5. w \in Seq(ConnType) /\ Len(w) = Len(v)
  BY <1>1, <1>4
<1>6. \A i \in 1 .. Len(v) : /\ w[i].group = v[i].group
                             /\ w[i].active = (v[i].active /\ i - 1 \notin leaving)
  BY <1>1, <1>3 DEF ConnType
<1>7. \A k \in Keys : k < Len(v) => k + 1 \in 1 .. Len(v) /\ (k + 1) - 1 = k
  BY <1>1 DEF Keys
<1>8. m_udpMcastConns'[n] = w /\ \A o \in Nodes \ {n} : m_udpMcastConns'[o] = m_udpMcastConns[o]
  BY <1>2 DEF Typed
<1>9. m_udpMcastConns' \in [Nodes -> Seq(ConnType)]
  BY <1>2, <1>5 DEF Typed
<1> HIDE DEF v, w
<1>10. ASSUME NEW k \in Keys, k < Len(v)
       PROVE  /\ w[k + 1].group = v[k + 1].group
              /\ w[k + 1].active = (v[k + 1].active /\ k \notin leaving)
  <2>1. k + 1 \in 1 .. Len(v) /\ (k + 1) - 1 = k
    BY <1>7, <1>10
  <2>2. /\ w[k + 1].group = v[k + 1].group
        /\ w[k + 1].active = (v[k + 1].active /\ (k + 1) - 1 \notin leaving)
    BY <1>6, <2>1, Zenon
  <2>3. QED
    BY <2>1, <2>2, Zenon
<1> USE DEF v
<1>11. QED
  BY <1>5, <1>8, <1>9, <1>10

-----------------------------------------------------------------------------
(* Steps that concern the queues only. *)
LEMMA BookkeepingUnchanged ==
  ASSUME IInv, UNCHANGED bookkeeping
  PROVE  IInv'
BY DEF IInv, bookkeeping, Typed, KeyIsNew, KeysNameGroups, ActiveAreMembers,
       MembersAreActive, HasConnection, ActiveKeys, Conn

(* A connection goes behind all there are. *)
LEMMA JoinKeeps ==
  ASSUME IInv, NEW n \in Nodes, NEW g \in Groups, Join(n, g)
  PROVE  IInv'
<1> DEFINE key == m_lastMCastConnKey[n]
           v == m_udpMcastConns[n]
           w == PutAt(v, key + 1, [group |-> g, active |-> TRUE], NoConn)
           m0 == Member(n, key, g)
<1>1. /\ key \in 0 .. MaxJoins /\ key < MaxJoins /\ key \in Keys
      /\ m_lastMCastConnKey' = [m_lastMCastConnKey EXCEPT ![n] = key + 1]
  BY BoundsAssumption DEF IInv, Typed, Join, nextMCastConnKey, Keys
<1>2. /\ object[n] = "live" /\ UNCHANGED <<object, failedJoins>>
      /\ members' = members \cup {m0} /\ given' = given \cup {m0}
  BY DEF Join, Idle
<1>3. m_udpMcastConns' = [m_udpMcastConns EXCEPT ![n] = w]
  BY DEF Join, setMCastConn
<1>4. v \in Seq(ConnType) /\ Len(v) \in Nat /\ Len(v) < key + 1 /\ key + 1 \in Nat \ {0}
  BY <1>1 DEF IInv, Typed, KeyIsNew
<1>5. [group |-> g, active |-> TRUE] \in ConnType /\ NoConn \in ConnType
  BY DEF ConnType, NoConn
<1>6. /\ w \in Seq(ConnType) /\ Len(w) = key + 1
      /\ w[key + 1] = [group |-> g, active |-> TRUE]
      /\ \A j \in 1 .. Len(v) : w[j] = v[j]
      /\ \A j \in (Len(v) + 1) .. key : w[j] = NoConn
  <2> DEFINE c == [group |-> g, active |-> TRUE]
             i == key + 1
  <2>c. c \in ConnType /\ NoConn \in ConnType /\ w = PutAt(v, i, c, NoConn)
    BY <1>5
  <2>i. v \in Seq(ConnType) /\ i \in Nat \ {0} /\ Len(v) < i
    BY <1>4
  <2> HIDE DEF key, v, w, c, i
  <2>1. /\ w \in Seq(ConnType) /\ Len(w) = i
        /\ w[i] = c
        /\ \A j \in 1 .. Len(v) : w[j] = v[j]
        /\ \A j \in (Len(v) + 1) .. (i - 1) : w[j] = NoConn
    BY <2>c, <2>i, PutAtEnd
  <2>2. (key + 1) - 1 = key
    BY <1>1
  <2>3. QED
    BY <2>1, <2>2, Zenon DEF c, i
<1>7. m0 \in MemberType
  BY <1>1 DEF Member, MemberType
<1>8. m_udpMcastConns'[n] = w /\ \A o \in Nodes \ {n} : m_udpMcastConns'[o] = m_udpMcastConns[o]
  BY <1>3 DEF IInv, Typed
<1> HIDE DEF key, v, w, m0
<1>9. Typed'
  <2>1. m_lastMCastConnKey' \in [Nodes -> 0 .. MaxJoins]
    <3>1. key + 1 \in 0 .. MaxJoins
      BY <1>1, BoundsAssumption
    <3>2. QED
      BY <1>1, <3>1 DEF IInv, Typed
  <2>2. m_udpMcastConns' \in [Nodes -> Seq(ConnType)]
    BY <1>3, <1>6 DEF IInv, Typed
  <2>3. QED
    BY <1>2, <1>7, <2>1, <2>2 DEF IInv, Typed
<1>10. KeyIsNew'
  BY <1>1, <1>6, <1>8 DEF IInv, Typed, KeyIsNew, v, w
(* What is known of a key of n that is not the new one. *)
<1>11. ASSUME NEW k \in Keys, k < Len(v)
       PROVE  k < key /\ k < Len(w) /\ w[k + 1] = v[k + 1]
  <2>1. k \in Int /\ 0 <= k
    BY DEF Keys
  <2>2. k < key /\ k < Len(w) /\ k + 1 \in 1 .. Len(v)
    BY <1>1, <1>4, <1>6, <1>11, <2>1
  <2>3. QED
    BY <1>6, <2>2
<1>12. ASSUME NEW k \in Keys, k < Len(w), w[k + 1].active, k # key
       PROVE  k < Len(v)
  <2>1. CASE k < Len(v)
    BY <2>1
  <2>2. CASE ~ (k < Len(v))
    <3>1. k + 1 \in (Len(v) + 1) .. key
      BY <1>1, <1>4, <1>6, <1>12, <2>2 DEF Keys
    <3>2. QED
      BY <1>6, <1>12, <3>1 DEF NoConn
  <2>3. QED
    BY <2>1, <2>2
<1>13. KeysNameGroups'
  <2> SUFFICES ASSUME NEW m \in given'
               PROVE  /\ m.key < Len(m_udpMcastConns'[m.node])
                      /\ m_udpMcastConns'[m.node][m.key + 1].group = m.group
    BY DEF KeysNameGroups, Conn
  <2>1. CASE m = m0
    BY <1>1, <1>6, <1>8, <2>1 DEF m0, Member
  <2>2. CASE m \in given
    <3>1. /\ m.node \in Nodes /\ m.key \in Keys
          /\ m.key < Len(m_udpMcastConns[m.node])
          /\ m_udpMcastConns[m.node][m.key + 1].group = m.group
      BY <2>2 DEF IInv, Typed, MemberType, KeysNameGroups, Conn
    <3>2. QED
      BY <1>8, <1>11, <3>1 DEF v
  <2>3. QED
    BY <1>2, <2>1, <2>2
<1>14. ActiveAreMembers'
  <2> SUFFICES ASSUME NEW o \in Nodes, object[o] = "live", NEW k \in Keys,
                      k < Len(m_udpMcastConns'[o]), m_udpMcastConns'[o][k + 1].active
               PROVE  Member(o, k, m_udpMcastConns'[o][k + 1].group) \in members'
    BY <1>2 DEF ActiveAreMembers, ActiveKeys, Conn
  <2>1. CASE o = n /\ k = key
    BY <1>2, <1>6, <1>8, <2>1 DEF m0
  <2>2. CASE ~ (o = n /\ k = key)
    <3>1. /\ k < Len(m_udpMcastConns[o])
          /\ m_udpMcastConns'[o][k + 1] = m_udpMcastConns[o][k + 1]
      BY <1>8, <1>11, <1>12, <2>2 DEF v
    <3>2. Member(o, k, m_udpMcastConns[o][k + 1].group) \in members
      BY <3>1 DEF IInv, ActiveAreMembers, ActiveKeys, Conn
    <3>3. QED
      BY <1>2, <3>1, <3>2
  <2>3. QED
    BY <2>1, <2>2
<1>15. MembersAreActive'
  <2> SUFFICES ASSUME NEW m \in members', <<m.node, m.key>> \notin failedJoins
               PROVE  /\ object[m.node] = "live" /\ m.key \in Keys
                      /\ m.key < Len(m_udpMcastConns'[m.node])
                      /\ m_udpMcastConns'[m.node][m.key + 1].active
                      /\ m_udpMcastConns'[m.node][m.key + 1].group = m.group
    BY <1>2 DEF MembersAreActive, HasConnection, ActiveKeys, Conn
  <2>1. CASE m = m0
    BY <1>1, <1>2, <1>6, <1>8, <2>1 DEF m0, Member
  <2>2. CASE m \in members
    <3>1. /\ m.node \in Nodes /\ m.key \in Keys /\ object[m.node] = "live"
          /\ m.key < Len(m_udpMcastConns[m.node])
          /\ m_udpMcastConns[m.node][m.key + 1].active
          /\ m_udpMcastConns[m.node][m.key + 1].group = m.group
      BY <2>2 DEF IInv, Typed, MemberType, MembersAreActive, HasConnection, ActiveKeys, Conn
    <3>2. QED
      BY <1>8, <1>11, <3>1 DEF v
  <2>3. QED
    BY <1>2, <2>1, <2>2
<1>16. QED
  BY <1>9, <1>10, <1>13, <1>14, <1>15 DEF IInv

(* A join that fails takes a key and leaves a hole, or a member, behind. *)
LEMMA JoinFailsKeeps ==
  ASSUME IInv, NEW n \in Nodes, NEW g \in Groups, JoinFails(n, g)
  PROVE  IInv'
<1> DEFINE key == m_lastMCastConnKey[n]
           m0 == Member(n, key, g)
<1>1. /\ key \in 0 .. MaxJoins /\ key < MaxJoins /\ key \in Keys
      /\ m_lastMCastConnKey' = [m_lastMCastConnKey EXCEPT ![n] = key + 1]
  BY BoundsAssumption DEF IInv, Typed, JoinFails, nextMCastConnKey, Keys
<1>2. /\ UNCHANGED <<object, m_udpMcastConns, given>>
      /\ members' \in {members, members \cup {m0}}
      /\ failedJoins' = failedJoins \cup {<<n, key>>}
  BY DEF JoinFails
<1>3. m0 \in MemberType /\ m0.node = n /\ m0.key = key
  BY <1>1 DEF Member, MemberType
<1> HIDE DEF key, m0
<1>4. Typed'
  <2>1. key + 1 \in 0 .. MaxJoins
    BY <1>1, BoundsAssumption
  <2>2. m_lastMCastConnKey' \in [Nodes -> 0 .. MaxJoins]
    BY <1>1, <2>1 DEF IInv, Typed
  <2>3. QED
    BY <1>2, <1>3, <2>2 DEF IInv, Typed
<1>5. KeyIsNew'
  <2>1. \A o \in Nodes : Len(m_udpMcastConns[o]) \in Nat
    BY DEF IInv, Typed
  <2>2. \A o \in Nodes : /\ m_lastMCastConnKey[o] \in 0 .. MaxJoins
                         /\ m_lastMCastConnKey'[o] \in {m_lastMCastConnKey[o], m_lastMCastConnKey[o] + 1}
    BY <1>1, SMTT(30) DEF IInv, Typed, key
  <2>3. QED
    BY <1>2, <2>1, <2>2 DEF IInv, KeyIsNew
<1>6. KeysNameGroups' /\ ActiveAreMembers'
  BY <1>2 DEF IInv, KeysNameGroups, ActiveAreMembers, ActiveKeys, Conn
<1>7. MembersAreActive'
  BY <1>2, <1>3 DEF IInv, MembersAreActive, HasConnection, ActiveKeys, Conn
<1>8. QED
  BY <1>4, <1>5, <1>6, <1>7 DEF IInv

(* What leaveMCastGroup and the destructor have in common: all of it when  *)
(* the object lives on, and when it is destroyed all its keys are left.    *)
LEMMA LeavingKeeps ==
  ASSUME IInv, NEW n \in Nodes, object[n] = "live",
         NEW leaving \in SUBSET ActiveKeys(n), Leaves(n, leaving),
         UNCHANGED <<m_lastMCastConnKey, given, failedJoins>>,
         \/ UNCHANGED object
         \/ /\ object' = [object EXCEPT ![n] = "destroyed"]
            /\ leaving = ActiveKeys(n)
  PROVE  IInv'
<1>1. /\ m_udpMcastConns' \in [Nodes -> Seq(ConnType)]
      /\ \A o \in Nodes \ {n} : m_udpMcastConns'[o] = m_udpMcastConns[o]
      /\ Len(m_udpMcastConns'[n]) = Len(m_udpMcastConns[n])
      /\ \A k \in Keys : k < Len(m_udpMcastConns[n]) =>
           /\ m_udpMcastConns'[n][k + 1].group = m_udpMcastConns[n][k + 1].group
           /\ m_udpMcastConns'[n][k + 1].active =
                (m_udpMcastConns[n][k + 1].active /\ k \notin leaving)
  BY LeavesFacts DEF IInv
<1>2. members' = members \ {Member(n, k, Conn(n, k).group) : k \in leaving}
  BY DEF Leaves
<1>3. \A o \in Nodes : /\ Len(m_udpMcastConns'[o]) = Len(m_udpMcastConns[o])
                       /\ object'[o] = "live" => object[o] = "live"
  BY <1>1 DEF IInv, Typed
<1>4. ASSUME NEW o \in Nodes, NEW k \in Keys, k < Len(m_udpMcastConns[o])
      PROVE  /\ m_udpMcastConns'[o][k + 1].group = m_udpMcastConns[o][k + 1].group
             /\ m_udpMcastConns'[o][k + 1].active <=>
                  /\ m_udpMcastConns[o][k + 1].active
                  /\ ~ (o = n /\ k \in leaving)
  BY <1>1, <1>4
<1>5. Typed' /\ KeyIsNew'
  BY <1>1, <1>2, <1>3 DEF IInv, Typed, KeyIsNew
<1>6. KeysNameGroups'
  <2> SUFFICES ASSUME NEW m \in given
               PROVE  /\ m.key < Len(m_udpMcastConns'[m.node])
                      /\ m_udpMcastConns'[m.node][m.key + 1].group = m.group
    BY DEF KeysNameGroups, Conn
  <2>1. /\ m.node \in Nodes /\ m.key \in Keys
        /\ m.key < Len(m_udpMcastConns[m.node])
        /\ m_udpMcastConns[m.node][m.key + 1].group = m.group
    BY DEF IInv, Typed, MemberType, KeysNameGroups, Conn
  <2>2. QED
    BY <1>3, <1>4, <2>1
<1>7. ActiveAreMembers'
  <2> SUFFICES ASSUME NEW o \in Nodes, object'[o] = "live", NEW k \in Keys,
                      k < Len(m_udpMcastConns'[o]), m_udpMcastConns'[o][k + 1].active
               PROVE  Member(o, k, m_udpMcastConns'[o][k + 1].group) \in members'
    BY DEF ActiveAreMembers, ActiveKeys, Conn
  <2>1. /\ k < Len(m_udpMcastConns[o]) /\ m_udpMcastConns[o][k + 1].active
        /\ m_udpMcastConns'[o][k + 1].group = m_udpMcastConns[o][k + 1].group
        /\ ~ (o = n /\ k \in leaving)
    BY <1>3, <1>4
  <2>2. Member(o, k, m_udpMcastConns[o][k + 1].group) \in members
    BY <1>3, <2>1 DEF IInv, ActiveAreMembers, ActiveKeys, Conn
  <2>3. QED
    BY <1>2, <2>1, <2>2 DEF Member
<1>8. MembersAreActive'
  <2> SUFFICES ASSUME NEW m \in members', <<m.node, m.key>> \notin failedJoins
               PROVE  /\ object'[m.node] = "live" /\ m.key \in Keys
                      /\ m.key < Len(m_udpMcastConns'[m.node])
                      /\ m_udpMcastConns'[m.node][m.key + 1].active
                      /\ m_udpMcastConns'[m.node][m.key + 1].group = m.group
    BY DEF MembersAreActive, HasConnection, ActiveKeys, Conn
  <2>1. m \in members /\ m \in MemberType
    BY <1>2 DEF IInv, Typed
  <2>2. /\ m.node \in Nodes /\ m.key \in Keys /\ object[m.node] = "live"
        /\ m.key \in ActiveKeys(m.node)
        /\ m.key < Len(m_udpMcastConns[m.node])
        /\ m_udpMcastConns[m.node][m.key + 1].active
        /\ m_udpMcastConns[m.node][m.key + 1].group = m.group
    BY <2>1 DEF IInv, MemberType, MembersAreActive, HasConnection, ActiveKeys, Conn
  <2>3. ~ (m.node = n /\ m.key \in leaving)
    <3> SUFFICES ASSUME m.node = n, m.key \in leaving
                 PROVE  FALSE
      OBVIOUS
    <3>1. m = Member(n, m.key, Conn(n, m.key).group)
      BY <2>1, <2>2 DEF MemberType, Member, Conn
    <3>2. QED
      BY <1>2, <3>1
  <2>4. object'[m.node] = "live"
    BY <2>2, <2>3 DEF IInv, Typed
  <2>5. QED
    BY <1>3, <1>4, <2>2, <2>3, <2>4
<1>9. QED
  BY <1>5, <1>6, <1>7, <1>8 DEF IInv

(* The process ends, and its queue pairs with it. *)
LEMMA DestroyFailsKeeps ==
  ASSUME IInv, NEW n \in Nodes, DestroyFails(n)
  PROVE  IInv'
<1>1. /\ object' = [object EXCEPT ![n] = "terminated"]
      /\ members' = {m \in members : m.node # n}
      /\ UNCHANGED <<m_lastMCastConnKey, m_udpMcastConns, given, failedJoins>>
  BY DEF DestroyFails
<1>2. Typed' /\ KeyIsNew' /\ KeysNameGroups'
  BY <1>1 DEF IInv, Typed, KeyIsNew, KeysNameGroups, Conn
<1>3. ActiveAreMembers'
  <2> SUFFICES ASSUME NEW o \in Nodes, object'[o] = "live", NEW k \in ActiveKeys(o)
               PROVE  Member(o, k, Conn(o, k).group) \in members'
    BY <1>1 DEF ActiveAreMembers, ActiveKeys, Conn
  <2>1. o # n /\ object[o] = "live"
    BY <1>1 DEF IInv, Typed
  <2>2. QED
    BY <1>1, <2>1 DEF IInv, ActiveAreMembers, Member
<1>4. MembersAreActive'
  <2> SUFFICES ASSUME NEW m \in members', <<m.node, m.key>> \notin failedJoins
               PROVE  HasConnection(m)'
    BY <1>1 DEF MembersAreActive
  <2>1. m \in members /\ m.node # n /\ m.node \in Nodes /\ HasConnection(m)
    BY <1>1 DEF IInv, Typed, MemberType, MembersAreActive
  <2>2. QED
    BY <1>1, <2>1 DEF IInv, Typed, HasConnection, ActiveKeys, Conn
<1>5. QED
  BY <1>2, <1>3, <1>4 DEF IInv

-----------------------------------------------------------------------------
LEMMA Initially ==
  Init => IInv
<1> SUFFICES ASSUME Init
             PROVE  IInv
  OBVIOUS
<1>1. Typed
  BY BoundsAssumption DEF Init, Typed
<1>2. \A n \in Nodes : Len(m_udpMcastConns[n]) = 0 /\ ActiveKeys(n) = {}
  BY DEF Init, ActiveKeys, Keys
<1>3. QED
  BY <1>1, <1>2 DEF Init, IInv, KeyIsNew, KeysNameGroups, ActiveAreMembers, MembersAreActive

(* Everything but joining, leaving and destroying leaves the books alone. *)
LEMMA Step ==
  IInv /\ [Next]_vars => IInv'
<1> SUFFICES ASSUME IInv, [Next]_vars
             PROVE  IInv'
  OBVIOUS
<1>1. CASE UNCHANGED vars
  BY <1>1, BookkeepingUnchanged DEF vars, objects, joins, bookkeeping
<1>2. ASSUME NEW n \in Nodes, NEW g \in Groups, Join(n, g)
      PROVE  IInv'
  BY <1>2, JoinKeeps
<1>3. ASSUME NEW n \in Nodes, NEW g \in Groups, JoinFails(n, g)
      PROVE  IInv'
  BY <1>3, JoinFailsKeeps
<1>4. ASSUME NEW n \in Nodes, NEW key \in Keys, leaveMCastGroup(n, key)
      PROVE  IInv'
  <2>1. /\ object[n] = "live" /\ Leaves(n, {key} \cap ActiveKeys(n))
        /\ UNCHANGED <<object, m_lastMCastConnKey, given, failedJoins>>
    BY <1>4 DEF leaveMCastGroup, Idle
  <2>2. {key} \cap ActiveKeys(n) \in SUBSET ActiveKeys(n)
    OBVIOUS
  <2>3. QED
    BY <2>1, <2>2, LeavingKeeps
<1>5. ASSUME NEW n \in Nodes, Destroy(n)
      PROVE  IInv'
  <2>1. /\ object[n] = "live" /\ Leaves(n, ActiveKeys(n))
        /\ object' = [object EXCEPT ![n] = "destroyed"]
        /\ UNCHANGED <<m_lastMCastConnKey, given, failedJoins>>
    BY <1>5 DEF Destroy, LeftByDestructor, Idle
  <2>2. ActiveKeys(n) \in SUBSET ActiveKeys(n)
    OBVIOUS
  <2>3. QED
    BY <2>1, <2>2, LeavingKeeps
<1>6. ASSUME NEW n \in Nodes, DestroyFails(n)
      PROVE  IInv'
  BY <1>6, DestroyFailsKeeps
<1>7. ASSUME NEW n \in Nodes, Completed(n)
      PROVE  IInv'
  BY <1>7, BookkeepingUnchanged DEF Completed, objects, joins, bookkeeping
<1>8. ASSUME NEW n \in Nodes, NEW key \in Keys,
             \/ \E signaled \in BOOLEAN : sendMCast(n, key, signaled)
             \/ Execute(n, key) \/ receiveMCast(n, key) \/ pollReceiveMCast(n, key)
      PROVE  IInv'
  <2>1. UNCHANGED bookkeeping
    BY <1>8 DEF sendMCast, Execute, receiveMCast, pollReceiveMCast, objects, joins, bookkeeping
  <2>2. QED
    BY <2>1, BookkeepingUnchanged
<1>9. QED
  BY <1>1, <1>2, <1>3, <1>4, <1>5, <1>6, <1>7, <1>8 DEF Next

(* The books are in order: the inductive invariant. *)
THEOREM Invariance == Spec => []IInv
BY Initially, Step, PTL DEF Spec

(* A key names the group it was handed out for, for any number of nodes,   *)
(* groups and joins, failed ones among them (KeysNameGroups).              *)
THEOREM KeysStay == Spec => []KeysNameGroups
<1>1. IInv => KeysNameGroups
  BY DEF IInv
<1>2. QED
  BY Invariance, <1>1, PTL

(* The object and the subnet manager agree on what is joined, but for what *)
(* failed joins left behind (MembershipRecorded).                          *)
THEOREM MembershipKept == Spec => []MembershipRecorded
<1>1. IInv => MembershipRecorded
  BY DEF IInv, ActiveAreMembers, MembersAreActive, HasConnection, MembershipRecorded
<1>2. QED
  BY Invariance, <1>1, PTL

-----------------------------------------------------------------------------
(* Every group's sends keep to SendQueue.                                  *)

SendsType == [posted : Nat, executed : Nat, polled : Nat, signaledWRs : SUBSET Nat,
              result : {"none", "ok", "postFailed", "completed"}]

QueuesTyped ==
  /\ m_sendMCastCount \in [Nodes -> Seq(Int)]
  /\ waiting \in [Nodes -> Keys \cup {None}]
  /\ sends \in [QueuePairs -> SendsType]
  /\ posts \in Nat

(* A connection has a counter of its own, and the bound on all posts       *)
(* bounds those of each queue pair.                                        *)
HaveCounters == \A n \in Nodes : Len(m_udpMcastConns[n]) <= Len(m_sendMCastCount[n])
PostsBounded == \A q \in QueuePairs : sends[q].posted <= posts

QueuesInv == QueuesTyped /\ HaveCounters /\ PostsBounded

(* A node with a counter more, which is 0. *)
LEMMA NewCounter ==
  ASSUME NEW counts \in Seq(Int), NEW i \in Nat \ {0}, Len(counts) < i,
         NEW w, w = PutAt(counts, i, 0, 0)
  PROVE  /\ w \in Seq(Int)
         /\ Len(w) = i
         /\ \A j \in 1 .. Len(counts) : w[j] = counts[j]
         /\ \A j \in (Len(counts) + 1) .. i : w[j] = 0
<1>1. w = [j \in 1 .. i |-> IF j = i THEN 0 ELSE IF j <= Len(counts) THEN counts[j] ELSE 0]
  BY DEF PutAt
<1>2. w \in [1 .. i -> Int]
  BY <1>1
<1>3. w \in Seq(Int) /\ Len(w) = i
  BY <1>2
<1>4. Len(counts) \in Nat
  OBVIOUS
<1>5. ASSUME NEW j \in 1 .. Len(counts)
      PROVE  w[j] = counts[j]
  BY <1>1, <1>4
<1>6. ASSUME NEW j \in (Len(counts) + 1) .. i
      PROVE  w[j] = 0
  BY <1>1, <1>4
<1>7. QED
  BY <1>3, <1>5, <1>6

(* The new connection's counter is there; all counters are what they were. *)
LEMMA JoinCounts ==
  ASSUME IInv, QueuesInv, NEW n \in Nodes, NEW g \in Groups, Join(n, g)
  PROVE  /\ m_sendMCastCount' \in [Nodes -> Seq(Int)]
         /\ HaveCounters'
         /\ \A q \in QueuePairs : CountOf(q[1], q[2])' = CountOf(q[1], q[2])
<1> DEFINE key == m_lastMCastConnKey[n]
           counts == m_sendMCastCount[n]
           new == IF Len(counts) < key + 1 THEN PutAt(counts, key + 1, 0, 0) ELSE counts
           conns == PutAt(m_udpMcastConns[n], key + 1, [group |-> g, active |-> TRUE], NoConn)
<1>1. key \in Nat /\ key + 1 \in Nat \ {0} /\ counts \in Seq(Int)
  BY BoundsAssumption DEF IInv, Typed, QueuesInv, QueuesTyped
<1>2. /\ m_sendMCastCount' = [m_sendMCastCount EXCEPT ![n] = new]
      /\ m_udpMcastConns' = [m_udpMcastConns EXCEPT ![n] = conns]
  BY DEF Join, setMCastConn
<1>3. /\ new \in Seq(Int) /\ Len(new) \in Nat /\ Len(counts) \in Nat
      /\ Len(new) >= key + 1 /\ Len(new) >= Len(counts)
      /\ \A j \in 1 .. Len(counts) : new[j] = counts[j]
      /\ \A j \in (Len(counts) + 1) .. Len(new) : new[j] = 0
  <2> HIDE DEF key, counts
  <2>1. CASE Len(counts) < key + 1
    <3> PICK i : i = key + 1
      OBVIOUS
    <3>1. i \in Nat \ {0} /\ Len(counts) < i /\ new = PutAt(counts, i, 0, 0)
      BY <1>1, <2>1
    <3> HIDE DEF new
    <3>2. /\ new \in Seq(Int) /\ Len(new) = i
          /\ \A j \in 1 .. Len(counts) : new[j] = counts[j]
          /\ \A j \in (Len(counts) + 1) .. i : new[j] = 0
      BY <1>1, <3>1, NewCounter
    <3>3. QED
      BY <1>1, <2>1, <3>2
  <2>2. CASE ~ (Len(counts) < key + 1)
    <3>1. new = counts
      BY <2>2
    <3> HIDE DEF new
    <3>2. QED
      BY <1>1, <2>2, <3>1
  <2>3. QED
    BY <2>1, <2>2
<1>4. conns \in Seq(ConnType) /\ Len(conns) = key + 1
  <2>1. [group |-> g, active |-> TRUE] \in ConnType
    BY DEF ConnType
  <2>2. m_udpMcastConns[n] \in Seq(ConnType) /\ Len(m_udpMcastConns[n]) < key + 1
    BY <1>1 DEF IInv, Typed, KeyIsNew
  <2> PICK i : i = key + 1
    OBVIOUS
  <2>3. i \in Nat \ {0} /\ Len(m_udpMcastConns[n]) < i
        /\ conns = PutAt(m_udpMcastConns[n], i, [group |-> g, active |-> TRUE], NoConn)
    BY <1>1, <2>2
  <2> HIDE DEF conns, key
  <2>4. QED
    BY <2>1, <2>2, <2>3, PutAtEnd
<1> HIDE DEF new, conns
<1>5. /\ m_sendMCastCount' \in [Nodes -> Seq(Int)]
      /\ m_sendMCastCount'[n] = new
      /\ \A o \in Nodes \ {n} : m_sendMCastCount'[o] = m_sendMCastCount[o]
  BY <1>2, <1>3 DEF QueuesInv, QueuesTyped
<1>6. /\ m_udpMcastConns'[n] = conns
      /\ \A o \in Nodes \ {n} : m_udpMcastConns'[o] = m_udpMcastConns[o]
  BY <1>2 DEF IInv, Typed
<1>7. HaveCounters'
  <2> SUFFICES ASSUME NEW o \in Nodes
               PROVE  Len(m_udpMcastConns'[o]) <= Len(m_sendMCastCount'[o])
    BY DEF HaveCounters
  <2>1. CASE o = n
    BY <1>1, <1>3, <1>4, <1>5, <1>6, <2>1
  <2>2. CASE o # n
    BY <1>5, <1>6, <2>2 DEF QueuesInv, HaveCounters
  <2>3. QED
    BY <2>1, <2>2
<1>8. ASSUME NEW q \in QueuePairs
      PROVE  CountOf(q[1], q[2])' = CountOf(q[1], q[2])
  <2>1. q[1] \in Nodes /\ q[2] \in Nat
    BY DEF QueuePairs, Keys
  <2>2. CASE q[1] = n
    <3> PICK k \in Nat : k = q[2]
      BY <2>1
    <3>1. (IF k < Len(new) THEN new[k + 1] ELSE 0) = IF k < Len(counts) THEN counts[k + 1] ELSE 0
      <4>0. Len(new) \in Nat /\ Len(counts) \in Nat /\ Len(new) >= Len(counts)
        BY <1>3
      <4> HIDE DEF counts, key
      <4>1. CASE k < Len(counts)
        <5>1. k + 1 \in 1 .. Len(counts) /\ k < Len(new)
          BY <4>0, <4>1
        <5>2. QED
          BY <1>3, <4>1, <5>1
      <4>2. CASE ~ (k < Len(counts)) /\ k < Len(new)
        <5>1. k + 1 \in (Len(counts) + 1) .. Len(new)
          BY <4>0, <4>2
        <5>2. QED
          BY <1>3, <4>2, <5>1
      <4>3. CASE ~ (k < Len(counts)) /\ ~ (k < Len(new))
        BY <4>3
      <4>4. QED
        BY <4>1, <4>2, <4>3
    <3>2. QED
      BY <1>5, <2>2, <3>1 DEF CountOf
  <2>3. CASE q[1] # n
    BY <1>5, <2>1, <2>3 DEF CountOf
  <2>4. QED
    BY <2>2, <2>3
<1>9. QED
  BY <1>5, <1>7, <1>8


(* The first of some numbers is one of them. *)
LEMMA FirstIsOne ==
  ASSUME NEW W \in SUBSET Nat, W # {}
  PROVE  First(W) \in W
<1> DEFINE R == OpToRel(<, Nat)
<1>1. \A x, y \in Nat : x < y => <<x, y>> \in R
  BY DEF OpToRel
<1>2. IsWellFoundedOn(R, Nat)
  BY NatLessThanWellFounded, Zenon
<1> HIDE DEF R
<1>3. PICK w \in W : \A v \in W : ~ (<<v, w>> \in R)
  BY <1>2, WFMin
<1>4. \A v \in W : w <= v
  <2> TAKE v \in W
  <2>1. ~ (v < w)
    BY <1>1, <1>3, Zenon
  <2>2. QED
    BY <2>1
<1>5. QED
  BY <1>3, <1>4 DEF First

(* What a queue pair's sends do when its owner or the card does something  *)
(* else: nothing.                                                          *)
LEMMA OthersStutter ==
  ASSUME NEW q \in QueuePairs,
         CountOf(q[1], q[2])' = CountOf(q[1], q[2]), sends'[q] = sends[q],
         Waiting(q)' = Waiting(q)
  PROVE  UNCHANGED Queue(q)!vars
BY DEF Queue!vars, Queue!queue

(* The parts that a step leaves alone. *)
LEMMA QueuesUnchanged ==
  ASSUME QueuesInv, UNCHANGED <<m_sendMCastCount, waiting, sends>>,
         posts' \in Nat, posts' >= posts,
         \A n \in Nodes : Len(m_udpMcastConns'[n]) = Len(m_udpMcastConns[n])
  PROVE  /\ QueuesInv'
         /\ \A q \in QueuePairs : UNCHANGED Queue(q)!vars
<1>1. QueuesTyped'
  BY DEF QueuesInv, QueuesTyped
<1>2. HaveCounters'
  BY DEF QueuesInv, HaveCounters
<1>3. PostsBounded'
  BY DEF QueuesInv, QueuesTyped, PostsBounded, SendsType
<1>4. ASSUME NEW q \in QueuePairs
      PROVE  UNCHANGED Queue(q)!vars
  BY OthersStutter DEF CountOf, Waiting
<1>5. QED
  BY <1>1, <1>2, <1>3, <1>4 DEF QueuesInv

LEMMA JoinRefines ==
  ASSUME IInv, QueuesInv, NEW n \in Nodes, NEW g \in Groups, Join(n, g)
  PROVE  /\ QueuesInv'
         /\ \A q \in QueuePairs : UNCHANGED Queue(q)!vars
<1>1. /\ m_sendMCastCount' \in [Nodes -> Seq(Int)] /\ HaveCounters'
      /\ \A q \in QueuePairs : CountOf(q[1], q[2])' = CountOf(q[1], q[2])
  BY JoinCounts
<1>2. UNCHANGED <<waiting, sends, posts>>
  BY DEF Join
<1>3. QueuesInv'
  BY <1>1, <1>2 DEF QueuesInv, QueuesTyped, PostsBounded
<1>4. ASSUME NEW q \in QueuePairs
      PROVE  UNCHANGED Queue(q)!vars
  BY <1>1, <1>2, OthersStutter DEF Waiting
<1>5. QED
  BY <1>3, <1>4

(* The card sends the oldest message. *)
LEMMA ExecuteRefines ==
  ASSUME QueuesInv, NEW n \in Nodes, NEW key \in Keys, Execute(n, key)
  PROVE  /\ QueuesInv'
         /\ \A q \in QueuePairs : [Queue(q)!Next]_(Queue(q)!vars)
<1> PICK q : q = <<n, key>>
  OBVIOUS
<1>1. q \in QueuePairs /\ q[1] = n /\ q[2] = key
  BY DEF QueuePairs
<1>2. /\ sends[q].executed < sends[q].posted
      /\ sends' = [sends EXCEPT ![q].executed = @ + 1]
      /\ UNCHANGED <<m_sendMCastCount, m_udpMcastConns, waiting, posts>>
  BY DEF Execute, objects
<1>3. sends[q] \in SendsType
  BY <1>1 DEF QueuesInv, QueuesTyped
<1>4. /\ sends' = [sends EXCEPT ![q] = [sends[q] EXCEPT !.executed = sends[q].executed + 1]]
      /\ sends'[q] = [sends[q] EXCEPT !.executed = sends[q].executed + 1]
      /\ sends' \in [QueuePairs -> SendsType]
  <2> DEFINE s == [sends[q] EXCEPT !.executed = sends[q].executed + 1]
  <2>1. s \in SendsType
    BY <1>3 DEF SendsType
  <2>2. sends' = [sends EXCEPT ![q] = s]
    BY <1>1, <1>2 DEF QueuesInv, QueuesTyped
  <2> HIDE DEF s
  <2>3. sends'[q] = s /\ sends' \in [QueuePairs -> SendsType]
    BY <1>1, <2>1, <2>2 DEF QueuesInv, QueuesTyped
  <2>4. QED
    BY <2>2, <2>3 DEF s
<1>5. /\ sends'[q].executed = sends[q].executed + 1
      /\ sends'[q].posted = sends[q].posted /\ sends'[q].polled = sends[q].polled
      /\ sends'[q].signaledWRs = sends[q].signaledWRs /\ sends'[q].result = sends[q].result
  BY <1>3, <1>4 DEF SendsType
<1>6. \A p \in QueuePairs : p # q => sends'[p] = sends[p]
  BY <1>1, <1>4 DEF QueuesInv, QueuesTyped
<1>7. QueuesInv'
  BY <1>2, <1>4, <1>5, <1>6 DEF QueuesInv, QueuesTyped, HaveCounters, PostsBounded
<1>8. Queue(q)!Execute
  BY <1>1, <1>2, <1>5 DEF Queue!Execute, CountOf, Waiting
<1>9. ASSUME NEW p \in QueuePairs, p # q
      PROVE  UNCHANGED Queue(p)!vars
  BY <1>2, <1>6, <1>9, OthersStutter DEF CountOf, Waiting
<1>10. QED
  BY <1>7, <1>8, <1>9 DEF Queue!Next

(* sendMCast found a completion. *)
LEMMA CompletedRefines ==
  ASSUME QueuesInv, NEW n \in Nodes, Completed(n)
  PROVE  /\ QueuesInv'
         /\ \A q \in QueuePairs : [Queue(q)!Next]_(Queue(q)!vars)
<1> PICK q : q = <<n, waiting[n]>>
  OBVIOUS
<1>1. /\ waiting[n] \in Keys /\ q \in QueuePairs /\ q[1] = n /\ q[2] = waiting[n]
  BY DEF QueuesInv, QueuesTyped, Completed, QueuePairs
<1> DEFINE W == Completions(sends[q])
<1>2. /\ W # {}
      /\ sends' = [sends EXCEPT ![q].polled = First(W), ![q].result = "completed"]
      /\ waiting' = [waiting EXCEPT ![n] = None]
      /\ UNCHANGED <<m_sendMCastCount, m_udpMcastConns, posts>>
  BY DEF Completed, objects
<1>3. sends[q] \in SendsType
  BY <1>1 DEF QueuesInv, QueuesTyped
<1>4. W = {w \in (sends[q].polled + 1) .. sends[q].executed : w \in sends[q].signaledWRs}
  BY DEF Completions
<1>5. W \in SUBSET Nat
  BY <1>3, <1>4 DEF SendsType
<1> HIDE DEF W
<1>6. First(W) \in Nat
  BY <1>2, <1>5, FirstIsOne
<1>7. /\ sends'[q] = [sends[q] EXCEPT !.polled = First(W), !.result = "completed"]
      /\ sends' \in [QueuePairs -> SendsType]
      /\ \A p \in QueuePairs : p # q => sends'[p] = sends[p]
  <2> DEFINE s == [sends[q] EXCEPT !.polled = First(W), !.result = "completed"]
  <2>1. s \in SendsType
    BY <1>3, <1>6 DEF SendsType
  <2>2. sends' = [sends EXCEPT ![q] = s]
    BY <1>1, <1>2 DEF QueuesInv, QueuesTyped
  <2> HIDE DEF s
  <2>3. QED
    BY <1>1, <2>1, <2>2 DEF s, QueuesInv, QueuesTyped
<1>8. /\ sends'[q].polled = First(W) /\ sends'[q].result = "completed"
      /\ sends'[q].posted = sends[q].posted /\ sends'[q].executed = sends[q].executed
      /\ sends'[q].signaledWRs = sends[q].signaledWRs
  BY <1>3, <1>7 DEF SendsType
<1>9. /\ waiting' \in [Nodes -> Keys \cup {None}]
      /\ waiting'[n] = None /\ \A o \in Nodes \ {n} : waiting'[o] = waiting[o]
  BY <1>2 DEF QueuesInv, QueuesTyped
<1>10. QueuesInv'
  <2>1. QueuesTyped' /\ HaveCounters'
    BY <1>2, <1>7, <1>9 DEF QueuesInv, QueuesTyped, HaveCounters
  <2>2. ASSUME NEW p \in QueuePairs
        PROVE  sends'[p].posted <= posts'
    <3>1. sends'[p].posted = sends[p].posted
      BY <1>7, <1>8
    <3>2. QED
      BY <1>2, <3>1 DEF QueuesInv, PostsBounded
  <2>3. QED
    BY <2>1, <2>2 DEF QueuesInv, PostsBounded
<1>11. Queue(q)!Completed
  <2>1. Queue(q)!Completions = W
    BY <1>4 DEF Queue!Completions, Queue!Failed
  <2>2. Queue(q)!First(W) = First(W)
    BY DEF Queue!First, First
  <2>3. Waiting(q) = "operation" /\ Waiting(q)' = "nothing"
    BY <1>1, <1>9 DEF Waiting, None, Keys
  <2>4. ~ Queue(q)!Failed(First(W))
    BY DEF Queue!Failed
  <2>5. CountOf(q[1], q[2])' = CountOf(q[1], q[2])
    BY <1>2 DEF CountOf
  <2>6. Queue(q)!Poll("completed")
    BY <1>2, <1>8, <2>1, <2>2, <2>4 DEF Queue!Poll
  <2>7. QED
    BY <1>8, <2>3, <2>5, <2>6 DEF Queue!Completed
<1>12. ASSUME NEW p \in QueuePairs, p # q
      PROVE  UNCHANGED Queue(p)!vars
  <2>1. p[1] # n \/ p[2] # waiting[n]
    BY <1>1, <1>12 DEF QueuePairs
  <2>2. p[1] \in Nodes /\ p[2] \in Keys
    BY DEF QueuePairs
  <2>3. Waiting(p)' = Waiting(p)
    BY <1>9, <2>1, <2>2 DEF Waiting, None, Keys
  <2>4. QED
    BY <1>2, <1>7, <1>12, <2>3, OthersStutter DEF CountOf
<1>13. QED
  BY <1>10, <1>11, <1>12 DEF Queue!Next

(* Its own counter is that of the key, and no other changes. *)
LEMMA SendCounts ==
  ASSUME QueuesInv, NEW n \in Nodes, NEW key \in Keys, key \in ActiveKeys(n),
         NEW s \in BOOLEAN,
         m_sendMCastCount' = [m_sendMCastCount EXCEPT ![n][key + 1] = IF s THEN 0 ELSE @ + 1]
  PROVE  /\ m_sendMCastCount' \in [Nodes -> Seq(Int)]
         /\ \A o \in Nodes : Len(m_sendMCastCount'[o]) = Len(m_sendMCastCount[o])
         /\ CountOf(n, key)' = IF s THEN 0 ELSE CountOf(n, key) + 1
         /\ \A o \in Nodes, k \in Keys : <<o, k>> # <<n, key>> => CountOf(o, k)' = CountOf(o, k)
<1> DEFINE counts == m_sendMCastCount[n]
           i == key + 1
           c == IF s THEN 0 ELSE counts[i] + 1
           new == [counts EXCEPT ![i] = c]
<1>1. counts \in Seq(Int) /\ Len(counts) \in Nat
  BY DEF QueuesInv, QueuesTyped
<1>2. key \in Nat /\ key < Len(counts) /\ i \in 1 .. Len(counts)
  BY <1>1 DEF QueuesInv, QueuesTyped, HaveCounters, ActiveKeys, Keys
<1>3. m_sendMCastCount' = [m_sendMCastCount EXCEPT ![n] = new]
  BY DEF QueuesInv, QueuesTyped
<1>4. counts[i] \in Int /\ c \in Int
  BY <1>1, <1>2
<1> HIDE DEF c
<1>5. /\ new \in Seq(Int) /\ Len(new) = Len(counts) /\ new[i] = c
      /\ \A j \in 1 .. Len(counts) : j # i => new[j] = counts[j]
  <2> HIDE DEF counts, i
  <2>1. QED
    BY <1>1, <1>2, <1>4
<1> HIDE DEF new
<1>6. /\ m_sendMCastCount' \in [Nodes -> Seq(Int)]
      /\ m_sendMCastCount'[n] = new
      /\ \A o \in Nodes \ {n} : m_sendMCastCount'[o] = m_sendMCastCount[o]
  BY <1>3, <1>5 DEF QueuesInv, QueuesTyped
<1>7. CountOf(n, key)' = c /\ CountOf(n, key) = counts[i]
  BY <1>1, <1>2, <1>5, <1>6 DEF CountOf
<1>8. ASSUME NEW o \in Nodes, NEW k \in Keys, <<o, k>> # <<n, key>>
      PROVE  CountOf(o, k)' = CountOf(o, k)
  <2>1. CASE o # n
    BY <1>6, <2>1 DEF CountOf
  <2>2. CASE o = n
    <3>1. k \in Nat /\ k # key
      BY <1>8, <2>2 DEF Keys
    <3>2. k < Len(counts) => new[k + 1] = counts[k + 1]
      <4> HIDE DEF counts, i
      <4>1. k < Len(counts) => k + 1 \in 1 .. Len(counts) /\ k + 1 # i
        BY <1>1, <1>2, <3>1 DEF i
      <4>2. QED
        BY <1>5, <4>1
    <3>3. QED
      BY <1>5, <1>6, <2>2, <3>1, <3>2 DEF CountOf
  <2>3. QED
    BY <2>1, <2>2
<1>9. \A o \in Nodes : Len(m_sendMCastCount'[o]) = Len(m_sendMCastCount[o])
  BY <1>5, <1>6
<1>10. QED
  BY <1>6, <1>7, <1>8, <1>9 DEF c

(* sendMCast posts as remoteAccess does. *)
LEMMA SendRefines ==
  ASSUME QueuesInv, NEW n \in Nodes, NEW key \in Keys, NEW signaled \in BOOLEAN,
         sendMCast(n, key, signaled)
  PROVE  /\ QueuesInv'
         /\ \A q \in QueuePairs : [Queue(q)!Next]_(Queue(q)!vars)
<1> PICK q : q = <<n, key>>
  OBVIOUS
<1> DEFINE s == checkSignaledMCast(n, key, signaled)
           room == sends[q].posted - sends[q].polled < RDMA_MAX_WR
<1>1. /\ waiting[n] = None /\ key \in ActiveKeys(n)
      /\ posts < MaxPosts /\ posts' = posts + 1
      /\ m_sendMCastCount' = [m_sendMCastCount EXCEPT ![n][key + 1] = IF s THEN 0 ELSE @ + 1]
      /\ UNCHANGED m_udpMcastConns
  BY DEF sendMCast, countedKey, Idle
<1>2. IF room
      THEN /\ sends' = [sends EXCEPT ![q] = Posted(sends[q], s)]
           /\ waiting' = [waiting EXCEPT ![n] = PolledFor(key, s)]
      ELSE /\ sends' = [sends EXCEPT ![q].result = "postFailed"]
           /\ UNCHANGED waiting
  BY DEF sendMCast, countedKey
<1>3. q \in QueuePairs /\ q[1] = n /\ q[2] = key
  BY DEF QueuePairs
<1>4. s \in BOOLEAN /\ (s <=> Queue(q)!checkSignaled(signaled))
  BY <1>3 DEF checkSignaledMCast, Queue!checkSignaled
<1>5. sends[q] \in SendsType /\ posts \in Nat /\ sends[q].posted \in Nat
      /\ sends[q].posted <= posts
  BY <1>3 DEF QueuesInv, QueuesTyped, SendsType, PostsBounded
<1> HIDE DEF s
<1>6. /\ m_sendMCastCount' \in [Nodes -> Seq(Int)]
      /\ \A o \in Nodes : Len(m_sendMCastCount'[o]) = Len(m_sendMCastCount[o])
      /\ CountOf(n, key)' = IF s THEN 0 ELSE CountOf(n, key) + 1
      /\ \A o \in Nodes, k \in Keys : <<o, k>> # <<n, key>> => CountOf(o, k)' = CountOf(o, k)
  BY <1>1, <1>4, SendCounts
<1>7. CountOf(q[1], q[2])' = Queue(q)!CountWR(signaled)
  BY <1>3, <1>4, <1>6 DEF Queue!CountWR
<1> DEFINE wrs == IF s THEN sends[q].signaledWRs \cup {sends[q].posted + 1}
                       ELSE sends[q].signaledWRs
<1>8. /\ sends'[q] \in SendsType
      /\ sends' = [sends EXCEPT ![q] = sends'[q]]
      /\ IF room
         THEN /\ sends'[q].posted = sends[q].posted + 1
              /\ sends'[q].signaledWRs = wrs /\ sends'[q].result = "ok"
         ELSE /\ sends'[q].posted = sends[q].posted
              /\ sends'[q].signaledWRs = sends[q].signaledWRs
              /\ sends'[q].result = "postFailed"
      /\ sends'[q].executed = sends[q].executed /\ sends'[q].polled = sends[q].polled
  <2>1. CASE room
    <3> DEFINE r == Posted(sends[q], s)
    <3>1. r = [posted |-> sends[q].posted + 1, executed |-> sends[q].executed,
               polled |-> sends[q].polled, signaledWRs |-> wrs, result |-> "ok"]
      <4>1. r = [[[sends[q] EXCEPT !.posted = sends[q].posted + 1]
                            EXCEPT !.signaledWRs = wrs] EXCEPT !.result = "ok"]
        BY <1>5 DEF Posted, SendsType
      <4> HIDE DEF wrs, r
      <4>2. QED
        BY <1>5, <4>1 DEF SendsType
    <3>2. wrs \in SUBSET Nat
      BY <1>5 DEF SendsType
    <3>4. sends' = [sends EXCEPT ![q] = r] /\ sends'[q] = r
      BY <1>2, <1>3, <2>1 DEF QueuesInv, QueuesTyped
    <3> HIDE DEF wrs, r
    <3>3. r \in SendsType
      BY <1>5, <3>1, <3>2 DEF SendsType
    <3>5. /\ r.posted = sends[q].posted + 1 /\ r.signaledWRs = wrs /\ r.result = "ok"
          /\ r.executed = sends[q].executed /\ r.polled = sends[q].polled
      BY <3>1
    <3>6. QED
      BY <2>1, <3>3, <3>4, <3>5, Zenon
  <2>2. CASE ~ room
    <3> DEFINE r == [sends[q] EXCEPT !.result = "postFailed"]
    <3>1. r = [posted |-> sends[q].posted, executed |-> sends[q].executed,
               polled |-> sends[q].polled, signaledWRs |-> sends[q].signaledWRs,
               result |-> "postFailed"]
      BY <1>5 DEF SendsType
    <3>2. sends' = [sends EXCEPT ![q] = r] /\ sends'[q] = r
      BY <1>2, <1>3, <2>2 DEF QueuesInv, QueuesTyped
    <3> HIDE DEF wrs, r
    <3>3. r \in SendsType
      BY <1>5, <3>1 DEF SendsType
    <3>4. /\ r.posted = sends[q].posted /\ r.signaledWRs = sends[q].signaledWRs
          /\ r.result = "postFailed"
          /\ r.executed = sends[q].executed /\ r.polled = sends[q].polled
      BY <3>1
    <3>5. QED
      BY <2>2, <3>2, <3>3, <3>4, Zenon
  <2>3. QED
    BY <2>1, <2>2
<1>9. /\ sends' \in [QueuePairs -> SendsType]
      /\ \A p \in QueuePairs : p # q => sends'[p] = sends[p]
  BY <1>3, <1>8 DEF QueuesInv, QueuesTyped
<1>10. /\ waiting' \in [Nodes -> Keys \cup {None}]
       /\ waiting'[n] = IF room /\ s THEN key ELSE None
       /\ \A o \in Nodes \ {n} : waiting'[o] = waiting[o]
  <2> HIDE DEF room
  <2>1. CASE room
    BY <1>2, <1>4, <2>1 DEF PolledFor, QueuesInv, QueuesTyped
  <2>2. CASE ~ room
    BY <1>1, <1>2, <2>2 DEF QueuesInv, QueuesTyped
  <2>3. QED
    BY <2>1, <2>2
<1>11. QueuesInv'
  <2>1. QueuesTyped' /\ HaveCounters'
    BY <1>1, <1>5, <1>6, <1>9, <1>10 DEF QueuesInv, QueuesTyped, HaveCounters
  <2>2. ASSUME NEW p \in QueuePairs
        PROVE  sends'[p].posted <= posts'
    <3>1. CASE p = q
      BY <1>1, <1>5, <1>8, <3>1
    <3>2. CASE p # q
      <4>1. sends'[p].posted = sends[p].posted /\ sends[p].posted \in Nat
            /\ sends[p].posted <= posts
        BY <1>9, <3>2 DEF QueuesInv, QueuesTyped, SendsType, PostsBounded
      <4>2. QED
        BY <1>1, <1>5, <4>1
    <3>3. QED
      BY <3>1, <3>2
  <2>3. QED
    BY <2>1, <2>2 DEF QueuesInv, PostsBounded
<1>12. Queue(q)!operation(signaled)
  <2>1. Waiting(q) = "nothing"
    BY <1>1, <1>3 DEF Waiting, None, Keys
  <2>2. Waiting(q)' = IF room /\ s THEN "operation" ELSE "nothing"
    BY <1>3, <1>10 DEF Waiting, None, Keys
  <2>3. sends[q].posted < MaxPosts
    BY <1>1, <1>5, BoundsAssumption
  <2>4. IF room THEN Waiting(q)' = Queue(q)!PollsFor(signaled, TRUE)
                ELSE Waiting(q)' = Waiting(q)
    BY <1>4, <2>1, <2>2 DEF Queue!PollsFor
  <2>5. wrs = IF Queue(q)!checkSignaled(signaled)
              THEN sends[q].signaledWRs \cup {sends[q].posted + 1} ELSE sends[q].signaledWRs
    BY <1>4
  <2> HIDE DEF wrs
  <2>6. Queue(q)!remoteAccess(signaled, TRUE)
    BY <1>7, <1>8, <2>1, <2>3, <2>4, <2>5 DEF Queue!remoteAccess
  <2>7. QED
    BY <2>6 DEF Queue!operation
<1>13. ASSUME NEW p \in QueuePairs, p # q
       PROVE  UNCHANGED Queue(p)!vars
  <2>1. p[1] \in Nodes /\ p[2] \in Keys /\ p = <<p[1], p[2]>>
    BY DEF QueuePairs
  <2>2. CountOf(p[1], p[2])' = CountOf(p[1], p[2])
    BY <1>6, <1>13, <2>1
  <2>3. Waiting(p)' = Waiting(p)
    <3>1. CASE p[1] # n
      BY <1>10, <2>1, <3>1 DEF Waiting
    <3>2. CASE p[1] = n
      <4>1. p[2] # key
        BY <1>13, <2>1, <3>2
      <4>2. QED
        BY <1>1, <1>10, <2>1, <3>2, <4>1 DEF Waiting, None, Keys
    <3>3. QED
      BY <3>1, <3>2
  <2>4. QED
    BY <1>9, <1>13, <2>2, <2>3, OthersStutter
<1>14. QED
  BY <1>11, <1>12, <1>13 DEF Queue!Next

LEMMA QueuesInitially ==
  Init => QueuesInv /\ \A q \in QueuePairs : Queue(q)!Init
<1> SUFFICES ASSUME Init
             PROVE  QueuesInv /\ \A q \in QueuePairs : Queue(q)!Init
  OBVIOUS
<1>1. EmptyQueue \in SendsType
  BY DEF EmptyQueue, SendsType
<1>2. QueuesInv
  BY <1>1 DEF Init, EmptyQueue, QueuesInv, QueuesTyped, HaveCounters, PostsBounded
<1>3. ASSUME NEW q \in QueuePairs
      PROVE  Queue(q)!Init
  <2>1. q[1] \in Nodes /\ q[2] \in Keys
    BY DEF QueuePairs
  <2>2. CountOf(q[1], q[2]) = 0
    BY <2>1 DEF Init, CountOf, Keys
  <2>3. Waiting(q) = "nothing"
    BY <2>1 DEF Init, Waiting, None, Keys
  <2>4. QED
    BY <2>2, <2>3 DEF Init, EmptyQueue, Queue!Init
<1>4. QED
  BY <1>2, <1>3

(* Joining, leaving, destroying and receiving are nothing to the sends.    *)
LEMMA StepRefines ==
  IInv /\ QueuesInv /\ [Next]_vars =>
    /\ QueuesInv'
    /\ [\A q \in QueuePairs : [Queue(q)!Next]_(Queue(q)!vars)]_vars
<1> DEFINE Refined == QueuesInv' /\ \A q \in QueuePairs : [Queue(q)!Next]_(Queue(q)!vars)
<1> SUFFICES ASSUME IInv, QueuesInv, [Next]_vars
             PROVE  Refined
  OBVIOUS
<1>1. CASE UNCHANGED vars
  <2>1. UNCHANGED <<m_sendMCastCount, waiting, sends, posts, m_udpMcastConns>>
    BY <1>1 DEF vars, objects
  <2>2. posts' \in Nat /\ posts' >= posts
    BY <2>1 DEF QueuesInv, QueuesTyped
  <2>3. QED
    BY <2>1, <2>2, QueuesUnchanged
<1>2. ASSUME NEW n \in Nodes, NEW g \in Groups, Join(n, g)
      PROVE  Refined
  BY <1>2, JoinRefines
<1>3. ASSUME NEW n \in Nodes,
             \/ \E g \in Groups : JoinFails(n, g)
             \/ DestroyFails(n)
      PROVE  Refined
  <2>1. UNCHANGED <<m_sendMCastCount, waiting, sends, posts, m_udpMcastConns>>
    BY <1>3 DEF JoinFails, DestroyFails
  <2>2. posts' \in Nat /\ posts' >= posts
    BY <2>1 DEF QueuesInv, QueuesTyped
  <2>3. QED
    BY <2>1, <2>2, QueuesUnchanged
<1>4. ASSUME NEW n \in Nodes, Destroy(n) \/ \E key \in Keys : leaveMCastGroup(n, key)
      PROVE  Refined
  <2>1. UNCHANGED <<m_sendMCastCount, waiting, sends, posts>>
    BY <1>4 DEF leaveMCastGroup, Destroy
  <2>2. PICK leaving \in SUBSET ActiveKeys(n) : Leaves(n, leaving)
    BY <1>4 DEF leaveMCastGroup, Destroy, LeftByDestructor
  <2>3. \A o \in Nodes : Len(m_udpMcastConns'[o]) = Len(m_udpMcastConns[o])
    BY <2>2, LeavesFacts DEF IInv
  <2>4. posts' \in Nat /\ posts' >= posts
    BY <2>1 DEF QueuesInv, QueuesTyped
  <2>5. QED
    BY <2>1, <2>3, <2>4, QueuesUnchanged
<1>5. ASSUME NEW n \in Nodes, NEW key \in Keys,
             receiveMCast(n, key) \/ pollReceiveMCast(n, key)
      PROVE  Refined
  <2>1. UNCHANGED <<m_sendMCastCount, waiting, sends, m_udpMcastConns>>
    BY <1>5 DEF receiveMCast, pollReceiveMCast, objects
  <2>2. posts' \in {posts, posts + 1}
    BY <1>5 DEF receiveMCast, pollReceiveMCast
  <2>3. posts' \in Nat /\ posts' >= posts
    BY <2>2 DEF QueuesInv, QueuesTyped
  <2>4. QED
    BY <2>1, <2>3, QueuesUnchanged
<1>6. ASSUME NEW n \in Nodes, Completed(n)
      PROVE  Refined
  BY <1>6, CompletedRefines
<1>7. ASSUME NEW n \in Nodes, NEW key \in Keys, NEW signaled \in BOOLEAN,
             sendMCast(n, key, signaled)
      PROVE  Refined
  BY <1>7, SendRefines
<1>8. ASSUME NEW n \in Nodes, NEW key \in Keys, Execute(n, key)
      PROVE  Refined
  BY <1>8, ExecuteRefines
<1> HIDE DEF Refined
<1>9. QED
  BY <1>1, <1>2, <1>3, <1>4, <1>5, <1>6, <1>7, <1>8 DEF Next

(* The sends of every group implement SendQueue, for any number of nodes   *)
(* and groups and whatever is sent to the others in between, joined, left  *)
(* or destroyed (SendsImplementSendQueue).                                 *)
THEOREM ImplementsSendQueue == Spec => SendsImplementSendQueue
<1>1. Init => IInv /\ QueuesInv /\ \A q \in QueuePairs : Queue(q)!Init
  BY Initially, QueuesInitially
<1>2. IInv /\ QueuesInv /\ [Next]_vars =>
        /\ IInv' /\ QueuesInv'
        /\ [\A q \in QueuePairs : [Queue(q)!Next]_(Queue(q)!vars)]_vars
  BY Step, StepRefines
<1>3. QED
  BY <1>1, <1>2, PTL DEF Spec, SendsImplementSendQueue
=============================================================================
