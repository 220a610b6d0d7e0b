----------------------- MODULE BandwidthPerfTest_proofs ----------------------
(***************************************************************************)
(* Proofs about the flow control of the bandwidth test, for any number of  *)
(* clients and servers, any window and any number of messages.             *)
(***************************************************************************)
EXTENDS BandwidthPerfTest, FiniteSetTheorems, TLAPS

(* Where a client is: before the first barrier has let it go, in its loop, *)
(* and after that.                                                         *)
Early(c)   == pc[c] \in {"enter", "ping", "pong", "ready"}
Looping(c) == pc[c] \in {"next", "send", "poll"}
Ending(c)  == pc[c] \in {"enterEnd", "pingEnd", "pongEnd", "done"}

(* The client has sent the message of the first barrier, of the last one. *)
Pinged(q) ==
  \/ pc[q[1]] = "ping" /\ q[2] < connIdx[q[1]]
  \/ pc[q[1]] \in {"pong", "ready"}
PingedEnd(q) ==
  \/ pc[q[1]] = "pingEnd" /\ q[2] < connIdx[q[1]]
  \/ pc[q[1]] \in {"pongEnd", "done"}

SentNow(q) == IF q[2] = connIdx[q[1]] /\ pc[q[1]] = "send" THEN sent[q[1]] ELSE 0
Reposting(q) == IF serverPc[q] = "repost" THEN 1 ELSE 0
OnItsWay(q) == IF ack[q] = None THEN 0 ELSE ack[q]

(* Numbers are numbers. *)
ClientShape ==
  /\ pc \in [Clients -> {"enter", "ping", "pong", "ready", "next", "send", "poll",
                         "enterEnd", "pingEnd", "pongEnd", "done"}]
  /\ connIdx \in [Clients -> Servers]
  /\ sent \in [Clients -> Int]
  /\ ackMsgCounter \in [Clients -> Int]
  /\ workingConnections \in [Clients -> Int]
CountsShape ==
  /\ totalBudgets \in [Connections -> Int]
  /\ pendingMessages \in [Connections -> Int]
  /\ ackMsgCounters \in [Connections -> Int]
ServerShape ==
  /\ serverPc \in [Connections -> {"ready", "post", "poll", "repost", "answer",
                                   "acking", "ended"}]
  /\ totalBudget \in [Connections -> Int]
  /\ budgetR \in [Connections -> Int]
  /\ ackCounter \in [Connections -> Int]
  /\ mainPc \in [Servers -> {"prepare", "barrier", "join", "endBarrier", "done"}]
ConnectionShape ==
  /\ inFlight \in [Connections -> Int]
  /\ ack \in [Connections -> Int]
  /\ recvAtServer \in [Connections -> Int]
  /\ doneAtServer \in [Connections -> Int]
  /\ recvAtClient \in [Connections -> Int]
  /\ doneAtClient \in [Connections -> Seq(Int)]
  /\ fault \in {"none", "postFailed", "messageRefused", "ackRefused"}
Shape == ClientShape /\ CountsShape /\ ServerShape /\ ConnectionShape

(* Nothing but the barrier has happened on the connection. *)
NotBegun(q) ==
  /\ totalBudgets[q] = IterationsPerThread /\ pendingMessages[q] = 0
  /\ ackMsgCounters[q] = 0
  /\ inFlight[q] = 0 /\ ack[q] = None /\ ackCounter[q] = 0
  /\ mainPc[q[2]] \in {"prepare", "barrier", "join"}
  /\ mainPc[q[2]] # "join" =>
       /\ serverPc[q] = "ready" /\ pc[q[1]] # "ready"
       /\ doneAtClient[q] = <<>>
       /\ recvAtClient[q] = IF pc[q[1]] = "enter" THEN 0 ELSE 1
  /\ mainPc[q[2]] = "prepare" =>
       ~ Pinged(q) /\ recvAtServer[q] = 0 /\ doneAtServer[q] = 0
  /\ mainPc[q[2]] = "barrier" =>
       /\ recvAtServer[q] = IF Pinged(q) THEN 0 ELSE 1
       /\ doneAtServer[q] = IF Pinged(q) THEN 1 ELSE 0
  /\ mainPc[q[2]] = "join" =>
       /\ Pinged(q) /\ serverPc[q] \in {"post", "poll"}
       /\ recvAtServer[q] = budgetR[q] /\ doneAtServer[q] = 0
       /\ recvAtClient[q] = 0
       /\ doneAtClient[q] = IF pc[q[1]] = "ready" THEN <<>> ELSE <<Pong>>
  /\ serverPc[q] \in {"ready", "post"} =>
       totalBudget[q] = IterationsPerThread /\ budgetR[q] = 0
  /\ serverPc[q] = "poll" =>
       /\ budgetR[q] = AtMost(IterationsPerThread, RDMA_MAX_WR)
       /\ totalBudget[q] = IterationsPerThread - budgetR[q]

(* What the client counts as unacknowledged is somewhere. *)
Credits(q) ==
  pendingMessages[q] + SentNow(q) =
    inFlight[q] + doneAtServer[q] + Reposting(q) + ackCounter[q] + OnItsWay(q) + Acked(q)

(* What the server expects is under way or not sent yet. *)
MessagesCounted(q) ==
  totalBudget[q] + budgetR[q] + SentNow(q) =
    totalBudgets[q] + inFlight[q] + doneAtServer[q]

(* The server has posted what it has counted, and the receive for the last *)
(* barrier.                                                                *)
ReceivesCounted(q) ==
  recvAtServer[q] + doneAtServer[q] =
    budgetR[q] + (IF serverPc[q] \in {"acking", "ended"} /\ PreparesBarrier(q) THEN 1 ELSE 0)

(* It has posted a window, or all that is left. *)
WindowPosted(q) ==
  /\ budgetR[q] >= 0 /\ budgetR[q] + Reposting(q) <= RDMA_MAX_WR
  /\ totalBudget[q] > 0 => budgetR[q] + Reposting(q) = RDMA_MAX_WR

ServerSteps(q) ==
  /\ serverPc[q] \in {"poll", "repost", "answer", "acking", "ended"}
  /\ serverPc[q] # "acking" => ack[q] = None
  /\ serverPc[q] = "poll" => ~ LastMessage(q)
  /\ serverPc[q] \in {"poll", "repost"} => ackCounter[q] \in 0 .. ackMsgPacking - 1
  /\ serverPc[q] = "answer" => ackCounter[q] \in 1 .. ackMsgPacking
  /\ serverPc[q] = "acking" => ack[q] \in 1 .. ackMsgPacking /\ ackCounter[q] = 0
  /\ serverPc[q] = "ended" => LastMessage(q) /\ ackCounter[q] = 0
  /\ mainPc[q[2]] \in {"join", "endBarrier", "done"}
  /\ mainPc[q[2]] # "join" => serverPc[q] = "ended"
  /\ mainPc[q[2]] = "done" => ~ (client_count > 1)

InRange(q) ==
  /\ totalBudgets[q] \in 0 .. IterationsPerThread
  /\ totalBudget[q] \in 0 .. IterationsPerThread
  /\ pendingMessages[q] >= 0
  /\ pendingMessages[q] + SentNow(q) <= RDMA_MAX_WR
  /\ SentNow(q) <= totalBudgets[q]
  /\ inFlight[q] >= 0 /\ doneAtServer[q] >= 0 /\ recvAtServer[q] >= 0

(* An acknowledgement stands for something. *)
AcksInRange(q) == \A i \in DOMAIN doneAtClient[q] : doneAtClient[q][i] \in 1 .. ackMsgPacking

UnderWay(q) ==
  /\ Credits(q) /\ MessagesCounted(q) /\ ReceivesCounted(q) /\ WindowPosted(q)
  /\ ServerSteps(q) /\ InRange(q) /\ AcksInRange(q)

(* All is acknowledged; what is left is the last barrier. *)
Ended(q) ==
  /\ totalBudgets[q] = 0 /\ pendingMessages[q] = 0
  /\ inFlight[q] = 0 /\ ack[q] = None /\ ackCounter[q] = 0
  /\ serverPc[q] = "ended" /\ LastMessage(q)
  /\ mainPc[q[2]] \in {"join", "endBarrier", "done"}
  /\ pc[q[1]] # "done" => client_count > 1
  /\ IF client_count > 1
     THEN /\ recvAtServer[q] = IF PingedEnd(q) THEN 0 ELSE 1
          /\ mainPc[q[2]] = "done" => PingedEnd(q) /\ doneAtServer[q] = 0
          /\ mainPc[q[2]] # "done" =>
               /\ doneAtServer[q] = IF PingedEnd(q) THEN 1 ELSE 0
               /\ pc[q[1]] # "enterEnd" => pc[q[1]] # "done" /\ recvAtClient[q] > 0
          /\ doneAtClient[q] =
               IF mainPc[q[2]] = "done" /\ pc[q[1]] # "done" THEN <<Pong>> ELSE <<>>
     ELSE recvAtServer[q] = 0 /\ doneAtServer[q] = 0 /\ doneAtClient[q] = <<>>

Connected(q) ==
  /\ Early(q[1]) => NotBegun(q)
  /\ Looping(q[1]) => UnderWay(q)
  /\ Ending(q[1]) => Ended(q)
  /\ recvAtClient[q] >= 0 /\ recvAtClient[q] + Len(doneAtClient[q]) <= RDMA_MAX_WR
  /\ ackMsgCounters[q] \in 0 .. ackMsgPacking - 1

(* The connections a client is not done with, and the one it is at. *)
Open(c) ==
  {s \in Servers : ~ DoneWith(<<c, s>>) \/ (pc[c] = "poll" /\ connIdx[c] = s)}

InLoop(c) ==
  /\ pc[c] # "send" => sent[c] = 0
  /\ pc[c] = "send" =>
       /\ sent[c] \in 0 .. sendBudget(<<c, connIdx[c]>>)
       /\ ~ DoneWith(<<c, connIdx[c]>>)
  /\ ackMsgCounter[c] \in 0 .. ackMsgPacking - 1
  /\ workingConnections[c] = Cardinality(Open(c))

IInv ==
  /\ Shape
  /\ \A c \in Clients : InLoop(c)
  /\ \A q \in Connections : Connected(q)
  /\ \A s \in Servers : mainPc[s] = "endBarrier" => client_count > 1

-----------------------------------------------------------------------------
(* How many messages acknowledgements stand for. *)

LEMMA Packing ==
  /\ RDMA_MAX_WR \in Nat /\ RDMA_MAX_WR >= 1
  /\ ackMsgPacking \in Nat /\ 1 <= ackMsgPacking /\ ackMsgPacking <= RDMA_MAX_WR
<1>1. RDMA_MAX_WR \in Nat /\ RDMA_MAX_WR >= 1
  BY LimitAssumption
<1>2. PICK half : half = RDMA_MAX_WR \div 2
  OBVIOUS
<1>3. half \in Int /\ 2 * half <= RDMA_MAX_WR /\ half >= 0
  BY <1>1, <1>2
<1>4. ackMsgPacking = IF half < 1 THEN 1 ELSE half
  BY <1>2 DEF ackMsgPacking
<1>5. QED
  BY <1>1, <1>3, <1>4

LEMMA Intervals ==
  ASSUME NEW n \in Int
  PROVE  /\ IsFiniteSet(1 .. n)
         /\ n >= 0 => Cardinality(1 .. n) = n
BY FS_Interval

(* The messages of one value. *)
LEMMA Row ==
  ASSUME NEW i, NEW n \in Int
  PROVE  /\ IsFiniteSet({i} \X (1 .. n))
         /\ n >= 0 => Cardinality({i} \X (1 .. n)) = n
<1> DEFINE f == [k \in 1 .. n |-> <<i, k>>]
<1>1. f \in Bijection(1 .. n, {i} \X (1 .. n))
  <2>1. f \in [1 .. n -> {i} \X (1 .. n)]
    OBVIOUS
  <2>2. \A a, b \in 1 .. n : f[a] = f[b] => a = b
    OBVIOUS
  <2>3. \A t \in {i} \X (1 .. n) : \E k \in 1 .. n : f[k] = t
    OBVIOUS
  <2>4. QED
    BY <2>1, <2>2, <2>3 DEF Bijection, Injection, Surjection, IsInjective
<1>2. IsFiniteSet(1 .. n)
  BY Intervals
<1> HIDE DEF f
<1>3. IsFiniteSet({i} \X (1 .. n)) /\ Cardinality(1 .. n) = Cardinality({i} \X (1 .. n))
  BY <1>1, <1>2, FS_Bijection DEF ExistsBijection
<1>4. QED
  BY <1>3, Intervals

LEMMA Members ==
  ASSUME NEW s \in Seq(Int)
  PROVE  \A m : m \in Messages(s) <=> \E i \in 1 .. Len(s) : \E k \in 1 .. s[i] : m = <<i, k>>
<1>1. DOMAIN s = 1 .. Len(s)
  OBVIOUS
<1>2. ASSUME NEW m, m \in Messages(s)
      PROVE  \E i \in 1 .. Len(s) : \E k \in 1 .. s[i] : m = <<i, k>>
  <2>1. PICK i \in 1 .. Len(s) : m \in {i} \X (1 .. s[i])
    BY <1>1, <1>2 DEF Messages
  <2>2. \E k \in 1 .. s[i] : m = <<i, k>>
    BY <2>1
  <2>3. QED
    BY <2>2
<1>3. ASSUME NEW i \in 1 .. Len(s), NEW k \in 1 .. s[i]
      PROVE  <<i, k>> \in Messages(s)
  <2>1. <<i, k>> \in {i} \X (1 .. s[i])
    OBVIOUS
  <2>2. QED
    BY <1>1, <2>1 DEF Messages
<1>4. QED
  BY <1>2, <1>3

LEMMA MessagesFinite ==
  ASSUME NEW s \in Seq(Int)
  PROVE  IsFiniteSet(Messages(s)) /\ Cardinality(Messages(s)) \in Nat
<1> DEFINE rows == {{i} \X (1 .. s[i]) : i \in 1 .. Len(s)}
           row  == [i \in 1 .. Len(s) |-> {i} \X (1 .. s[i])]
<1>1. IsFiniteSet(rows)
  <2>1. row \in Surjection(1 .. Len(s), rows)
    BY DEF Surjection
  <2>2. IsFiniteSet(1 .. Len(s))
    BY Intervals
  <2> HIDE DEF row, rows
  <2>3. QED
    BY <2>1, <2>2, FS_Surjection
<1>2. ASSUME NEW r \in rows PROVE IsFiniteSet(r)
  <2>1. PICK i \in 1 .. Len(s) : r = {i} \X (1 .. s[i])
    OBVIOUS
  <2>2. s[i] \in Int
    OBVIOUS
  <2>3. QED
    BY <2>1, <2>2, Row
<1>3. Messages(s) = UNION rows
  BY DEF Messages
<1> HIDE DEF rows
<1>4. QED
  BY <1>1, <1>2, <1>3, FS_UNION, FS_CardinalityType

LEMMA NoMessages == Cardinality(Messages(<<>>)) = 0
<1>1. Messages(<<>>) = {}
  BY DEF Messages
<1>2. QED
  BY <1>1, FS_EmptySet

(* One more value stands for its messages. *)
LEMMA MessagesAppend ==
  ASSUME NEW s \in Seq(Int), NEW n \in Nat
  PROVE  Cardinality(Messages(Append(s, n))) = Cardinality(Messages(s)) + n
<1> DEFINE t == Append(s, n)
           last == Len(s) + 1
           new == {last} \X (1 .. n)
<1>1. /\ t \in Seq(Int) /\ Len(t) = last /\ t[last] = n
      /\ \A i \in 1 .. Len(s) : t[i] = s[i]
      /\ Len(s) \in Nat
  OBVIOUS
<1> HIDE DEF t
<1>2. DOMAIN t = DOMAIN s \cup {last} /\ DOMAIN s = 1 .. Len(s)
  <2>1. DOMAIN t = 1 .. last /\ DOMAIN s = 1 .. Len(s)
    BY <1>1
  <2>2. 1 .. last = 1 .. Len(s) \cup {last}
    BY <1>1
  <2>3. QED
    BY <2>1, <2>2
<1>3. Messages(t) = Messages(s) \cup new
  BY <1>1, <1>2 DEF Messages
<1>4. Messages(s) \cap new = {}
  BY <1>1, <1>2 DEF Messages
<1>5. IsFiniteSet(new) /\ Cardinality(new) = n
  <2>1. n \in Int /\ n >= 0
    OBVIOUS
  <2> HIDE DEF last
  <2>2. QED
    BY <2>1, Row
<1> HIDE DEF new
<1>6. Cardinality(Messages(s) \cup new) = Cardinality(Messages(s)) + Cardinality(new) - Cardinality(Messages(s) \cap new)
  BY <1>5, MessagesFinite, FS_Union
<1>7. Cardinality(Messages(s) \cap new) = 0 /\ Cardinality(Messages(s)) \in Nat
  BY <1>4, MessagesFinite, FS_EmptySet
<1>8. Cardinality(Messages(t)) = Cardinality(Messages(s)) + n
  BY <1>3, <1>5, <1>6, <1>7
<1>9. QED
  BY <1>8 DEF t

(* Without the first value, the rest stand for theirs. *)
LEMMA MessagesTail ==
  ASSUME NEW s \in Seq(Int), s # <<>>, s[1] \in Nat
  PROVE  Cardinality(Messages(s)) = s[1] + Cardinality(Messages(Tail(s)))
<1> DEFINE t == Tail(s)
           first == {1} \X (1 .. s[1])
           rest == Messages(s) \ first
           f == [m \in Messages(t) |-> <<m[1] + 1, m[2]>>]
<1>1. /\ t \in Seq(Int) /\ Len(s) \in Nat /\ Len(s) > 0 /\ Len(t) = Len(s) - 1
      /\ \A i \in 1 .. Len(t) : t[i] = s[i + 1]
      /\ DOMAIN t = 1 .. Len(t) /\ DOMAIN s = 1 .. Len(s)
  OBVIOUS
<1> HIDE DEF t
<1>2. first \subseteq Messages(s)
  BY <1>1 DEF Messages
<1>3. IsFiniteSet(first) /\ Cardinality(first) = s[1]
  <2>1. s[1] \in Int /\ s[1] >= 0
    OBVIOUS
  <2>2. PICK i : i = 1
    OBVIOUS
  <2>3. IsFiniteSet({i} \X (1 .. s[1])) /\ Cardinality({i} \X (1 .. s[1])) = s[1]
    BY <2>1, Row
  <2>4. QED
    BY <2>2, <2>3
<1>4. \A m : m \in rest <=> \E i \in 2 .. Len(s) : \E k \in 1 .. s[i] : m = <<i, k>>
  <2>1. \A m : m \in Messages(s) <=> \E i \in 1 .. Len(s) : \E k \in 1 .. s[i] : m = <<i, k>>
    BY Members
  <2>2. \A m : m \in first <=> \E k \in 1 .. s[1] : m = <<1, k>>
    OBVIOUS
  <2> HIDE DEF first
  <2>3. ASSUME NEW m, m \in rest
        PROVE  \E i \in 2 .. Len(s) : \E k \in 1 .. s[i] : m = <<i, k>>
    <3>1. PICK i \in 1 .. Len(s) : \E k \in 1 .. s[i] : m = <<i, k>>
      BY <2>1, <2>3
    <3>2. i # 1
      BY <2>2, <2>3, <3>1
    <3>3. i \in 2 .. Len(s)
      BY <1>1, <3>2
    <3>4. QED
      BY <3>1, <3>3
  <2>4. ASSUME NEW m, NEW i \in 2 .. Len(s), NEW k \in 1 .. s[i], m = <<i, k>>
        PROVE  m \in rest
    <3>1. i \in 1 .. Len(s) /\ i # 1
      BY <1>1
    <3>2. m \in Messages(s)
      BY <2>1, <2>4, <3>1
    <3>3. m \notin first
      BY <2>2, <2>4, <3>1
    <3>4. QED
      BY <3>2, <3>3
  <2>5. QED
    BY <2>3, <2>4
<1>5. \A m : m \in Messages(t) <=> \E i \in 1 .. Len(t) : \E k \in 1 .. t[i] : m = <<i, k>>
  BY <1>1, Members
<1>6. f \in Bijection(Messages(t), rest)
  <2> HIDE DEF rest
  <2>1. ASSUME NEW m \in Messages(t)
        PROVE  f[m] \in rest
    <3>1. PICK i \in 1 .. Len(t) : \E k \in 1 .. t[i] : m = <<i, k>>
      BY <1>5
    <3>2. PICK k \in 1 .. t[i] : m = <<i, k>>
      BY <3>1
    <3>3. f[m] = <<i + 1, k>> /\ i + 1 \in 2 .. Len(s) /\ t[i] = s[i + 1]
      BY <1>1, <3>2
    <3>4. QED
      BY <1>4, <3>3
  <2>2. ASSUME NEW a \in Messages(t), NEW b \in Messages(t), f[a] = f[b]
        PROVE  a = b
    <3>1. PICK i \in 1 .. Len(t) : \E k \in 1 .. t[i] : a = <<i, k>>
      BY <1>5
    <3>2. PICK j \in 1 .. Len(t) : \E k \in 1 .. t[j] : b = <<j, k>>
      BY <1>5
    <3>3. QED
      BY <1>1, <2>2, <3>1, <3>2
  <2>3. ASSUME NEW m \in rest
        PROVE  \E a \in Messages(t) : f[a] = m
    <3>1. PICK i \in 2 .. Len(s) : \E k \in 1 .. s[i] : m = <<i, k>>
      BY <1>4
    <3>2. i - 1 \in 1 .. Len(t) /\ (i - 1) + 1 = i
      BY <1>1
    <3>3. t[i - 1] = s[i]
      BY <1>1, <3>2
    <3>4. PICK k \in 1 .. s[i] : m = <<i, k>>
      BY <3>1
    <3>5. <<i - 1, k>> \in Messages(t)
      BY <1>5, <3>2, <3>3
    <3>6. f[<<i - 1, k>>] = m
      BY <3>2, <3>4, <3>5
    <3>7. QED
      BY <3>5, <3>6
  <2>4. f \in [Messages(t) -> rest]
    BY <2>1
  <2> HIDE DEF f
  <2>5. QED
    BY <2>2, <2>3, <2>4 DEF Bijection, Injection, Surjection, IsInjective
<1> HIDE DEF f, first
<1>7. IsFiniteSet(Messages(t))
  BY <1>1, MessagesFinite
<1>8. IsFiniteSet(rest) /\ Cardinality(rest) = Cardinality(Messages(t))
  <2> HIDE DEF rest
  <2>1. QED
    BY <1>6, <1>7, FS_Bijection DEF ExistsBijection
<1>9. Messages(s) = first \cup rest /\ first \cap rest = {}
  BY <1>2
<1> HIDE DEF rest
<1>10. Cardinality(first \cup rest) = Cardinality(first) + Cardinality(rest) - Cardinality(first \cap rest)
  BY <1>3, <1>8, FS_Union
<1>11. Cardinality(Messages(t)) \in Nat
  BY <1>1, MessagesFinite
<1>12. Cardinality(first \cap rest) = 0
  BY <1>9, FS_EmptySet
<1>13. Cardinality(Messages(s)) = s[1] + Cardinality(Messages(t))
  BY <1>3, <1>8, <1>9, <1>10, <1>11, <1>12
<1>14. QED
  BY <1>13 DEF t

(* What holds of every value of a sequence. *)
LEMMA AllAppended ==
  ASSUME NEW s \in Seq(Int), NEW n \in Int, NEW S, n \in S, \A i \in DOMAIN s : s[i] \in S
  PROVE  \A i \in DOMAIN Append(s, n) : Append(s, n)[i] \in S
OBVIOUS

LEMMA AllButFirst ==
  ASSUME NEW s \in Seq(Int), NEW S, s # <<>>, \A i \in DOMAIN s : s[i] \in S
  PROVE  \A i \in DOMAIN Tail(s) : Tail(s)[i] \in S
OBVIOUS

(* Acknowledgements stand for something. *)
LEMMA NothingAcked ==
  ASSUME NEW s \in Seq(Int), \A i \in DOMAIN s : s[i] >= 1, Cardinality(Messages(s)) = 0
  PROVE  s = <<>>
<1>1. SUFFICES ASSUME s # <<>> PROVE FALSE
  OBVIOUS
<1>2. 1 \in DOMAIN s /\ s[1] \in Int
  BY <1>1
<1>3. <<1, 1>> \in Messages(s)
  BY <1>2 DEF Messages
<1>4. Messages(s) = {}
  BY MessagesFinite, FS_EmptySet
<1>5. QED
  BY <1>3, <1>4

-----------------------------------------------------------------------------
(* What a step leaves alone. *)

LEMMA Pairs ==
  /\ \A q \in Connections : q[1] \in Clients /\ q[2] \in Servers /\ q = <<q[1], q[2]>>
  /\ \A c \in Clients, s \in Servers : <<c, s>> \in Connections
BY DEF Connections

SameAt(q) ==
  /\ pc'[q[1]] = pc[q[1]] /\ connIdx'[q[1]] = connIdx[q[1]] /\ sent'[q[1]] = sent[q[1]]
  /\ totalBudgets'[q] = totalBudgets[q] /\ pendingMessages'[q] = pendingMessages[q]
  /\ ackMsgCounters'[q] = ackMsgCounters[q]
  /\ serverPc'[q] = serverPc[q] /\ totalBudget'[q] = totalBudget[q]
  /\ budgetR'[q] = budgetR[q] /\ ackCounter'[q] = ackCounter[q]
  /\ mainPc'[q[2]] = mainPc[q[2]]
  /\ inFlight'[q] = inFlight[q] /\ ack'[q] = ack[q]
  /\ recvAtServer'[q] = recvAtServer[q] /\ doneAtServer'[q] = doneAtServer[q]
  /\ recvAtClient'[q] = recvAtClient[q] /\ doneAtClient'[q] = doneAtClient[q]

LEMMA SameStays ==
  ASSUME NEW q \in Connections, SameAt(q), Connected(q)
  PROVE  Connected(q)'
<1>1. /\ Early(q[1])' <=> Early(q[1])
      /\ Looping(q[1])' <=> Looping(q[1])
      /\ Ending(q[1])' <=> Ending(q[1])
      /\ Pinged(q)' <=> Pinged(q)
      /\ PingedEnd(q)' <=> PingedEnd(q)
  BY DEF SameAt, Early, Looping, Ending, Pinged, PingedEnd
<1>2. NotBegun(q) => NotBegun(q)'
  BY <1>1 DEF SameAt, NotBegun
<1>3. UnderWay(q) => UnderWay(q)'
  BY DEF SameAt, UnderWay, Credits, MessagesCounted, ReceivesCounted, WindowPosted, ServerSteps,
         InRange, AcksInRange, SentNow, Reposting, OnItsWay, Acked, PreparesBarrier, LastMessage
<1>4. Ended(q) => Ended(q)'
  BY <1>1 DEF SameAt, Ended, LastMessage
<1>5. QED
  BY <1>1, <1>2, <1>3, <1>4 DEF Connected, SameAt

(* What is known of a connection. *)
Typed(q) ==
  /\ connIdx[q[1]] \in Int /\ sent[q[1]] \in Int
  /\ totalBudgets[q] \in Int /\ pendingMessages[q] \in Int
  /\ totalBudget[q] \in Int /\ budgetR[q] \in Int /\ ackCounter[q] \in Int
  /\ inFlight[q] \in Int /\ ack[q] \in Int
  /\ recvAtServer[q] \in Int /\ doneAtServer[q] \in Int /\ recvAtClient[q] \in Int
  /\ SentNow(q) \in Int /\ Acked(q) \in Nat
  /\ Reposting(q) \in Int /\ OnItsWay(q) \in Int
  /\ RDMA_MAX_WR \in Int /\ IterationsPerThread \in Int

LEMMA Numbers ==
  ASSUME IInv, NEW q \in Connections
  PROVE  Typed(q)
<1>1. q[1] \in Clients
  BY Pairs
<1>2. connIdx[q[1]] \in Int /\ sent[q[1]] \in Int
  BY <1>1 DEF IInv, Shape, ClientShape, Servers
<1>3. totalBudgets[q] \in Int /\ pendingMessages[q] \in Int
  BY DEF IInv, Shape, CountsShape
<1>4. totalBudget[q] \in Int /\ budgetR[q] \in Int /\ ackCounter[q] \in Int
  BY DEF IInv, Shape, ServerShape
<1>5. /\ inFlight[q] \in Int /\ ack[q] \in Int
      /\ recvAtServer[q] \in Int /\ doneAtServer[q] \in Int
      /\ recvAtClient[q] \in Int /\ doneAtClient[q] \in Seq(Int)
  BY DEF IInv, Shape, ConnectionShape
<1>6. SentNow(q) \in Int
  BY <1>2 DEF SentNow
<1>7. Acked(q) \in Nat
  BY <1>5, MessagesFinite DEF Acked
<1>8. Reposting(q) \in Int /\ OnItsWay(q) \in Int
  BY <1>5 DEF Reposting, OnItsWay
<1>9. RDMA_MAX_WR \in Int /\ IterationsPerThread \in Int
  BY LimitAssumption, IterationsAssumption
<1>10. QED
  BY <1>2, <1>3, <1>4, <1>5, <1>6, <1>7, <1>8, <1>9 DEF Typed

LEMMA Known ==
  ASSUME IInv, NEW q \in Connections
  PROVE  /\ Connected(q)
         /\ \/ Early(q[1]) /\ NotBegun(q)
            \/ Looping(q[1]) /\ UnderWay(q)
            \/ Ending(q[1]) /\ Ended(q)
<1>1. q[1] \in Clients
  BY Pairs
<1>2. Early(q[1]) \/ Looping(q[1]) \/ Ending(q[1])
  BY <1>1 DEF IInv, Shape, ClientShape, Early, Looping, Ending
<1>3. QED
  BY <1>2 DEF IInv, Connected

(* A step of a server's thread or of the network. *)
ClientsSame == UNCHANGED <<pc, round, counts>>

LEMMA LoopsStay ==
  ASSUME ClientsSame, NEW c \in Clients, InLoop(c)
  PROVE  InLoop(c)'
BY DEF ClientsSame, round, counts, InLoop, Open, DoneWith, sendBudget

SameServer(p) ==
  /\ serverPc'[p] = serverPc[p] /\ totalBudget'[p] = totalBudget[p]
  /\ budgetR'[p] = budgetR[p] /\ ackCounter'[p] = ackCounter[p]
SameWire(p) ==
  /\ inFlight'[p] = inFlight[p] /\ ack'[p] = ack[p]
  /\ recvAtServer'[p] = recvAtServer[p] /\ doneAtServer'[p] = doneAtServer[p]
  /\ recvAtClient'[p] = recvAtClient[p] /\ doneAtClient'[p] = doneAtClient[p]

LEMMA OneConnection ==
  ASSUME IInv, ServerShape', ConnectionShape', ClientsSame, UNCHANGED mainPc,
         NEW q \in Connections, Connected(q)',
         \A p \in Connections : p # q => SameServer(p) /\ SameWire(p)
  PROVE  IInv'
<1>1. \A c \in Clients : InLoop(c)'
  BY LoopsStay DEF IInv
<1>2. ASSUME NEW p \in Connections, p # q
      PROVE  Connected(p)'
  <2>1. SameAt(p)
    BY <1>2 DEF SameAt, SameServer, SameWire, ClientsSame, round, counts
  <2>2. QED
    BY <2>1, SameStays DEF IInv
<1>3. Shape'
  BY DEF IInv, Shape, ClientShape, CountsShape, ClientsSame, round, counts
<1>4. \A p \in Connections : Connected(p)'
  BY <1>2
<1>5. \A s \in Servers : mainPc'[s] = "endBarrier" => client_count > 1
  BY DEF IInv
<1>6. QED
  BY <1>1, <1>3, <1>4, <1>5 DEF IInv

-----------------------------------------------------------------------------
(* A failure changes nothing but fault.                                    *)
LEMMA FaultOnly ==
  ASSUME IInv, UNCHANGED <<pc, round, counts, server, wire, atServer, atClient>>,
         fault' \in {"none", "postFailed", "messageRefused", "ackRefused"}
  PROVE  IInv'
<1>1. Shape'
  BY DEF IInv, Shape, ClientShape, CountsShape, ServerShape, ConnectionShape,
         round, counts, server, wire, atServer, atClient
<1>2. \A c \in Clients : InLoop(c)'
  BY LoopsStay DEF IInv, ClientsSame
<1>3. ASSUME NEW q \in Connections
      PROVE  Connected(q)'
  <2>1. SameAt(q)
    BY DEF SameAt, round, counts, server, wire, atServer, atClient
  <2>2. QED
    BY <2>1, SameStays DEF IInv
<1>4. QED
  BY <1>1, <1>2, <1>3 DEF IInv, server

(* The terms of the sums, for a step that is none of the client's.         *)
SameTerms(q) ==
  /\ SentNow(q)' = SentNow(q)
  /\ Early(q[1])' <=> Early(q[1])
  /\ Looping(q[1])' <=> Looping(q[1])
  /\ Ending(q[1])' <=> Ending(q[1])
  /\ totalBudgets'[q] = totalBudgets[q]
  /\ pendingMessages'[q] = pendingMessages[q]
  /\ ackMsgCounters'[q] = ackMsgCounters[q]
  /\ serverPc'[q] = serverPc[q] => Reposting(q)' = Reposting(q)
  /\ ack'[q] = ack[q] => OnItsWay(q)' = OnItsWay(q)
  /\ doneAtClient'[q] = doneAtClient[q] => Acked(q)' = Acked(q)

LEMMA Terms ==
  ASSUME ClientsSame, NEW q \in Connections
  PROVE  SameTerms(q)
BY DEF SameTerms, ClientsSame, round, counts, SentNow, Early, Looping, Ending, Reposting,
       OnItsWay, Acked

-----------------------------------------------------------------------------
(* The network. *)

LEMMA ArriveKeeps ==
  ASSUME IInv, NEW q \in Connections, Arrive(q)
  PROVE  IInv'
<1>1. CASE ~ (recvAtServer[q] > 0)
  BY <1>1, FaultOnly DEF Arrive, wire
<1>2. CASE recvAtServer[q] > 0
  <2>1. /\ inFlight' = [inFlight EXCEPT ![q] = @ - 1] /\ inFlight[q] > 0
        /\ recvAtServer' = [recvAtServer EXCEPT ![q] = @ - 1]
        /\ doneAtServer' = [doneAtServer EXCEPT ![q] = @ + 1]
        /\ UNCHANGED <<server, ack, recvAtClient, doneAtClient, fault>>
        /\ ClientsSame /\ UNCHANGED mainPc
    BY <1>2 DEF Arrive, ClientsSame, server, atClient
  <2>2. ConnectionShape' /\ ServerShape'
    BY <2>1, SMTT(30) DEF IInv, Shape, ConnectionShape, ServerShape, server
  <2>3. \A p \in Connections : p # q => SameServer(p) /\ SameWire(p)
    BY <2>1 DEF IInv, Shape, ConnectionShape, SameServer, SameWire, server
  <2>4. /\ inFlight'[q] = inFlight[q] - 1
        /\ recvAtServer'[q] = recvAtServer[q] - 1
        /\ doneAtServer'[q] = doneAtServer[q] + 1
        /\ serverPc'[q] = serverPc[q] /\ totalBudget'[q] = totalBudget[q]
        /\ budgetR'[q] = budgetR[q] /\ ackCounter'[q] = ackCounter[q]
        /\ mainPc'[q[2]] = mainPc[q[2]] /\ ack'[q] = ack[q]
        /\ recvAtClient'[q] = recvAtClient[q] /\ doneAtClient'[q] = doneAtClient[q]
    BY <2>1 DEF IInv, Shape, ConnectionShape, server
  <2>5. Looping(q[1]) /\ UnderWay(q) /\ Connected(q)
    BY <2>1, Known DEF NotBegun, Ended
  <2>t. Typed(q) /\ SameTerms(q) /\ inFlight[q] > 0
    BY <2>1, Numbers, Terms
  <2>6. UnderWay(q)'
    <3>t. /\ SentNow(q)' = SentNow(q) /\ Reposting(q)' = Reposting(q)
          /\ OnItsWay(q)' = OnItsWay(q) /\ Acked(q)' = Acked(q)
          /\ totalBudgets'[q] = totalBudgets[q] /\ pendingMessages'[q] = pendingMessages[q]
      BY <2>4, <2>t DEF SameTerms
    <3>1. Credits(q)' /\ MessagesCounted(q)'
      <4>1. Credits(q) /\ MessagesCounted(q)
        BY <2>5 DEF UnderWay
      <4>2. Credits(q)'
        BY <2>4, <2>t, <3>t, <4>1 DEF Credits, Typed
      <4>3. MessagesCounted(q)'
        BY <2>4, <2>t, <3>t, <4>1 DEF MessagesCounted, Typed
      <4>4. QED
        BY <4>2, <4>3
    <3>2. ReceivesCounted(q)' /\ WindowPosted(q)'
      BY <2>4, <2>5, <2>t
         DEF UnderWay, ReceivesCounted, WindowPosted, PreparesBarrier, LastMessage, Typed, SameTerms
    <3>3. ServerSteps(q)'
      BY <2>4, <2>5 DEF UnderWay, ServerSteps, LastMessage
    <3>4. InRange(q)'
      <4>1. inFlight'[q] >= 0 /\ doneAtServer'[q] >= 0 /\ recvAtServer'[q] >= 0
        BY <1>2, <2>4, <2>5, <2>t DEF UnderWay, InRange, Typed
      <4>2. QED
        BY <2>4, <2>5, <3>t, <4>1 DEF UnderWay, InRange
    <3>5. AcksInRange(q)'
      BY <2>4, <2>5 DEF UnderWay, AcksInRange
    <3>6. QED
      BY <3>1, <3>2, <3>3, <3>4, <3>5 DEF UnderWay
  <2>7. Connected(q)'
    BY <2>4, <2>5, <2>6, <2>t DEF Connected, Early, Looping, Ending, SameTerms
  <2>8. QED
    BY <2>1, <2>2, <2>3, <2>7, OneConnection
<1>3. QED
  BY <1>1, <1>2

LEMMA AckArrivesKeeps ==
  ASSUME IInv, NEW q \in Connections, AckArrives(q)
  PROVE  IInv'
<1>1. CASE ~ (recvAtClient[q] > 0)
  BY <1>1, FaultOnly DEF AckArrives, server, wire
<1>2. CASE recvAtClient[q] > 0
  <2> DEFINE next == IF totalBudget[q] > 0 \/ budgetR[q] > 0 THEN "poll" ELSE "ended"
  <2>1. /\ ack' = [ack EXCEPT ![q] = None] /\ ack[q] # None
        /\ recvAtClient' = [recvAtClient EXCEPT ![q] = @ - 1]
        /\ doneAtClient' = [doneAtClient EXCEPT ![q] = Append(@, ack[q])]
        /\ serverPc' = [serverPc EXCEPT ![q] = next]
        /\ UNCHANGED <<totalBudget, budgetR, ackCounter, mainPc, inFlight, recvAtServer,
                       doneAtServer, fault>>
        /\ ClientsSame
    BY <1>2 DEF AckArrives, ClientsSame, atServer
  <2>2. ConnectionShape' /\ ServerShape'
    BY <2>1, SMTT(30) DEF IInv, Shape, ConnectionShape, ServerShape, None
  <2>3. \A p \in Connections : p # q => SameServer(p) /\ SameWire(p)
    BY <2>1 DEF IInv, Shape, ConnectionShape, ServerShape, SameServer, SameWire
  <2>4. /\ inFlight'[q] = inFlight[q] /\ ack'[q] = None
        /\ recvAtServer'[q] = recvAtServer[q] /\ doneAtServer'[q] = doneAtServer[q]
        /\ serverPc'[q] = next /\ totalBudget'[q] = totalBudget[q]
        /\ budgetR'[q] = budgetR[q] /\ ackCounter'[q] = ackCounter[q]
        /\ mainPc'[q[2]] = mainPc[q[2]]
        /\ recvAtClient'[q] = recvAtClient[q] - 1
    BY <2>1 DEF IInv, Shape, ConnectionShape, ServerShape
  <2>d. doneAtClient'[q] = Append(doneAtClient[q], ack[q]) /\ doneAtClient[q] \in Seq(Int)
    BY <2>1 DEF IInv, Shape, ConnectionShape
  <2>5. Looping(q[1]) /\ UnderWay(q) /\ Connected(q)
    BY <2>1, Known DEF NotBegun, Ended
  <2>t. Typed(q) /\ SameTerms(q)
    BY <2>1, Numbers, Terms
  <2>s. /\ serverPc[q] = "acking" /\ ack[q] \in 1 .. ackMsgPacking /\ ackCounter[q] = 0
        /\ mainPc[q[2]] = "join"
    BY <2>1, <2>5 DEF UnderWay, ServerSteps
  <2>l. LastMessage(q) <=> next = "ended"
    BY <2>5, <2>t DEF UnderWay, WindowPosted, InRange, LastMessage, Typed
  <2>n. next \in {"poll", "ended"} /\ LastMessage(q)' = LastMessage(q)
    BY <2>4 DEF LastMessage
  <2> HIDE DEF next
  <2>6. UnderWay(q)'
    <3>t. /\ SentNow(q)' = SentNow(q) /\ Reposting(q)' = Reposting(q)
          /\ Reposting(q) = 0 /\ OnItsWay(q)' = 0 /\ OnItsWay(q) = ack[q]
          /\ totalBudgets'[q] = totalBudgets[q] /\ pendingMessages'[q] = pendingMessages[q]
      BY <2>1, <2>4, <2>t, <2>s, <2>n DEF SameTerms, OnItsWay, Reposting
    <3>a. Acked(q)' = Acked(q) + ack[q]
      <4>1. ack[q] \in Nat
        BY <2>s, Packing
      <4>2. QED
        BY <2>d, <4>1, MessagesAppend DEF Acked
    <3>1. Credits(q)' /\ MessagesCounted(q)'
      <4>1. Credits(q) /\ MessagesCounted(q)
        BY <2>5 DEF UnderWay
      <4>2. Credits(q)'
        BY <2>4, <2>t, <3>t, <3>a, <4>1 DEF Credits, Typed
      <4>3. MessagesCounted(q)'
        BY <2>4, <2>t, <3>t, <4>1 DEF MessagesCounted, Typed
      <4>4. QED
        BY <4>2, <4>3
    <3>2. ReceivesCounted(q)' /\ WindowPosted(q)'
      <4>1. ReceivesCounted(q) /\ WindowPosted(q)
        BY <2>5 DEF UnderWay
      <4>2. ReceivesCounted(q)'
        BY <2>4, <2>t, <2>s, <2>l, <2>n, <4>1 DEF ReceivesCounted, PreparesBarrier
      <4>3. WindowPosted(q)'
        BY <2>4, <3>t, <4>1 DEF WindowPosted
      <4>4. QED
        BY <4>2, <4>3
    <3>3. ServerSteps(q)'
      <4>1. 0 \in 0 .. ackMsgPacking - 1
        BY Packing
      <4>2. QED
        BY <2>4, <2>s, <2>l, <2>n, <4>1 DEF ServerSteps
    <3>4. InRange(q)'
      BY <2>4, <2>5, <3>t DEF UnderWay, InRange
    <3>5. AcksInRange(q)'
      <4>1. AcksInRange(q)
        BY <2>5 DEF UnderWay
      <4>2. ack[q] \in Int
        BY <2>t DEF Typed
      <4>3. \A i \in DOMAIN Append(doneAtClient[q], ack[q]) :
              Append(doneAtClient[q], ack[q])[i] \in 1 .. ackMsgPacking
        BY <2>d, <2>s, <4>1, <4>2, AllAppended DEF AcksInRange
      <4>4. QED
        BY <2>d, <4>3 DEF AcksInRange
    <3>6. QED
      BY <3>1, <3>2, <3>3, <3>4, <3>5 DEF UnderWay
  <2>7. recvAtClient'[q] >= 0 /\ recvAtClient'[q] + Len(doneAtClient'[q]) <= RDMA_MAX_WR
    <3>1. Len(doneAtClient'[q]) = Len(doneAtClient[q]) + 1 /\ Len(doneAtClient[q]) \in Int
      BY <2>d, <2>t DEF Typed
    <3>2. recvAtClient[q] + Len(doneAtClient[q]) <= RDMA_MAX_WR
      BY <2>5 DEF Connected
    <3>3. recvAtClient'[q] = recvAtClient[q] - 1 /\ recvAtClient[q] \in Int /\ RDMA_MAX_WR \in Int
      BY <2>4, <2>t DEF Typed
    <3>4. QED
      BY <1>2, <3>1, <3>2, <3>3
  <2>8. Connected(q)'
    BY <2>5, <2>6, <2>7, <2>t DEF Connected, Early, Looping, Ending, SameTerms
  <2>9. UNCHANGED mainPc
    BY <2>1
  <2>10. QED
    BY <2>1, <2>2, <2>3, <2>8, <2>9, OneConnection
<1>3. QED
  BY <1>1, <1>2

-----------------------------------------------------------------------------
(* The server's thread for a client.                                       *)

OthersSame(q) ==
  \A p \in Connections : p # q => SameServer(p) /\ SameWire(p)

LEMMA ServerKeeps ==
  ASSUME IInv, ServerShape', ConnectionShape', ClientsSame,
         UNCHANGED <<mainPc, recvAtClient, doneAtClient>>,
         NEW q \in Connections, OthersSame(q), Looping(q[1]), UnderWay(q),
         Credits(q)', MessagesCounted(q)', ReceivesCounted(q)', WindowPosted(q)',
         ServerSteps(q)', InRange(q)'
  PROVE  IInv'
<1>1. AcksInRange(q)'
  BY DEF UnderWay, AcksInRange
<1>2. UnderWay(q)'
  BY <1>1 DEF UnderWay
<1>3. SameTerms(q) /\ Connected(q)
  BY Known, Terms
<1>4. Connected(q)'
  BY <1>2, <1>3 DEF Connected, Early, Looping, Ending, SameTerms
<1>5. UNCHANGED mainPc
  OBVIOUS
<1>6. QED
  BY <1>4, <1>5, OneConnection DEF OthersSame

LEMMA PostKeeps ==
  ASSUME IInv, NEW q \in Connections, Post(q)
  PROVE  IInv'
<1> DEFINE n == AtMost(IterationsPerThread, RDMA_MAX_WR)
<1>1. /\ recvAtServer' = Plus(recvAtServer, {q}, n)
      /\ budgetR' = [budgetR EXCEPT ![q] = n]
      /\ totalBudget' = [totalBudget EXCEPT ![q] = @ - n]
      /\ serverPc[q] = "post"
      /\ serverPc' = [serverPc EXCEPT ![q] = "poll"]
      /\ UNCHANGED <<ackCounter, mainPc, inFlight, ack, doneAtServer, recvAtClient,
                     doneAtClient, fault>>
      /\ ClientsSame
  BY DEF Post, ClientsSame, wire, atClient
<1>n. n \in Int /\ n = AtMost(IterationsPerThread, RDMA_MAX_WR)
  BY LimitAssumption, IterationsAssumption DEF AtMost
<1> HIDE DEF n
<1>2. recvAtServer' = [p \in Connections |-> IF p \in {q} THEN recvAtServer[p] + n ELSE recvAtServer[p]]
  BY <1>1 DEF Plus
<1>3. ConnectionShape' /\ ServerShape'
  <2>1. ConnectionShape /\ ServerShape
    BY DEF IInv, Shape
  <2>2. recvAtServer' \in [Connections -> Int]
    BY <1>2, <1>n, <2>1 DEF ConnectionShape
  <2>3. budgetR' \in [Connections -> Int] /\ totalBudget' \in [Connections -> Int]
    BY <1>1, <1>n, <2>1 DEF ServerShape
  <2>4. ConnectionShape'
    BY <1>1, <2>1, <2>2 DEF ConnectionShape
  <2>5. ServerShape'
    BY <1>1, <2>1, <2>3 DEF ServerShape
  <2>6. QED
    BY <2>4, <2>5
<1>4. OthersSame(q)
  BY <1>1, <1>2 DEF IInv, Shape, ConnectionShape, ServerShape, SameServer, SameWire, OthersSame
<1>5. /\ recvAtServer'[q] = recvAtServer[q] + n /\ budgetR'[q] = n
      /\ totalBudget'[q] = totalBudget[q] - n /\ serverPc'[q] = "poll"
      /\ ackCounter'[q] = ackCounter[q] /\ mainPc'[q[2]] = mainPc[q[2]]
      /\ inFlight'[q] = inFlight[q] /\ ack'[q] = ack[q]
      /\ doneAtServer'[q] = doneAtServer[q]
      /\ recvAtClient'[q] = recvAtClient[q] /\ doneAtClient'[q] = doneAtClient[q]
  BY <1>1, <1>2 DEF IInv, Shape, ConnectionShape, ServerShape
<1>6. Early(q[1]) /\ NotBegun(q) /\ Connected(q) /\ Typed(q) /\ SameTerms(q)
  BY <1>1, Known, Numbers, Terms DEF UnderWay, ServerSteps, Ended
<1>7. /\ mainPc[q[2]] = "join" /\ budgetR[q] = 0 /\ totalBudget[q] = IterationsPerThread
      /\ recvAtServer[q] = 0
  BY <1>1, <1>6 DEF NotBegun
<1>8. recvAtServer'[q] = n /\ totalBudget'[q] = IterationsPerThread - n
  BY <1>5, <1>7, <1>n
<1>9. pc' = pc /\ connIdx' = connIdx
  BY <1>1 DEF ClientsSame, round
<1>10. NotBegun(q)'
  <2>1. Pinged(q)' = Pinged(q)
    BY <1>9 DEF Pinged
  <2>2. QED
    BY <2>1, <1>5, <1>6, <1>7, <1>8, <1>9, <1>n DEF NotBegun, SameTerms
<1>11. Connected(q)'
  BY <1>5, <1>6, <1>10 DEF Connected, Early, Looping, Ending, SameTerms
<1>12. UNCHANGED mainPc
  BY <1>1
<1>13. QED
  BY <1>1, <1>3, <1>4, <1>11, <1>12, OneConnection DEF OthersSame

LEMMA PollMessageKeeps ==
  ASSUME IInv, NEW q \in Connections, PollMessage(q)
  PROVE  IInv'
<1>1. /\ serverPc[q] = "poll" /\ doneAtServer[q] > 0
      /\ doneAtServer' = [doneAtServer EXCEPT ![q] = @ - 1]
      /\ budgetR' = [budgetR EXCEPT ![q] = @ - 1]
      /\ serverPc' = [serverPc EXCEPT ![q] = "repost"]
      /\ UNCHANGED <<totalBudget, ackCounter, mainPc, inFlight, ack, recvAtServer,
                     recvAtClient, doneAtClient, fault>>
      /\ ClientsSame
  BY DEF PollMessage, ClientsSame, wire, atClient
<1>2. ConnectionShape' /\ ServerShape'
  BY <1>1 DEF IInv, Shape, ConnectionShape, ServerShape
<1>3. OthersSame(q)
  BY <1>1 DEF IInv, Shape, ConnectionShape, ServerShape, SameServer, SameWire, OthersSame
<1>4. /\ inFlight'[q] = inFlight[q] /\ ack'[q] = ack[q]
      /\ recvAtServer'[q] = recvAtServer[q] /\ doneAtServer'[q] = doneAtServer[q] - 1
      /\ totalBudget'[q] = totalBudget[q] /\ budgetR'[q] = budgetR[q] - 1
      /\ ackCounter'[q] = ackCounter[q]
  BY <1>1 DEF IInv, Shape, ConnectionShape, ServerShape
<1>5. serverPc'[q] = "repost" /\ mainPc'[q[2]] = mainPc[q[2]]
  BY <1>1 DEF IInv, Shape, ServerShape
<1>6. Looping(q[1]) /\ UnderWay(q)
  BY <1>1, Known DEF NotBegun, Ended
<1>7. Typed(q) /\ SameTerms(q)
  BY <1>1, Numbers, Terms
<1>8. /\ SentNow(q)' = SentNow(q) /\ Reposting(q)' = 1 /\ Reposting(q) = 0
      /\ OnItsWay(q)' = OnItsWay(q) /\ Acked(q)' = Acked(q)
      /\ totalBudgets'[q] = totalBudgets[q] /\ pendingMessages'[q] = pendingMessages[q]
  BY <1>1, <1>4, <1>5, <1>7 DEF SameTerms, Reposting
<1>9. /\ Credits(q) /\ MessagesCounted(q) /\ ReceivesCounted(q) /\ WindowPosted(q)
      /\ ServerSteps(q) /\ InRange(q)
  BY <1>6 DEF UnderWay
<1>10. Credits(q)'
  BY <1>4, <1>7, <1>8, <1>9 DEF Credits, Typed
<1>11. MessagesCounted(q)'
  BY <1>4, <1>7, <1>8, <1>9 DEF MessagesCounted, Typed
<1>12. recvAtServer[q] + doneAtServer[q] = budgetR[q]
  BY <1>1, <1>7, <1>9 DEF ReceivesCounted, Typed
<1>13. ReceivesCounted(q)'
  BY <1>4, <1>5, <1>7, <1>12 DEF ReceivesCounted, Typed
<1>14. WindowPosted(q)'
  BY <1>1, <1>4, <1>7, <1>8, <1>9, <1>12 DEF WindowPosted, InRange, Typed
<1>15. ServerSteps(q)'
  BY <1>1, <1>4, <1>5, <1>9 DEF ServerSteps
<1>16. InRange(q)'
  BY <1>1, <1>4, <1>7, <1>8, <1>9 DEF InRange, Typed
<1>17. UNCHANGED <<mainPc, recvAtClient, doneAtClient>>
  BY <1>1
<1>18. QED
  BY <1>1, <1>2, <1>3, <1>6, <1>10, <1>11, <1>13, <1>14, <1>15, <1>16, <1>17, ServerKeeps

LEMMA RepostKeeps ==
  ASSUME IInv, NEW q \in Connections, Repost(q)
  PROVE  IInv'
<1> DEFINE n == AtMost(totalBudget[q], 1)
<1>1. CASE fault' = "postFailed" /\ UNCHANGED <<recvAtServer, budgetR, totalBudget, ackCounter, serverPc>>
  BY <1>1, FaultOnly DEF Repost, server, atServer
<1>2. CASE ~ (fault' = "postFailed" /\ UNCHANGED <<recvAtServer, budgetR, totalBudget, ackCounter, serverPc>>)
  <2>1. /\ serverPc[q] = "repost"
        /\ recvAtServer' = Plus(recvAtServer, {q}, n)
        /\ budgetR' = [budgetR EXCEPT ![q] = @ + n]
        /\ totalBudget' = [totalBudget EXCEPT ![q] = @ - n]
        /\ ackCounter' = [ackCounter EXCEPT ![q] = @ + 1]
        /\ serverPc' = [serverPc EXCEPT ![q] = "answer"]
        /\ UNCHANGED <<mainPc, inFlight, ack, doneAtServer, recvAtClient, doneAtClient, fault>>
        /\ ClientsSame
    BY <1>2 DEF Repost, ClientsSame, wire, atClient
  <2>7. Typed(q) /\ SameTerms(q)
    BY <2>1, Numbers, Terms
  <2>n. n \in Int /\ n = IF totalBudget[q] > 1 THEN 1 ELSE totalBudget[q]
    BY <2>7 DEF AtMost, Typed
  <2> HIDE DEF n
  <2>a. recvAtServer' = [p \in Connections |-> IF p \in {q} THEN recvAtServer[p] + n ELSE recvAtServer[p]]
    BY <2>1 DEF Plus
  <2>2. ConnectionShape' /\ ServerShape'
    <3>1. ConnectionShape /\ ServerShape
      BY DEF IInv, Shape
    <3>2. recvAtServer' \in [Connections -> Int]
      BY <2>a, <2>n, <3>1 DEF ConnectionShape
    <3>3. budgetR' \in [Connections -> Int] /\ totalBudget' \in [Connections -> Int]
      BY <2>1, <2>n, <3>1 DEF ServerShape
    <3>4. ackCounter' \in [Connections -> Int]
      BY <2>1, <3>1 DEF ServerShape
    <3>5. ConnectionShape'
      BY <2>1, <3>1, <3>2 DEF ConnectionShape
    <3>6. ServerShape'
      BY <2>1, <3>1, <3>3, <3>4 DEF ServerShape
    <3>7. QED
      BY <3>5, <3>6
  <2>3. OthersSame(q)
    BY <2>1, <2>a DEF IInv, Shape, ConnectionShape, ServerShape, SameServer, SameWire, OthersSame
  <2>4. /\ inFlight'[q] = inFlight[q] /\ ack'[q] = ack[q]
        /\ recvAtServer'[q] = recvAtServer[q] + n /\ doneAtServer'[q] = doneAtServer[q]
        /\ totalBudget'[q] = totalBudget[q] - n /\ budgetR'[q] = budgetR[q] + n
        /\ ackCounter'[q] = ackCounter[q] + 1
    BY <2>1, <2>a DEF IInv, Shape, ConnectionShape, ServerShape
  <2>5. serverPc'[q] = "answer" /\ mainPc'[q[2]] = mainPc[q[2]]
    BY <2>1 DEF IInv, Shape, ServerShape
  <2>6. Looping(q[1]) /\ UnderWay(q)
    BY <2>1, Known DEF NotBegun, Ended
  <2>8. /\ SentNow(q)' = SentNow(q) /\ Reposting(q)' = 0 /\ Reposting(q) = 1
        /\ OnItsWay(q)' = OnItsWay(q) /\ Acked(q)' = Acked(q)
        /\ totalBudgets'[q] = totalBudgets[q] /\ pendingMessages'[q] = pendingMessages[q]
    BY <2>1, <2>4, <2>5, <2>7 DEF SameTerms, Reposting
  <2>9. /\ Credits(q) /\ MessagesCounted(q) /\ ReceivesCounted(q) /\ WindowPosted(q)
        /\ ServerSteps(q) /\ InRange(q)
    BY <2>6 DEF UnderWay
  <2>10. Credits(q)'
    BY <2>4, <2>7, <2>8, <2>9 DEF Credits, Typed
  <2>11. MessagesCounted(q)'
    BY <2>4, <2>7, <2>8, <2>9, <2>n DEF MessagesCounted, Typed
  <2>12. recvAtServer[q] + doneAtServer[q] = budgetR[q]
    BY <2>1, <2>7, <2>9 DEF ReceivesCounted, Typed
  <2>13. ReceivesCounted(q)'
    BY <2>4, <2>5, <2>7, <2>12, <2>n DEF ReceivesCounted, Typed
  <2>o. totalBudget[q] >= 0 /\ totalBudget[q] <= IterationsPerThread
    BY <2>9, IterationsAssumption DEF InRange
  <2>14. WindowPosted(q)'
    BY <2>4, <2>7, <2>8, <2>9, <2>12, <2>n, <2>o DEF WindowPosted, Typed
  <2>15. ServerSteps(q)'
    <3>1. ackCounter[q] \in 0 .. ackMsgPacking - 1 /\ ack[q] = None /\ mainPc[q[2]] = "join"
      BY <2>1, <2>9 DEF ServerSteps
    <3>2. ackCounter[q] + 1 \in 1 .. ackMsgPacking
      BY <3>1, Packing
    <3>3. QED
      BY <2>4, <2>5, <3>1, <3>2 DEF ServerSteps
  <2>16. InRange(q)'
    <3>1. totalBudget'[q] \in 0 .. IterationsPerThread /\ recvAtServer'[q] >= 0
      BY <2>4, <2>7, <2>9, <2>n, <2>o DEF InRange, Typed
    <3>2. QED
      BY <2>4, <2>8, <2>9, <3>1 DEF InRange
  <2>17. UNCHANGED <<mainPc, recvAtClient, doneAtClient>>
    BY <2>1
  <2>18. QED
    BY <2>1, <2>2, <2>3, <2>6, <2>10, <2>11, <2>13, <2>14, <2>15, <2>16, <2>17, ServerKeeps
<1>3. QED
  BY <1>1, <1>2

LEMMA AcknowledgeKeeps ==
  ASSUME IInv, NEW q \in Connections, Acknowledge(q)
  PROVE  IInv'
<1> DEFINE n == IF PreparesBarrier(q) THEN 1 ELSE 0
<1>1. /\ serverPc[q] = "answer"
      /\ recvAtServer' = Plus(recvAtServer, IF PreparesBarrier(q) THEN {q} ELSE {}, 1)
      /\ ack' = [ack EXCEPT ![q] = ackCounter[q]]
      /\ ackCounter' = [ackCounter EXCEPT ![q] = 0]
      /\ serverPc' = [serverPc EXCEPT ![q] = "acking"]
      /\ UNCHANGED <<totalBudget, budgetR, mainPc, inFlight, doneAtServer, recvAtClient,
                     doneAtClient, fault>>
      /\ ClientsSame
  BY DEF Acknowledge, AckedMessages, ClientsSame, atClient
<1>2. recvAtServer' = [p \in Connections |-> IF p = q /\ PreparesBarrier(q) THEN recvAtServer[p] + 1 ELSE recvAtServer[p]]
  BY <1>1 DEF Plus
<1>3. ConnectionShape' /\ ServerShape'
  <2>1. ConnectionShape /\ ServerShape
    BY DEF IInv, Shape
  <2>2. recvAtServer' \in [Connections -> Int]
    BY <1>2, <2>1 DEF ConnectionShape
  <2>3. ackCounter' \in [Connections -> Int]
    BY <1>1, <2>1 DEF ServerShape
  <2>4. ack' \in [Connections -> Int]
    BY <1>1, <2>1 DEF ServerShape, ConnectionShape
  <2>5. ConnectionShape'
    BY <1>1, <2>1, <2>2, <2>4 DEF ConnectionShape
  <2>6. ServerShape'
    BY <1>1, <2>1, <2>3 DEF ServerShape
  <2>7. QED
    BY <2>5, <2>6
<1>4. OthersSame(q)
  BY <1>1, <1>2 DEF IInv, Shape, ConnectionShape, ServerShape, SameServer, SameWire, OthersSame
<1>7. Typed(q) /\ SameTerms(q)
  BY <1>1, Numbers, Terms
<1>n. n \in Int /\ n >= 0 /\ n = IF PreparesBarrier(q) THEN 1 ELSE 0
  OBVIOUS
<1> HIDE DEF n
<1>5. /\ inFlight'[q] = inFlight[q] /\ ack'[q] = ackCounter[q]
      /\ recvAtServer'[q] = recvAtServer[q] + n /\ doneAtServer'[q] = doneAtServer[q]
      /\ totalBudget'[q] = totalBudget[q] /\ budgetR'[q] = budgetR[q]
      /\ ackCounter'[q] = 0
  <2>1. /\ inFlight'[q] = inFlight[q] /\ doneAtServer'[q] = doneAtServer[q]
        /\ totalBudget'[q] = totalBudget[q] /\ budgetR'[q] = budgetR[q]
    BY <1>1
  <2>2. ack'[q] = ackCounter[q] /\ ackCounter'[q] = 0
    BY <1>1 DEF IInv, Shape, ConnectionShape, ServerShape
  <2>3. recvAtServer'[q] = IF PreparesBarrier(q) THEN recvAtServer[q] + 1 ELSE recvAtServer[q]
    BY <1>2
  <2>4. recvAtServer[q] \in Int
    BY <1>7 DEF Typed
  <2>5. recvAtServer'[q] = recvAtServer[q] + n
    BY <1>n, <2>3, <2>4
  <2>6. QED
    BY <2>1, <2>2, <2>5
<1>6. serverPc'[q] = "acking" /\ mainPc'[q[2]] = mainPc[q[2]]
  BY <1>1 DEF IInv, Shape, ServerShape
<1>8. Looping(q[1]) /\ UnderWay(q)
  BY <1>1, Known DEF NotBegun, Ended
<1>9. /\ Credits(q) /\ MessagesCounted(q) /\ ReceivesCounted(q) /\ WindowPosted(q)
      /\ ServerSteps(q) /\ InRange(q)
  BY <1>8 DEF UnderWay
<1>10. /\ ack[q] = None /\ mainPc[q[2]] = "join" /\ ackCounter[q] \in 1 .. ackMsgPacking
       /\ ackCounter[q] # None
  BY <1>1, <1>9, Packing DEF ServerSteps, None
<1>11. /\ SentNow(q)' = SentNow(q) /\ Reposting(q)' = 0 /\ Reposting(q) = 0
       /\ OnItsWay(q)' = ackCounter[q] /\ OnItsWay(q) = 0 /\ Acked(q)' = Acked(q)
       /\ totalBudgets'[q] = totalBudgets[q] /\ pendingMessages'[q] = pendingMessages[q]
  BY <1>1, <1>5, <1>6, <1>7, <1>10 DEF SameTerms, Reposting, OnItsWay
<1>12. Credits(q)'
  BY <1>5, <1>7, <1>9, <1>11 DEF Credits, Typed
<1>13. MessagesCounted(q)'
  BY <1>5, <1>7, <1>9, <1>11 DEF MessagesCounted, Typed
<1>14. ReceivesCounted(q)'
  <2>1. recvAtServer[q] + doneAtServer[q] = budgetR[q]
    BY <1>1, <1>7, <1>9 DEF ReceivesCounted, Typed
  <2>2. PreparesBarrier(q)' <=> PreparesBarrier(q)
    BY <1>5 DEF PreparesBarrier, LastMessage
  <2>3. recvAtServer'[q] + doneAtServer'[q] = budgetR'[q] + n
    BY <1>5, <1>7, <1>n, <2>1 DEF Typed
  <2>4. QED
    BY <1>6, <1>n, <2>2, <2>3 DEF ReceivesCounted
<1>15. WindowPosted(q)'
  BY <1>5, <1>9, <1>11 DEF WindowPosted
<1>16. ServerSteps(q)'
  BY <1>5, <1>6, <1>10 DEF ServerSteps
<1>17. InRange(q)'
  <2>1. recvAtServer'[q] >= 0
    BY <1>5, <1>7, <1>9, <1>n DEF InRange, Typed
  <2>2. QED
    BY <1>5, <1>9, <1>11, <2>1 DEF InRange
<1>18. UNCHANGED <<mainPc, recvAtClient, doneAtClient>>
  BY <1>1
<1>19. QED
  BY <1>1, <1>3, <1>4, <1>8, <1>12, <1>13, <1>14, <1>15, <1>16, <1>17, <1>18, ServerKeeps

LEMMA ContinueKeeps ==
  ASSUME IInv, NEW q \in Connections, Continue(q)
  PROVE  IInv'
<1>1. /\ serverPc[q] = "answer" /\ ~ AckDue(q)
      /\ serverPc' = [serverPc EXCEPT ![q] = "poll"]
      /\ UNCHANGED <<totalBudget, budgetR, ackCounter, mainPc, inFlight, ack, recvAtServer,
                     doneAtServer, recvAtClient, doneAtClient, fault>>
      /\ ClientsSame
  BY DEF Continue, ClientsSame, wire, atServer, atClient
<1>2. ConnectionShape' /\ ServerShape'
  BY <1>1 DEF IInv, Shape, ConnectionShape, ServerShape
<1>3. OthersSame(q)
  BY <1>1 DEF IInv, Shape, ConnectionShape, ServerShape, SameServer, SameWire, OthersSame
<1>4. /\ inFlight'[q] = inFlight[q] /\ ack'[q] = ack[q]
      /\ recvAtServer'[q] = recvAtServer[q] /\ doneAtServer'[q] = doneAtServer[q]
      /\ totalBudget'[q] = totalBudget[q] /\ budgetR'[q] = budgetR[q]
      /\ ackCounter'[q] = ackCounter[q]
  BY <1>1
<1>5. serverPc'[q] = "poll" /\ mainPc'[q[2]] = mainPc[q[2]]
  BY <1>1 DEF IInv, Shape, ServerShape
<1>6. Looping(q[1]) /\ UnderWay(q)
  BY <1>1, Known DEF NotBegun, Ended
<1>7. Typed(q) /\ SameTerms(q)
  BY <1>1, Numbers, Terms
<1>8. /\ SentNow(q)' = SentNow(q) /\ Reposting(q)' = Reposting(q)
      /\ OnItsWay(q)' = OnItsWay(q) /\ Acked(q)' = Acked(q)
      /\ totalBudgets'[q] = totalBudgets[q] /\ pendingMessages'[q] = pendingMessages[q]
  BY <1>1, <1>4, <1>5, <1>7 DEF SameTerms, Reposting
<1>9. /\ Credits(q) /\ MessagesCounted(q) /\ ReceivesCounted(q) /\ WindowPosted(q)
      /\ ServerSteps(q) /\ InRange(q)
  BY <1>6 DEF UnderWay
<1>10. Credits(q)' /\ MessagesCounted(q)' /\ WindowPosted(q)' /\ InRange(q)'
  BY <1>4, <1>8, <1>9 DEF Credits, MessagesCounted, WindowPosted, InRange
<1>11. ReceivesCounted(q)'
  BY <1>1, <1>4, <1>5, <1>9 DEF ReceivesCounted
<1>12. ServerSteps(q)'
  <2>1. /\ ack[q] = None /\ mainPc[q[2]] = "join" /\ ackCounter[q] \in 1 .. ackMsgPacking
        /\ ackCounter[q] # ackMsgPacking /\ ~ LastMessage(q)
    BY <1>1, <1>9 DEF ServerSteps, AckDue
  <2>2. ackCounter[q] \in 0 .. ackMsgPacking - 1
    BY <2>1, Packing
  <2>3. LastMessage(q)' <=> LastMessage(q)
    BY <1>4 DEF LastMessage
  <2>4. QED
    BY <1>4, <1>5, <2>1, <2>2, <2>3 DEF ServerSteps
<1>13. UNCHANGED <<mainPc, recvAtClient, doneAtClient>>
  BY <1>1
<1>14. QED
  BY <1>1, <1>2, <1>3, <1>6, <1>10, <1>11, <1>12, <1>13, ServerKeeps

-----------------------------------------------------------------------------
(* A client's steps.                                                       *)

OtherClients(c) ==
  /\ \A d \in Clients : d # c =>
       /\ pc'[d] = pc[d] /\ connIdx'[d] = connIdx[d] /\ sent'[d] = sent[d]
       /\ ackMsgCounter'[d] = ackMsgCounter[d]
       /\ workingConnections'[d] = workingConnections[d]
  /\ \A q \in Connections : q[1] # c =>
       /\ totalBudgets'[q] = totalBudgets[q] /\ pendingMessages'[q] = pendingMessages[q]
       /\ ackMsgCounters'[q] = ackMsgCounters[q]
       /\ SameWire(q)

LEMMA OneClient ==
  ASSUME IInv, Shape', UNCHANGED server, NEW c \in Clients, OtherClients(c), InLoop(c)',
         \A q \in Of(c) : Connected(q)'
  PROVE  IInv'
<1>1. ASSUME NEW q \in Connections
      PROVE  Connected(q)'
  <2>1. CASE q[1] = c
    BY <2>1 DEF Of
  <2>2. CASE q[1] # c
    <3>1. SameAt(q)
      BY <2>2, Pairs DEF SameAt, OtherClients, SameWire, server
    <3>2. QED
      BY <3>1, SameStays DEF IInv
  <2>3. QED
    BY <2>1, <2>2
<1>2. ASSUME NEW d \in Clients
      PROVE  InLoop(d)'
  <2>1. CASE d = c
    BY <2>1
  <2>2. CASE d # c
    <3>1. \A s \in Servers : <<d, s>> \in Connections /\ <<d, s>>[1] # c
      BY <2>2, Pairs
    <3>2. /\ pc'[d] = pc[d] /\ connIdx'[d] = connIdx[d] /\ sent'[d] = sent[d]
          /\ ackMsgCounter'[d] = ackMsgCounter[d]
          /\ workingConnections'[d] = workingConnections[d]
      BY <2>2 DEF OtherClients
    <3>3. \A s \in Servers :
            /\ totalBudgets'[<<d, s>>] = totalBudgets[<<d, s>>]
            /\ pendingMessages'[<<d, s>>] = pendingMessages[<<d, s>>]
      BY <3>1 DEF OtherClients
    <3>4. connIdx[d] \in Servers
      BY DEF IInv, Shape, ClientShape
    <3>5. Open(d)' = Open(d)
      BY <3>2, <3>3 DEF Open, DoneWith
    <3>6. /\ sendBudget(<<d, connIdx[d]>>)' = sendBudget(<<d, connIdx[d]>>)
          /\ DoneWith(<<d, connIdx[d]>>)' = DoneWith(<<d, connIdx[d]>>)
      BY <3>2, <3>3, <3>4 DEF DoneWith, sendBudget
    <3>7. QED
      BY <3>2, <3>5, <3>6 DEF InLoop, IInv
  <2>3. QED
    BY <2>1, <2>2
<1>3. QED
  BY <1>1, <1>2 DEF IInv, server

(* A connection of the client that the step concerns only by where the     *)
(* client is in its loop.                                                  *)
SameData(q) ==
  /\ totalBudgets'[q] = totalBudgets[q] /\ pendingMessages'[q] = pendingMessages[q]
  /\ ackMsgCounters'[q] = ackMsgCounters[q]
  /\ SameServer(q) /\ mainPc'[q[2]] = mainPc[q[2]] /\ SameWire(q)

LEMMA StillUnderWay ==
  ASSUME NEW q \in Connections, SameData(q), Connected(q), Looping(q[1]), Looping(q[1])',
         SentNow(q)' = SentNow(q)
  PROVE  Connected(q)'
<1>1. UnderWay(q)
  BY DEF Connected
<1>2. /\ Reposting(q)' = Reposting(q) /\ OnItsWay(q)' = OnItsWay(q) /\ Acked(q)' = Acked(q)
  BY DEF SameData, SameServer, SameWire, Reposting, OnItsWay, Acked
<1>3. UnderWay(q)'
  BY <1>1, <1>2 DEF SameData, SameServer, SameWire, UnderWay, Credits, MessagesCounted,
     ReceivesCounted, WindowPosted, ServerSteps, InRange, AcksInRange, PreparesBarrier, LastMessage
<1>4. ~ Early(q[1])' /\ ~ Ending(q[1])'
  BY DEF Looping, Early, Ending
<1>5. QED
  BY <1>3, <1>4 DEF Connected, SameData, SameWire

(* All of a connection is done when the client has nothing left to send    *)
(* and to wait for.                                                        *)
LEMMA Quiet ==
  ASSUME IInv, NEW q \in Connections, Looping(q[1]), DoneWith(q), SentNow(q) = 0
  PROVE  /\ inFlight[q] = 0 /\ doneAtServer[q] = 0 /\ ack[q] = None /\ ackCounter[q] = 0
         /\ serverPc[q] = "ended" /\ LastMessage(q) /\ doneAtClient[q] = <<>>
         /\ recvAtServer[q] = IF client_count > 1 THEN 1 ELSE 0
         /\ mainPc[q[2]] \in {"join", "endBarrier", "done"}
         /\ mainPc[q[2]] = "done" => ~ (client_count > 1)
<1>1. UnderWay(q) /\ Typed(q)
  BY Known, Numbers DEF Looping, Early, Ending
<1>2. /\ Credits(q) /\ MessagesCounted(q) /\ ReceivesCounted(q) /\ WindowPosted(q)
      /\ ServerSteps(q) /\ InRange(q) /\ AcksInRange(q)
  BY <1>1 DEF UnderWay
<1>3. /\ ackCounter[q] >= 0 /\ OnItsWay(q) >= 0 /\ Reposting(q) >= 0
  <2>1. ackCounter[q] >= 0
    BY <1>2, Packing DEF ServerSteps
  <2>2. OnItsWay(q) >= 0
    BY <1>2, Packing DEF ServerSteps, OnItsWay
  <2>3. QED
    BY <2>1, <2>2 DEF Reposting
<1>4. /\ totalBudgets[q] = 0 /\ pendingMessages[q] = 0
      /\ inFlight[q] >= 0 /\ doneAtServer[q] >= 0 /\ totalBudget[q] >= 0 /\ budgetR[q] >= 0
  BY <1>1, <1>2 DEF DoneWith, InRange, WindowPosted, Typed
<1>5. /\ inFlight[q] = 0 /\ doneAtServer[q] = 0 /\ ackCounter[q] = 0
      /\ Reposting(q) = 0 /\ OnItsWay(q) = 0 /\ Acked(q) = 0
  <2>1. 0 = inFlight[q] + doneAtServer[q] + Reposting(q) + ackCounter[q] + OnItsWay(q) + Acked(q)
    BY <1>2, <1>4 DEF Credits
  <2>2. /\ inFlight[q] \in Int /\ doneAtServer[q] \in Int /\ Reposting(q) \in Int
        /\ ackCounter[q] \in Int /\ OnItsWay(q) \in Int /\ Acked(q) \in Nat
    BY <1>1 DEF Typed
  <2> DEFINE i1 == inFlight[q]
             i2 == doneAtServer[q]
             i3 == Reposting(q)
             i4 == ackCounter[q]
             i5 == OnItsWay(q)
             i6 == Acked(q)
  <2>3. /\ i1 \in Nat /\ i2 \in Nat /\ i3 \in Nat /\ i4 \in Nat /\ i5 \in Nat /\ i6 \in Nat
        /\ 0 = i1 + i2 + i3 + i4 + i5 + i6
    BY <1>3, <1>4, <2>1, <2>2
  <2>4. i1 = 0 /\ i2 = 0 /\ i3 = 0 /\ i4 = 0 /\ i5 = 0 /\ i6 = 0
    <3> HIDE DEF i1, i2, i3, i4, i5, i6
    <3>1. QED
      BY <2>3
  <2>5. QED
    BY <2>4
<1>6. LastMessage(q)
  BY <1>1, <1>2, <1>4, <1>5 DEF MessagesCounted, LastMessage, Typed
<1>7. serverPc[q] = "ended"
  <2>1. serverPc[q] # "poll"
    BY <1>2, <1>6 DEF ServerSteps
  <2>2. serverPc[q] # "repost"
    BY <1>5 DEF Reposting
  <2>3. serverPc[q] # "answer"
    BY <1>2, <1>5 DEF ServerSteps
  <2>4. serverPc[q] # "acking"
    <3>1. SUFFICES ASSUME serverPc[q] = "acking" PROVE FALSE
      OBVIOUS
    <3>2. ack[q] \in 1 .. ackMsgPacking
      BY <1>2, <3>1 DEF ServerSteps
    <3>3. OnItsWay(q) = ack[q]
      BY <3>2 DEF OnItsWay, None
    <3>4. QED
      BY <1>5, <3>2, <3>3
  <2>5. QED
    BY <1>2, <2>1, <2>2, <2>3, <2>4 DEF ServerSteps
<1>8. ack[q] = None /\ mainPc[q[2]] \in {"join", "endBarrier", "done"}
      /\ (mainPc[q[2]] = "done" => ~ (client_count > 1))
  BY <1>2, <1>7 DEF ServerSteps
<1>9. doneAtClient[q] = <<>>
  <2>1. doneAtClient[q] \in Seq(Int)
    BY DEF IInv, Shape, ConnectionShape
  <2>2. \A i \in DOMAIN doneAtClient[q] : doneAtClient[q][i] >= 1
    BY <1>2, Packing DEF AcksInRange
  <2>3. QED
    BY <1>5, <2>1, <2>2, NothingAcked DEF Acked
<1>10. recvAtServer[q] = IF client_count > 1 THEN 1 ELSE 0
  <2>1. budgetR[q] = 0 /\ (PreparesBarrier(q) <=> client_count > 1)
    BY <1>6 DEF LastMessage, PreparesBarrier
  <2>2. QED
    BY <1>1, <1>2, <1>5, <1>7, <2>1 DEF ReceivesCounted, Typed
<1>11. QED
  BY <1>5, <1>6, <1>7, <1>8, <1>9, <1>10

LEMMA OpenFinite ==
  ASSUME NEW c
  PROVE  IsFiniteSet(Open(c)) /\ Cardinality(Open(c)) \in Nat
<1>1. IsFiniteSet(Servers)
  BY LimitAssumption, Intervals DEF Servers
<1>2. Open(c) \subseteq Servers
  BY DEF Open
<1>3. QED
  BY <1>1, <1>2, FS_Subset, FS_CardinalityType

(* On to the next connection, or out of the loop.                          *)
LEMMA AdvanceKeeps ==
  ASSUME IInv, NEW c \in Clients, NEW working, pc[c] \in {"next", "poll"}, Advance(c, working),
         working = Cardinality({s \in Servers : ~ DoneWith(<<c, s>>)}),
         UNCHANGED <<sent, ackMsgCounter, counts, server, wire, atServer, atClient, fault>>
  PROVE  IInv'
<1> DEFINE open == {s \in Servers : ~ DoneWith(<<c, s>>)}
<1>1. /\ IsFiniteSet(open) /\ working \in Nat
      /\ working = 0 => open = {}
  <2>1. IsFiniteSet(Servers) /\ open \subseteq Servers
    BY LimitAssumption, Intervals DEF Servers
  <2>2. IsFiniteSet(open)
    BY <2>1, FS_Subset
  <2> HIDE DEF open
  <2>3. working = Cardinality(open)
    BY DEF open
  <2>4. QED
    BY <2>2, <2>3, FS_CardinalityType, FS_EmptySet
<1>2. /\ workingConnections' = [workingConnections EXCEPT ![c] = working]
      /\ connIdx' = [connIdx EXCEPT ![c] = IF @ = ServerCount THEN 1 ELSE @ + 1]
      /\ pc' = [pc EXCEPT ![c] =
           IF connIdx[c] < ServerCount \/ working > 0 THEN "next" ELSE AfterRun]
      /\ UNCHANGED <<sent, ackMsgCounter, totalBudgets, pendingMessages, ackMsgCounters,
                     inFlight, ack, recvAtServer, doneAtServer, recvAtClient, doneAtClient,
                     fault>>
      /\ UNCHANGED server
  BY DEF Advance, counts, wire, atServer, atClient
<1>3. AfterRun \in {"enterEnd", "done"} /\ (AfterRun = "enterEnd" <=> client_count > 1)
  BY DEF AfterRun
<1>4. ClientShape
  BY DEF IInv, Shape
<1>5. ClientShape'
  <2>1. pc' \in [Clients -> {"enter", "ping", "pong", "ready", "next", "send", "poll",
                         "enterEnd", "pingEnd", "pongEnd", "done"}]
    BY <1>2, <1>3, <1>4 DEF ClientShape
  <2>2. connIdx' \in [Clients -> Servers]
    BY <1>2, <1>4, LimitAssumption DEF ClientShape, Servers
  <2>3. workingConnections' \in [Clients -> Int]
    BY <1>1, <1>2, <1>4 DEF ClientShape
  <2>4. QED
    BY <1>2, <1>4, <2>1, <2>2, <2>3 DEF ClientShape
<1>6. Shape'
  BY <1>2, <1>5 DEF IInv, Shape, CountsShape, ServerShape, ConnectionShape, server
<1>7. OtherClients(c)
  BY <1>2, <1>4 DEF OtherClients, ClientShape, SameWire
<1>8. /\ pc'[c] = IF connIdx[c] < ServerCount \/ working > 0 THEN "next" ELSE AfterRun
      /\ workingConnections'[c] = working /\ sent'[c] = sent[c]
      /\ ackMsgCounter'[c] = ackMsgCounter[c]
  BY <1>2, <1>4 DEF ClientShape
<1>9. InLoop(c)'
  <2>1. pc'[c] \notin {"send", "poll"}
    BY <1>3, <1>8
  <2>2. Open(c)' = open
    BY <1>2, <2>1 DEF Open, DoneWith
  <2>3. InLoop(c)
    BY DEF IInv
  <2>4. sent'[c] = 0 /\ ackMsgCounter'[c] \in 0 .. ackMsgPacking - 1
    BY <1>8, <2>3 DEF InLoop
  <2>5. workingConnections'[c] = Cardinality(Open(c)')
    BY <1>8, <2>2
  <2>6. QED
    BY <2>1, <2>4, <2>5 DEF InLoop
<1>10. ASSUME NEW q \in Of(c)
       PROVE  Connected(q)'
  <2>1. q \in Connections /\ q[1] = c /\ q[2] \in Servers /\ q = <<c, q[2]>>
    BY Pairs DEF Of
  <2>2. SameData(q) /\ Looping(q[1]) /\ Connected(q) /\ SentNow(q) = 0
    BY <1>2, <2>1 DEF SameData, SameServer, SameWire, Looping, SentNow, IInv, server
  <2>3. CASE pc'[c] = "next"
    <3>1. Looping(q[1])' /\ SentNow(q)' = 0
      BY <2>1, <2>3 DEF Looping, SentNow
    <3>2. QED
      BY <2>1, <2>2, <3>1, StillUnderWay
  <2>4. CASE pc'[c] # "next"
    <3>1. pc'[c] = AfterRun /\ ~ (working > 0)
      BY <1>8, <2>4
    <3>2. open = {}
      BY <1>1, <3>1
    <3>3. DoneWith(q)
      BY <2>1, <3>2
    <3>4. /\ inFlight[q] = 0 /\ doneAtServer[q] = 0 /\ ack[q] = None /\ ackCounter[q] = 0
          /\ serverPc[q] = "ended" /\ LastMessage(q) /\ doneAtClient[q] = <<>>
          /\ recvAtServer[q] = IF client_count > 1 THEN 1 ELSE 0
          /\ mainPc[q[2]] \in {"join", "endBarrier", "done"}
          /\ mainPc[q[2]] = "done" => ~ (client_count > 1)
      BY <2>1, <2>2, <3>3, Quiet
    <3>5. /\ totalBudgets'[q] = 0 /\ pendingMessages'[q] = 0
          /\ inFlight'[q] = 0 /\ doneAtServer'[q] = 0 /\ ack'[q] = None /\ ackCounter'[q] = 0
          /\ serverPc'[q] = "ended" /\ LastMessage(q)' /\ doneAtClient'[q] = <<>>
          /\ recvAtServer'[q] = IF client_count > 1 THEN 1 ELSE 0
          /\ mainPc'[q[2]] \in {"join", "endBarrier", "done"}
          /\ mainPc'[q[2]] = "done" => ~ (client_count > 1)
      BY <2>2, <3>3, <3>4 DEF SameData, SameServer, SameWire, DoneWith, LastMessage
    <3>6. CASE client_count > 1
      <4>1. pc'[q[1]] = "enterEnd"
        BY <1>3, <2>1, <3>1, <3>6
      <4>2. ~ PingedEnd(q)' /\ Ending(q[1])' /\ ~ Looping(q[1])' /\ ~ Early(q[1])'
        BY <4>1 DEF PingedEnd, Ending, Looping, Early
      <4>3. Ended(q)'
        BY <3>5, <3>6, <4>1, <4>2 DEF Ended
      <4>4. QED
        BY <2>2, <4>2, <4>3 DEF Connected, SameData, SameWire
    <3>7. CASE ~ (client_count > 1)
      <4>1. pc'[q[1]] = "done"
        BY <1>3, <2>1, <3>1, <3>7
      <4>2. Ending(q[1])' /\ ~ Looping(q[1])' /\ ~ Early(q[1])'
        BY <4>1 DEF Ending, Looping, Early
      <4>3. Ended(q)'
        BY <3>5, <3>7, <4>1 DEF Ended
      <4>4. QED
        BY <2>2, <4>2, <4>3 DEF Connected, SameData, SameWire
    <3>8. QED
      BY <3>6, <3>7
  <2>5. QED
    BY <2>3, <2>4
<1>11. QED
  BY <1>2, <1>6, <1>7, <1>9, <1>10, OneClient

LEMMA Here ==
  ASSUME IInv, NEW c \in Clients
  PROVE  /\ connIdx[c] \in Servers /\ connIdx[c] \in Int
         /\ <<c, connIdx[c]>> \in Connections
         /\ <<c, connIdx[c]>>[1] = c /\ <<c, connIdx[c]>>[2] = connIdx[c]
         /\ InLoop(c)
BY Pairs DEF IInv, Shape, ClientShape, Servers

LEMMA BeginRoundKeeps ==
  ASSUME IInv, NEW c \in Clients, BeginRound(c)
  PROVE  IInv'
<1> DEFINE q == <<c, connIdx[c]>>
<1>0. /\ connIdx[c] \in Servers /\ q \in Connections /\ InLoop(c) /\ q[1] = c /\ q[2] = connIdx[c]
      /\ pc[c] = "next"
  BY Here DEF BeginRound
<1>1. CASE DoneWith(q)
  <2>1. /\ Advance(c, workingConnections[c])
        /\ UNCHANGED <<sent, ackMsgCounter, counts, server, wire, atServer, atClient, fault>>
    BY <1>1 DEF BeginRound
  <2>2. Open(c) = {s \in Servers : ~ DoneWith(<<c, s>>)}
    BY <1>0 DEF Open
  <2>3. workingConnections[c] = Cardinality({s \in Servers : ~ DoneWith(<<c, s>>)})
    BY <1>0, <2>2 DEF InLoop
  <2>4. pc[c] \in {"next", "poll"}
    BY <1>0
  <2>5. QED
    BY <2>1, <2>3, <2>4, AdvanceKeeps
<1>2. CASE ~ DoneWith(q)
  <2> DEFINE there == IF sendBudget(q) > 0 THEN "send" ELSE "poll"
  <2>1. /\ ackMsgCounter' = [ackMsgCounter EXCEPT ![c] = ackMsgCounters[q]]
        /\ pc' = [pc EXCEPT ![c] = there]
        /\ UNCHANGED <<connIdx, workingConnections, sent, totalBudgets, pendingMessages,
                       ackMsgCounters, inFlight, ack, recvAtServer, doneAtServer,
                       recvAtClient, doneAtClient, fault>>
        /\ UNCHANGED server
    BY <1>2 DEF BeginRound, counts, wire, atServer, atClient
  <2>2. there \in {"send", "poll"} /\ (there = "send" => sendBudget(q) > 0)
    OBVIOUS
  <2> HIDE DEF there
  <2>3. ClientShape /\ CountsShape /\ ServerShape /\ ConnectionShape
    BY DEF IInv, Shape
  <2>4. Connected(q)
    BY <1>0 DEF IInv
  <2>5. ackMsgCounters[q] \in 0 .. ackMsgPacking - 1 /\ ackMsgCounters[q] \in Int
    BY <2>4 DEF Connected
  <2>6. ClientShape'
    <3>1. pc' \in [Clients -> {"enter", "ping", "pong", "ready", "next", "send", "poll",
                           "enterEnd", "pingEnd", "pongEnd", "done"}]
      BY <2>1, <2>2, <2>3 DEF ClientShape
    <3>2. ackMsgCounter' \in [Clients -> Int]
      BY <2>1, <2>3, <2>5 DEF ClientShape
    <3>3. QED
      BY <2>1, <2>3, <3>1, <3>2 DEF ClientShape
  <2>7. Shape'
    BY <2>1, <2>3, <2>6 DEF Shape, CountsShape, ServerShape, ConnectionShape, server
  <2>8. OtherClients(c)
    BY <2>1, <2>3 DEF OtherClients, ClientShape, SameWire
  <2>9. /\ pc'[c] = there /\ ackMsgCounter'[c] = ackMsgCounters[q] /\ connIdx'[c] = connIdx[c]
        /\ sent'[c] = sent[c] /\ workingConnections'[c] = workingConnections[c]
    BY <2>1, <2>3 DEF ClientShape
  <2>10. sent[c] = 0
    BY <1>0 DEF InLoop
  <2>11. InLoop(c)'
    <3>1. Open(c)' = Open(c)
      BY <1>0, <1>2, <2>1, <2>9 DEF Open, DoneWith
    <3>2. ~ DoneWith(q)' /\ sendBudget(q)' = sendBudget(q)
      BY <1>2, <2>1 DEF DoneWith, sendBudget
    <3>3. Typed(q)
      BY <1>0, Numbers
    <3>4. sendBudget(q) \in Int
      BY <3>3 DEF sendBudget, AtMost, Typed
    <3>5. there = "send" => 0 \in 0 .. sendBudget(q)
      BY <2>2, <3>4
    <3>6. <<c, connIdx'[c]>> = q
      BY <2>9
    <3>7. QED
      BY <1>0, <2>1, <2>5, <2>9, <2>10, <3>1, <3>2, <3>5, <3>6 DEF InLoop
  <2>12. ASSUME NEW p \in Of(c)
         PROVE  Connected(p)'
    <3>1. p \in Connections /\ p[1] = c
      BY DEF Of
    <3>2. SameData(p) /\ Connected(p)
      BY <2>1, <3>1 DEF SameData, SameServer, SameWire, IInv, server
    <3>3. Looping(p[1]) /\ Looping(p[1])'
      BY <1>0, <2>2, <2>9, <3>1 DEF Looping
    <3>4. SentNow(p)' = 0 /\ SentNow(p) = 0
      BY <1>0, <2>9, <2>10, <3>1 DEF SentNow
    <3>5. QED
      BY <3>1, <3>2, <3>3, <3>4, StillUnderWay
  <2>13. QED
    BY <2>1, <2>7, <2>8, <2>11, <2>12, OneClient
<1>3. QED
  BY <1>1, <1>2

LEMMA EndRoundKeeps ==
  ASSUME IInv, NEW c \in Clients, EndRound(c)
  PROVE  IInv'
<1> DEFINE q == <<c, connIdx[c]>>
           open == {s \in Servers : ~ DoneWith(<<c, s>>)}
           working == workingConnections[c] - (IF DoneWith(q) THEN 1 ELSE 0)
<1>1. /\ connIdx[c] \in Servers /\ q \in Connections /\ InLoop(c)
      /\ pc[c] = "poll"
      /\ Advance(c, working)
      /\ UNCHANGED <<sent, ackMsgCounter, counts, server, wire, atServer, atClient, fault>>
  BY Here DEF EndRound
<1>2. working = Cardinality(open)
  <2>1. IsFiniteSet(Open(c)) /\ Cardinality(Open(c)) \in Nat
    BY OpenFinite
  <2>2. workingConnections[c] = Cardinality(Open(c))
    BY <1>1 DEF InLoop
  <2>3. connIdx[c] \in Open(c)
    BY <1>1 DEF Open
  <2>4. CASE DoneWith(q)
    <3>1. open = Open(c) \ {connIdx[c]}
      BY <1>1, <2>4 DEF Open
    <3>2. Cardinality(Open(c) \ {connIdx[c]}) = Cardinality(Open(c)) - 1
      BY <2>1, <2>3, FS_RemoveElement
    <3>3. QED
      BY <2>2, <2>4, <3>1, <3>2
  <2>5. CASE ~ DoneWith(q)
    <3>1. open = Open(c)
      BY <1>1, <2>5 DEF Open
    <3>2. working = workingConnections[c] - 0
      BY <2>5
    <3> HIDE DEF working, open
    <3>3. QED
      BY <2>1, <2>2, <3>1, <3>2
  <2>6. QED
    BY <2>4, <2>5
<1>3. pc[c] \in {"next", "poll"}
  BY <1>1
<1> HIDE DEF working
<1>4. QED
  BY <1>1, <1>2, <1>3, AdvanceKeeps

LEMMA EndSendingKeeps ==
  ASSUME IInv, NEW c \in Clients, EndSending(c)
  PROVE  IInv'
<1>q. PICK q : q = <<c, connIdx[c]>>
  OBVIOUS
<1>1. /\ pc[c] = "send" /\ inFlight[q] = 0 /\ sent[c] = sendBudget(q)
      /\ totalBudgets' = [totalBudgets EXCEPT ![q] = @ - sent[c]]
      /\ pendingMessages' = [pendingMessages EXCEPT ![q] = @ + sent[c]]
      /\ sent' = [sent EXCEPT ![c] = 0]
      /\ pc' = [pc EXCEPT ![c] = "poll"]
      /\ UNCHANGED <<connIdx, ackMsgCounter, workingConnections, ackMsgCounters,
                     inFlight, ack, recvAtServer, doneAtServer, recvAtClient, doneAtClient,
                     fault>>
      /\ UNCHANGED server
  BY <1>q DEF EndSending, wire, atServer, atClient
<1>2. /\ connIdx[c] \in Servers /\ q \in Connections /\ InLoop(c) /\ q[1] = c /\ q[2] = connIdx[c]
  BY <1>q, Here
<1>3. Typed(q) /\ Connected(q) /\ Looping(q[1])
  BY <1>1, <1>2, Numbers DEF IInv, Looping
<1>4. ClientShape /\ CountsShape /\ ServerShape /\ ConnectionShape
  BY DEF IInv, Shape
<1>5. sent[c] \in Int
  BY <1>4 DEF ClientShape
<1>6. Shape'
  <2>1. ClientShape'
    BY <1>1, <1>4 DEF ClientShape
  <2>2. CountsShape'
    <3>0. totalBudgets[q] \in Int /\ pendingMessages[q] \in Int
      BY <1>3 DEF Typed
    <3>1. totalBudgets[q] - sent[c] \in Int /\ pendingMessages[q] + sent[c] \in Int
      BY <1>5, <3>0
    <3>2. /\ totalBudgets' = [totalBudgets EXCEPT ![q] = totalBudgets[q] - sent[c]]
          /\ pendingMessages' = [pendingMessages EXCEPT ![q] = pendingMessages[q] + sent[c]]
      BY <1>1
    <3>3. totalBudgets \in [Connections -> Int] /\ pendingMessages \in [Connections -> Int]
      BY <1>4 DEF CountsShape
    <3>4. totalBudgets' \in [Connections -> Int] /\ pendingMessages' \in [Connections -> Int]
      BY <3>1, <3>2, <3>3
    <3>5. QED
      BY <1>1, <1>4, <3>4 DEF CountsShape
  <2>3. QED
    BY <1>1, <1>4, <2>1, <2>2 DEF Shape, ServerShape, ConnectionShape, server
<1>7. OtherClients(c)
  BY <1>1, <1>2, <1>4 DEF OtherClients, ClientShape, CountsShape, SameWire
<1>8. /\ pc'[c] = "poll" /\ ackMsgCounter'[c] = ackMsgCounter[c] /\ connIdx'[c] = connIdx[c]
      /\ sent'[c] = 0 /\ workingConnections'[c] = workingConnections[c]
  BY <1>1, <1>4 DEF ClientShape
<1>9. /\ totalBudgets'[q] = totalBudgets[q] - sent[c]
      /\ pendingMessages'[q] = pendingMessages[q] + sent[c]
      /\ \A p \in Connections : p # q =>
           totalBudgets'[p] = totalBudgets[p] /\ pendingMessages'[p] = pendingMessages[p]
  BY <1>1, <1>2, <1>4 DEF CountsShape
<1>10. InLoop(c)'
  <2>1. Open(c)' = Open(c)
    <3>1. ~ DoneWith(q)
      BY <1>q, <1>1, <1>2 DEF InLoop
    <3>2. ASSUME NEW s \in Servers, s # connIdx[c]
          PROVE  DoneWith(<<c, s>>)' = DoneWith(<<c, s>>)
      <4>1. <<c, s>> \in Connections /\ <<c, s>> # q
        BY <1>q, <3>2, Pairs
      <4>2. QED
        BY <1>9, <4>1 DEF DoneWith
    <3>3. QED
      BY <1>q, <1>1, <1>2, <1>8, <3>1, <3>2 DEF Open
  <2>2. QED
    BY <1>1, <1>2, <1>8, <2>1 DEF InLoop
<1>11. ASSUME NEW p \in Of(c)
       PROVE  Connected(p)'
  <2>1. p \in Connections /\ p[1] = c
    BY DEF Of
  <2>2. Connected(p) /\ Looping(p[1]) /\ Looping(p[1])' /\ ~ Early(p[1])' /\ ~ Ending(p[1])'
    BY <1>1, <1>8, <2>1 DEF IInv, Looping, Early, Ending
  <2>3. CASE p # q
    <3>1. SameData(p)
      BY <1>1, <1>9, <2>1, <2>3 DEF SameData, SameServer, SameWire, server
    <3>2. p[2] # connIdx[c]
      BY <1>q, <1>2, <2>1, <2>3, Pairs
    <3>3. SentNow(p) = 0 /\ SentNow(p)' = 0
      BY <1>8, <2>1, <3>2 DEF SentNow
    <3>4. QED
      BY <2>1, <2>2, <3>1, <3>3, StillUnderWay
  <2>4. CASE p = q
    <3>1. /\ SameServer(q) /\ SameWire(q) /\ mainPc'[q[2]] = mainPc[q[2]]
          /\ ackMsgCounters'[q] = ackMsgCounters[q]
      BY <1>1 DEF SameServer, SameWire, server
    <3>2. SentNow(q) = sent[c] /\ SentNow(q)' = 0
      BY <1>1, <1>2, <1>8 DEF SentNow
    <3>3. Reposting(q)' = Reposting(q) /\ OnItsWay(q)' = OnItsWay(q) /\ Acked(q)' = Acked(q)
      BY <3>1 DEF SameServer, SameWire, Reposting, OnItsWay, Acked
    <3>4. UnderWay(q)
      BY <1>3 DEF Connected
    <3>5. Credits(q)'
      <4>1. Credits(q)
        BY <3>4 DEF UnderWay
      <4>2. pendingMessages'[q] + SentNow(q)' = pendingMessages[q] + SentNow(q)
        BY <1>3, <1>5, <1>9, <3>2 DEF Typed
      <4>3. /\ inFlight'[q] = inFlight[q] /\ doneAtServer'[q] = doneAtServer[q]
            /\ ackCounter'[q] = ackCounter[q]
        BY <3>1 DEF SameServer, SameWire
      <4>4. QED
        BY <3>3, <4>1, <4>2, <4>3 DEF Credits
    <3>6. MessagesCounted(q)'
      <4>1. totalBudget[q] + budgetR[q] + SentNow(q) = totalBudgets[q] + inFlight[q] + doneAtServer[q]
        BY <3>4 DEF UnderWay, MessagesCounted
      <4>2. /\ totalBudget'[q] = totalBudget[q] /\ budgetR'[q] = budgetR[q]
            /\ inFlight'[q] = inFlight[q] /\ doneAtServer'[q] = doneAtServer[q]
        BY <3>1 DEF SameServer, SameWire
      <4>3. /\ totalBudget[q] \in Int /\ budgetR[q] \in Int /\ totalBudgets[q] \in Int
            /\ inFlight[q] \in Int /\ doneAtServer[q] \in Int
        BY <1>3 DEF Typed
      <4> DEFINE posts == totalBudget[q] + budgetR[q]
                 now   == SentNow(q)
                 left  == totalBudgets[q]
                 under == inFlight[q]
                 there == doneAtServer[q]
      <4>4. /\ posts + now = left + under + there /\ posts \in Int /\ now \in Int
            /\ left \in Int /\ under \in Int /\ there \in Int
        BY <1>3, <4>1, <4>3 DEF Typed
      <4>5. posts + 0 = (left - now) + under + there
        <5> HIDE DEF posts, now, left, under, there
        <5>1. QED
          BY <4>4
      <4>6. totalBudgets'[q] = left - now
        BY <1>9, <3>2
      <4>7. QED
        BY <3>2, <4>2, <4>5, <4>6 DEF MessagesCounted
    <3>7. ReceivesCounted(q)' /\ WindowPosted(q)' /\ ServerSteps(q)' /\ AcksInRange(q)'
      BY <3>1, <3>3, <3>4 DEF UnderWay, ReceivesCounted, WindowPosted, ServerSteps, AcksInRange,
         PreparesBarrier, LastMessage, SameServer, SameWire
    <3>8. InRange(q)'
      <4>1. /\ totalBudgets[q] \in 0 .. IterationsPerThread /\ pendingMessages[q] >= 0
            /\ pendingMessages[q] + sent[c] <= RDMA_MAX_WR /\ sent[c] <= totalBudgets[q]
            /\ sent[c] >= 0
        <5>1. InRange(q)
          BY <3>4 DEF UnderWay
        <5>2. sent[c] \in 0 .. sendBudget(q)
          BY <1>q, <1>1, <1>2 DEF InLoop
        <5>3. QED
          BY <3>2, <5>1, <5>2 DEF InRange
      <4>2. totalBudgets'[q] \in 0 .. IterationsPerThread
        BY <1>5, <1>9, <4>1, IterationsAssumption
      <4>3. pendingMessages'[q] >= 0 /\ pendingMessages'[q] + 0 <= RDMA_MAX_WR
            /\ 0 <= totalBudgets'[q]
        BY <1>3, <1>5, <1>9, <4>1 DEF Typed
      <4>4. InRange(q)
        BY <3>4 DEF UnderWay
      <4>5. QED
        BY <3>1, <3>2, <4>2, <4>3, <4>4 DEF InRange, SameServer, SameWire
    <3>9. UnderWay(q)'
      BY <3>5, <3>6, <3>7, <3>8 DEF UnderWay
    <3>10. Connected(q)'
      BY <1>3, <2>2, <2>4, <3>1, <3>9 DEF Connected, SameWire
    <3>11. QED
      BY <2>4, <3>10
  <2>5. QED
    BY <2>3, <2>4
<1>12. QED
  BY <1>1, <1>6, <1>7, <1>10, <1>11, OneClient

LEMMA SendKeeps ==
  ASSUME IInv, NEW c \in Clients, Send(c)
  PROVE  IInv'
<1>q. PICK q : q = <<c, connIdx[c]>>
  OBVIOUS
<1>1. CASE NeedsReceive(c) /\ ~ RoomAtClient(q)
  BY <1>1, <1>q, FaultOnly DEF Send, round, counts, wire, atClient
<1>2. CASE ~ (NeedsReceive(c) /\ ~ RoomAtClient(q))
  <2> DEFINE n == IF NeedsReceive(c) THEN 1 ELSE 0
             place == IF ackMsgCounter[c] + 1 < ackMsgPacking THEN ackMsgCounter[c] + 1 ELSE 0
  <2>1. /\ pc[c] = "send" /\ sent[c] < sendBudget(q)
        /\ recvAtClient' = Plus(recvAtClient, IF NeedsReceive(c) THEN {q} ELSE {}, 1)
        /\ ackMsgCounters' = [ackMsgCounters EXCEPT ![q] = place]
        /\ inFlight' = [inFlight EXCEPT ![q] = @ + 1]
        /\ sent' = [sent EXCEPT ![c] = @ + 1]
        /\ UNCHANGED <<pc, connIdx, ackMsgCounter, workingConnections, totalBudgets,
                       pendingMessages, ack, recvAtServer, doneAtServer, doneAtClient, fault>>
        /\ UNCHANGED server
    BY <1>2, <1>q DEF Send, atServer
  <2>2. recvAtClient' = [p \in Connections |->
          IF p = q /\ NeedsReceive(c) THEN recvAtClient[p] + 1 ELSE recvAtClient[p]]
    BY <2>1 DEF Plus
  <2>3. /\ connIdx[c] \in Servers /\ q \in Connections /\ InLoop(c) /\ q[1] = c /\ q[2] = connIdx[c]
    BY <1>q, Here
  <2>4. Typed(q) /\ Connected(q) /\ Looping(q[1])
    BY <2>1, <2>3, Numbers DEF IInv, Looping
  <2>5. ClientShape /\ CountsShape /\ ServerShape /\ ConnectionShape
    BY DEF IInv, Shape
  <2>6. sent[c] \in Int /\ place \in 0 .. ackMsgPacking - 1 /\ place \in Int
    <3>1. sent[c] \in Int /\ ackMsgCounter[c] \in 0 .. ackMsgPacking - 1
      BY <2>3, <2>5 DEF ClientShape, InLoop
    <3>2. QED
      BY <3>1, Packing
  <2>n. n \in Int /\ n >= 0 /\ n <= 1
    OBVIOUS
  <2> HIDE DEF place
  <2>7. Shape'
    <3>1. ClientShape'
      BY <2>1, <2>5 DEF ClientShape
    <3>2. CountsShape'
      BY <2>1, <2>5, <2>6 DEF CountsShape
    <3>3. recvAtClient' \in [Connections -> Int]
      BY <2>2, <2>5 DEF ConnectionShape
    <3>4. inFlight' \in [Connections -> Int]
      <4>0. inFlight \in [Connections -> Int]
        BY <2>5 DEF ConnectionShape
      <4>1. inFlight[q] + 1 \in Int
        BY <2>4 DEF Typed
      <4>2. inFlight' = [inFlight EXCEPT ![q] = inFlight[q] + 1]
        BY <2>1
      <4>3. QED
        BY <4>0, <4>1, <4>2
    <3>5. ConnectionShape'
      BY <2>1, <2>5, <3>3, <3>4 DEF ConnectionShape
    <3>6. ServerShape'
      BY <2>1, <2>5 DEF ServerShape, server
    <3>7. QED
      BY <3>1, <3>2, <3>5, <3>6 DEF Shape
  <2>8. OtherClients(c)
    <3>1. \A p \in Connections : p[1] # c => p # q
      BY <2>3
    <3>2. \A p \in Connections : p # q => recvAtClient'[p] = recvAtClient[p]
      BY <2>2
    <3>3. QED
      BY <2>1, <2>5, <3>1, <3>2 DEF OtherClients, ClientShape, CountsShape, ConnectionShape, SameWire
  <2>9. /\ pc'[c] = "send" /\ ackMsgCounter'[c] = ackMsgCounter[c] /\ connIdx'[c] = connIdx[c]
        /\ sent'[c] = sent[c] + 1 /\ workingConnections'[c] = workingConnections[c]
    BY <2>1, <2>5 DEF ClientShape
  <2>10. /\ ackMsgCounters'[q] = place /\ inFlight'[q] = inFlight[q] + 1
         /\ recvAtClient'[q] = recvAtClient[q] + n
    <3>1. ackMsgCounters'[q] = place /\ inFlight'[q] = inFlight[q] + 1
      BY <2>1, <2>3, <2>5 DEF CountsShape, ConnectionShape
    <3>2. recvAtClient'[q] = IF NeedsReceive(c) THEN recvAtClient[q] + 1 ELSE recvAtClient[q]
      BY <2>2, <2>3
    <3>3. recvAtClient[q] \in Int
      BY <2>4 DEF Typed
    <3>4. QED
      BY <3>1, <3>2, <3>3
  <2> HIDE DEF n
  <2>11. sent[c] + 1 \in 0 .. sendBudget(q)
    <3>1. sendBudget(q) \in Int
      BY <2>4 DEF sendBudget, AtMost, Typed
    <3>2. sent[c] \in 0 .. sendBudget(q)
      BY <1>q, <2>1, <2>3 DEF InLoop
    <3>3. QED
      BY <2>1, <2>6, <3>1, <3>2
  <2>12. InLoop(c)'
    <3>1. Open(c)' = Open(c)
      BY <2>1 DEF Open, DoneWith
    <3>2. sendBudget(<<c, connIdx[c]>>)' = sendBudget(<<c, connIdx[c]>>)
          /\ DoneWith(<<c, connIdx[c]>>)' = DoneWith(<<c, connIdx[c]>>)
      BY <2>1 DEF sendBudget, DoneWith
    <3>3. sent'[c] \in 0 .. sendBudget(<<c, connIdx[c]>>)'
      BY <1>q, <2>9, <2>11, <3>2
    <3>4. QED
      BY <2>1, <2>3, <2>9, <3>1, <3>2, <3>3 DEF InLoop
  <2>13. ASSUME NEW p \in Of(c), p # q
         PROVE  Connected(p)'
    <3>1. p \in Connections /\ p[1] = c
      BY DEF Of
    <3>2. Connected(p) /\ Looping(p[1]) /\ Looping(p[1])'
      BY <2>1, <3>1 DEF IInv, Looping
    <3>3. recvAtClient'[p] = recvAtClient[p]
      BY <2>2, <2>13, <3>1
    <3>4. inFlight'[p] = inFlight[p] /\ ackMsgCounters'[p] = ackMsgCounters[p]
      BY <2>1, <2>5, <2>13, <3>1 DEF CountsShape, ConnectionShape
    <3>5. SameData(p)
      BY <2>1, <3>3, <3>4 DEF SameData, SameServer, SameWire, server
    <3>6. p[2] # connIdx[c]
      BY <1>q, <2>3, <2>13, <3>1, Pairs
    <3>7. SentNow(p) = 0 /\ SentNow(p)' = 0
      BY <2>9, <3>1, <3>6 DEF SentNow
    <3>8. QED
      BY <3>1, <3>2, <3>5, <3>7, StillUnderWay
  <2>14. Connected(q)'
    <3>1. /\ totalBudgets'[q] = totalBudgets[q] /\ pendingMessages'[q] = pendingMessages[q]
          /\ SameServer(q) /\ mainPc'[q[2]] = mainPc[q[2]]
          /\ ack'[q] = ack[q] /\ recvAtServer'[q] = recvAtServer[q]
          /\ doneAtServer'[q] = doneAtServer[q] /\ doneAtClient'[q] = doneAtClient[q]
      BY <2>1 DEF SameServer, server
    <3>2. SentNow(q) = sent[c] /\ SentNow(q)' = sent[c] + 1
      BY <2>1, <2>3, <2>9 DEF SentNow
    <3>3. Reposting(q)' = Reposting(q) /\ OnItsWay(q)' = OnItsWay(q) /\ Acked(q)' = Acked(q)
      BY <3>1 DEF SameServer, Reposting, OnItsWay, Acked
    <3>4. UnderWay(q)
      BY <2>4 DEF Connected
    <3>5. Credits(q)'
      <4>1. Credits(q)
        BY <3>4 DEF UnderWay
      <4> DEFINE pending == pendingMessages[q]
                 now     == SentNow(q)
                 under   == inFlight[q]
                 rest    == doneAtServer[q]
                 more1   == Reposting(q)
                 more2   == ackCounter[q]
                 more3   == OnItsWay(q)
                 more4   == Acked(q)
      <4>2. /\ pending + now = under + rest + more1 + more2 + more3 + more4
            /\ pending \in Int /\ now \in Int /\ under \in Int /\ rest \in Int /\ more1 \in Int
            /\ more2 \in Int /\ more3 \in Int /\ more4 \in Int
        BY <2>4, <4>1 DEF Credits, Typed
      <4>3. pending + (now + 1) = (under + 1) + rest + more1 + more2 + more3 + more4
        <5> HIDE DEF pending, now, under, rest, more1, more2, more3, more4
        <5>1. QED
          BY <4>2
      <4>4. ackCounter'[q] = ackCounter[q]
        BY <3>1 DEF SameServer
      <4>5. QED
        BY <2>10, <3>1, <3>2, <3>3, <4>3, <4>4 DEF Credits
    <3>6. MessagesCounted(q)'
      <4>1. totalBudget[q] + budgetR[q] + SentNow(q) = totalBudgets[q] + inFlight[q] + doneAtServer[q]
        BY <3>4 DEF UnderWay, MessagesCounted
      <4>2. totalBudget'[q] = totalBudget[q] /\ budgetR'[q] = budgetR[q]
        BY <3>1 DEF SameServer
      <4>3. /\ totalBudget[q] \in Int /\ budgetR[q] \in Int /\ totalBudgets[q] \in Int
            /\ inFlight[q] \in Int /\ doneAtServer[q] \in Int
        BY <2>4 DEF Typed
      <4> DEFINE posts == totalBudget[q] + budgetR[q]
                 now   == SentNow(q)
                 left  == totalBudgets[q]
                 under == inFlight[q]
                 there == doneAtServer[q]
      <4>4. /\ posts + now = left + under + there /\ posts \in Int /\ now \in Int
            /\ left \in Int /\ under \in Int /\ there \in Int
        BY <2>4, <4>1, <4>3 DEF Typed
      <4>5. posts + (now + 1) = left + (under + 1) + there
        <5> HIDE DEF posts, now, left, under, there
        <5>1. QED
          BY <4>4
      <4>6. QED
        BY <2>10, <3>1, <3>2, <4>2, <4>5 DEF MessagesCounted
    <3>7. ReceivesCounted(q)' /\ WindowPosted(q)' /\ ServerSteps(q)' /\ AcksInRange(q)'
      BY <3>1, <3>3, <3>4 DEF UnderWay, ReceivesCounted, WindowPosted, ServerSteps, AcksInRange,
         PreparesBarrier, LastMessage, SameServer
    <3>8. InRange(q)'
      <4>1. InRange(q)
        BY <3>4 DEF UnderWay
      <4>2. pendingMessages[q] + (sent[c] + 1) <= RDMA_MAX_WR /\ sent[c] + 1 <= totalBudgets[q]
        BY <2>4, <2>6, <2>11 DEF sendBudget, AtMost, Typed
      <4>3. inFlight[q] + 1 >= 0
        BY <2>4, <4>1 DEF InRange, Typed
      <4>4. QED
        BY <2>10, <3>1, <3>2, <4>1, <4>2, <4>3 DEF InRange, SameServer
    <3>9. UnderWay(q)'
      BY <3>5, <3>6, <3>7, <3>8 DEF UnderWay
    <3>10. Len(doneAtClient[q]) \in Int
      BY <2>3, <2>5 DEF ConnectionShape
    <3>11. recvAtClient[q] >= 0 /\ recvAtClient[q] + Len(doneAtClient[q]) <= RDMA_MAX_WR
      BY <2>4 DEF Connected
    <3>12. n = 1 => recvAtClient[q] + Len(doneAtClient[q]) < RDMA_MAX_WR
      BY <1>2 DEF RoomAtClient, n
    <3>13. recvAtClient'[q] >= 0 /\ recvAtClient'[q] + Len(doneAtClient[q]) <= RDMA_MAX_WR
      <4>1. recvAtClient[q] \in Int /\ RDMA_MAX_WR \in Int
        BY <2>4 DEF Typed
      <4>2. n = 0 \/ n = 1
        BY <2>n
      <4>3. QED
        BY <2>10, <3>10, <3>11, <3>12, <4>1, <4>2
    <3>14. ~ Early(q[1])' /\ ~ Ending(q[1])'
      BY <2>3, <2>9 DEF Early, Ending
    <3>15. QED
      BY <2>6, <2>10, <3>1, <3>9, <3>13, <3>14 DEF Connected
  <2>15. \A p \in Of(c) : Connected(p)'
    BY <2>13, <2>14
  <2>16. QED
    BY <2>1, <2>7, <2>8, <2>12, <2>15, OneClient
<1>3. QED
  BY <1>1, <1>2

LEMMA PollAckKeeps ==
  ASSUME IInv, NEW c \in Clients, PollAck(c)
  PROVE  IInv'
<1>q. PICK q : q = <<c, connIdx[c]>>
  OBVIOUS
<1>1. /\ pc[c] = "poll" /\ doneAtClient[q] # <<>>
      /\ pendingMessages' = [pendingMessages EXCEPT ![q] = @ - Head(doneAtClient[q])]
      /\ doneAtClient' = [doneAtClient EXCEPT ![q] = Tail(@)]
      /\ UNCHANGED <<pc, connIdx, sent, ackMsgCounter, workingConnections, totalBudgets,
                     ackMsgCounters, inFlight, ack, recvAtServer, doneAtServer,
                     recvAtClient, fault>>
      /\ UNCHANGED server
  BY <1>q DEF PollAck, round, wire, atServer
<1>2. /\ connIdx[c] \in Servers /\ q \in Connections /\ InLoop(c) /\ q[1] = c /\ q[2] = connIdx[c]
  BY <1>q, Here
<1>3. Typed(q) /\ Connected(q) /\ Looping(q[1])
  BY <1>1, <1>2, Numbers DEF IInv, Looping
<1>4. ClientShape /\ CountsShape /\ ServerShape /\ ConnectionShape
  BY DEF IInv, Shape
<1>5. UnderWay(q)
  BY <1>3 DEF Connected
<1>d. doneAtClient[q] \in Seq(Int)
  BY <1>2, <1>4 DEF ConnectionShape
<1>6. PICK imm \in 1 .. ackMsgPacking : imm = doneAtClient[q][1] /\ imm = Head(doneAtClient[q])
  <2>1. 1 \in DOMAIN doneAtClient[q] /\ Head(doneAtClient[q]) = doneAtClient[q][1]
    BY <1>1, <1>d
  <2>2. AcksInRange(q)
    BY <1>5 DEF UnderWay
  <2>3. QED
    BY <2>1, <2>2 DEF AcksInRange
<1>7. imm \in Int /\ imm \in Nat /\ imm >= 1
  BY Packing
<1>8. /\ Tail(doneAtClient[q]) \in Seq(Int)
      /\ Len(Tail(doneAtClient[q])) = Len(doneAtClient[q]) - 1
      /\ Len(doneAtClient[q]) \in Int
  BY <1>1, <1>d
<1>9. Shape'
  <2>1. ClientShape' /\ ServerShape'
    BY <1>1, <1>4 DEF ClientShape, ServerShape, server
  <2>2. pendingMessages[q] - imm \in Int
    BY <1>3, <1>7 DEF Typed
  <2>3. pendingMessages' = [pendingMessages EXCEPT ![q] = pendingMessages[q] - imm]
    BY <1>1, <1>6
  <2>4. pendingMessages' \in [Connections -> Int]
    BY <1>4, <2>2, <2>3 DEF CountsShape
  <2>5. CountsShape'
    BY <1>1, <1>4, <2>4 DEF CountsShape
  <2>6. doneAtClient' = [doneAtClient EXCEPT ![q] = Tail(doneAtClient[q])]
    BY <1>1
  <2>7. doneAtClient' \in [Connections -> Seq(Int)]
    BY <1>4, <1>8, <2>6 DEF ConnectionShape
  <2>8. ConnectionShape'
    BY <1>1, <1>4, <2>7 DEF ConnectionShape
  <2>9. QED
    BY <2>1, <2>5, <2>8 DEF Shape
<1>10. /\ pendingMessages'[q] = pendingMessages[q] - imm
       /\ doneAtClient'[q] = Tail(doneAtClient[q])
       /\ \A p \in Connections : p # q =>
            pendingMessages'[p] = pendingMessages[p] /\ doneAtClient'[p] = doneAtClient[p]
  BY <1>1, <1>2, <1>4, <1>6 DEF CountsShape, ConnectionShape
<1>11. OtherClients(c)
  <2>1. \A p \in Connections : p[1] # c => p # q
    BY <1>2
  <2>2. QED
    BY <1>1, <1>10, <2>1 DEF OtherClients, SameWire
<1>12. InLoop(c)'
  <2>1. Open(c)' = Open(c)
    <3>1. ASSUME NEW s \in Servers, s # connIdx[c]
          PROVE  DoneWith(<<c, s>>)' = DoneWith(<<c, s>>)
      <4>1. <<c, s>> \in Connections /\ <<c, s>> # q
        BY <1>q, <3>1, Pairs
      <4>2. QED
        BY <1>1, <1>10, <4>1 DEF DoneWith
    <3>2. QED
      BY <1>1, <1>2, <3>1 DEF Open
  <2>2. QED
    BY <1>1, <1>2, <2>1 DEF InLoop
<1>13. ASSUME NEW p \in Of(c), p # q
       PROVE  Connected(p)'
  <2>1. p \in Connections /\ p[1] = c
    BY DEF Of
  <2>2. Connected(p) /\ Looping(p[1]) /\ Looping(p[1])'
    BY <1>1, <2>1 DEF IInv, Looping
  <2>3. pendingMessages'[p] = pendingMessages[p] /\ doneAtClient'[p] = doneAtClient[p]
    BY <1>10, <1>13, <2>1
  <2>4. SameData(p)
    BY <1>1, <2>3 DEF SameData, SameServer, SameWire, server
  <2>5. SentNow(p)' = SentNow(p)
    BY <1>1 DEF SentNow
  <2>6. QED
    BY <2>1, <2>2, <2>4, <2>5, StillUnderWay
<1>14. Connected(q)'
  <2>1. /\ totalBudgets'[q] = totalBudgets[q] /\ ackMsgCounters'[q] = ackMsgCounters[q]
        /\ SameServer(q) /\ mainPc'[q[2]] = mainPc[q[2]]
        /\ ack'[q] = ack[q] /\ recvAtServer'[q] = recvAtServer[q]
        /\ doneAtServer'[q] = doneAtServer[q] /\ inFlight'[q] = inFlight[q]
        /\ recvAtClient'[q] = recvAtClient[q]
    BY <1>1 DEF SameServer, server
  <2>2. SentNow(q) = 0 /\ SentNow(q)' = 0
    BY <1>1, <1>2 DEF SentNow
  <2>3. Reposting(q)' = Reposting(q) /\ OnItsWay(q)' = OnItsWay(q)
    BY <2>1 DEF SameServer, Reposting, OnItsWay
  <2>4. Acked(q) = imm + Acked(q)' /\ Acked(q)' \in Nat
    <3>1. Acked(q)' = Cardinality(Messages(Tail(doneAtClient[q])))
      BY <1>10 DEF Acked
    <3>2. Cardinality(Messages(doneAtClient[q])) =
            doneAtClient[q][1] + Cardinality(Messages(Tail(doneAtClient[q])))
      BY <1>1, <1>d, <1>6, <1>7, MessagesTail
    <3>3. Cardinality(Messages(Tail(doneAtClient[q]))) \in Nat
      BY <1>8, MessagesFinite
    <3>4. QED
      BY <1>6, <3>1, <3>2, <3>3 DEF Acked
  <2>5. Credits(q)' /\ pendingMessages'[q] >= 0 /\ pendingMessages'[q] <= pendingMessages[q]
    <3>1. Credits(q) /\ InRange(q) /\ ServerSteps(q)
      BY <1>5 DEF UnderWay
    <3> DEFINE pending == pendingMessages[q]
               i1 == inFlight[q]
               i2 == doneAtServer[q]
               i3 == Reposting(q)
               i4 == ackCounter[q]
               i5 == OnItsWay(q)
               i6 == Acked(q)'
    <3>2. /\ pending \in Int /\ i1 \in Int /\ i2 \in Int /\ i3 \in Int /\ i4 \in Int /\ i5 \in Int
          /\ i6 \in Nat
      BY <1>3, <2>4 DEF Typed
    <3>3. i1 >= 0 /\ i2 >= 0 /\ i3 >= 0 /\ i4 >= 0 /\ i5 >= 0
      <4>1. i1 >= 0 /\ i2 >= 0 /\ i3 >= 0
        BY <3>1 DEF InRange, Reposting
      <4>2. i4 >= 0
        BY <3>1, Packing DEF ServerSteps
      <4>3. i5 >= 0
        BY <3>1, Packing DEF ServerSteps, OnItsWay
      <4>4. QED
        BY <4>1, <4>2, <4>3
    <3>4. pending + 0 = i1 + i2 + i3 + i4 + i5 + (imm + i6)
      BY <2>2, <2>4, <3>1 DEF Credits
    <3>5. /\ (pending - imm) + 0 = i1 + i2 + i3 + i4 + i5 + i6
          /\ pending - imm >= 0 /\ pending - imm <= pending
      <4> HIDE DEF pending, i1, i2, i3, i4, i5, i6
      <4>1. QED
        BY <1>7, <3>2, <3>3, <3>4
    <3>6. ackCounter'[q] = ackCounter[q]
      BY <2>1 DEF SameServer
    <3>7. Credits(q)'
      BY <1>10, <2>1, <2>2, <2>3, <3>5, <3>6 DEF Credits
    <3>8. QED
      BY <1>10, <3>5, <3>7
  <2>6. MessagesCounted(q)'
    BY <1>5, <2>1, <2>2 DEF UnderWay, MessagesCounted, SameServer
  <2>7. ReceivesCounted(q)' /\ WindowPosted(q)' /\ ServerSteps(q)'
    BY <1>5, <2>1, <2>3 DEF UnderWay, ReceivesCounted, WindowPosted, ServerSteps,
       PreparesBarrier, LastMessage, SameServer
  <2>8. AcksInRange(q)'
    <3>1. AcksInRange(q)
      BY <1>5 DEF UnderWay
    <3>2. \A i \in DOMAIN Tail(doneAtClient[q]) : Tail(doneAtClient[q])[i] \in 1 .. ackMsgPacking
      BY <1>1, <1>d, <3>1, AllButFirst DEF AcksInRange
    <3>3. QED
      BY <1>10, <3>2 DEF AcksInRange
  <2>9. InRange(q)'
    <3>1. InRange(q)
      BY <1>5 DEF UnderWay
    <3>2. pendingMessages[q] + 0 <= RDMA_MAX_WR
      BY <2>2, <3>1 DEF InRange
    <3>3. pendingMessages'[q] + 0 <= RDMA_MAX_WR
      BY <1>3, <1>7, <1>10, <3>2 DEF Typed
    <3>4. QED
      BY <2>1, <2>2, <2>5, <3>1, <3>3 DEF InRange, SameServer
  <2>10. UnderWay(q)'
    BY <2>5, <2>6, <2>7, <2>8, <2>9 DEF UnderWay
  <2>11. recvAtClient'[q] >= 0 /\ recvAtClient'[q] + Len(doneAtClient'[q]) <= RDMA_MAX_WR
    <3>1. recvAtClient[q] >= 0 /\ recvAtClient[q] + Len(doneAtClient[q]) <= RDMA_MAX_WR
      BY <1>3 DEF Connected
    <3>2. recvAtClient[q] \in Int /\ RDMA_MAX_WR \in Int
      BY <1>3 DEF Typed
    <3>3. QED
      BY <1>8, <1>10, <2>1, <3>1, <3>2
  <2>12. ~ Early(q[1])' /\ ~ Ending(q[1])'
    BY <1>1, <1>2 DEF Early, Ending
  <2>13. QED
    BY <1>3, <2>1, <2>10, <2>11, <2>12 DEF Connected
<1>15. \A p \in Of(c) : Connected(p)'
  BY <1>13, <1>14
<1>16. QED
  BY <1>1, <1>9, <1>11, <1>12, <1>15, OneClient

-----------------------------------------------------------------------------
(* The barriers.                                                           *)

LEMMA EnterBarrierKeeps ==
  ASSUME IInv, NEW c \in Clients, EnterBarrier(c)
  PROVE  IInv'
<1>1. CASE ~ (\A q \in Of(c) : RoomAtClient(q))
  BY <1>1, FaultOnly DEF EnterBarrier, round, atClient
<1>2. CASE \A q \in Of(c) : RoomAtClient(q)
  <2> DEFINE there == IF pc[c] = "enter" THEN "ping" ELSE "pingEnd"
  <2>1. /\ pc[c] \in {"enter", "enterEnd"}
        /\ recvAtClient' = [q \in Connections |->
             IF q \in Of(c) THEN recvAtClient[q] + 1 ELSE recvAtClient[q]]
        /\ pc' = [pc EXCEPT ![c] = there]
        /\ connIdx' = [connIdx EXCEPT ![c] = 1]
        /\ UNCHANGED <<sent, ackMsgCounter, workingConnections, totalBudgets,
                       pendingMessages, ackMsgCounters, inFlight, ack, recvAtServer,
                       doneAtServer, doneAtClient, fault>>
        /\ UNCHANGED server
    BY <1>2 DEF EnterBarrier, Plus, counts, wire, atServer
  <2>2. ClientShape /\ CountsShape /\ ServerShape /\ ConnectionShape
    BY DEF IInv, Shape
  <2>3. Shape'
    <3>1. pc' \in [Clients -> {"enter", "ping", "pong", "ready", "next", "send", "poll",
                           "enterEnd", "pingEnd", "pongEnd", "done"}]
      BY <2>1, <2>2 DEF ClientShape
    <3>2. connIdx' \in [Clients -> Servers]
      BY <2>1, <2>2, LimitAssumption DEF ClientShape, Servers
    <3>3. recvAtClient' \in [Connections -> Int]
      BY <2>1, <2>2 DEF ConnectionShape
    <3>4. ClientShape'
      BY <2>1, <2>2, <3>1, <3>2 DEF ClientShape
    <3>5. ConnectionShape'
      BY <2>1, <2>2, <3>3 DEF ConnectionShape
    <3>6. QED
      BY <2>1, <2>2, <3>4, <3>5 DEF Shape, CountsShape, ServerShape, server
  <2>4. OtherClients(c)
    <3>1. \A q \in Connections : q[1] # c => recvAtClient'[q] = recvAtClient[q]
      BY <2>1 DEF Of
    <3>2. QED
      BY <2>1, <2>2, <3>1 DEF OtherClients, ClientShape, SameWire
  <2>5. /\ pc'[c] = there /\ connIdx'[c] = 1 /\ ackMsgCounter'[c] = ackMsgCounter[c]
        /\ sent'[c] = sent[c] /\ workingConnections'[c] = workingConnections[c]
    BY <2>1, <2>2 DEF ClientShape
  <2>6. InLoop(c)'
    <3>1. InLoop(c)
      BY DEF IInv
    <3>2. Open(c)' = Open(c)
      BY <2>1, <2>5 DEF Open, DoneWith
    <3>3. QED
      BY <2>1, <2>5, <3>1, <3>2 DEF InLoop
  <2>7. ASSUME NEW q \in Of(c)
        PROVE  Connected(q)'
    <3>1. q \in Connections /\ q[1] = c /\ q[2] \in Servers
      BY Pairs DEF Of
    <3>2. Connected(q) /\ Typed(q)
      BY <3>1, Numbers DEF IInv
    <3>3. /\ totalBudgets'[q] = totalBudgets[q] /\ pendingMessages'[q] = pendingMessages[q]
          /\ ackMsgCounters'[q] = ackMsgCounters[q]
          /\ SameServer(q) /\ mainPc'[q[2]] = mainPc[q[2]]
          /\ inFlight'[q] = inFlight[q] /\ ack'[q] = ack[q]
          /\ recvAtServer'[q] = recvAtServer[q] /\ doneAtServer'[q] = doneAtServer[q]
          /\ doneAtClient'[q] = doneAtClient[q]
      BY <2>1 DEF SameServer, server
    <3>4. recvAtClient'[q] = recvAtClient[q] + 1
      BY <2>1, <3>1
    <3>5. recvAtClient'[q] >= 0 /\ recvAtClient'[q] + Len(doneAtClient'[q]) <= RDMA_MAX_WR
      <4>1. RoomAtClient(q) /\ recvAtClient[q] >= 0
        BY <1>2, <3>2 DEF Connected
      <4>2. Len(doneAtClient[q]) \in Int
        BY <2>2, <3>1 DEF ConnectionShape
      <4>3. recvAtClient[q] \in Int /\ RDMA_MAX_WR \in Int
        BY <3>2 DEF Typed
      <4>4. QED
        BY <3>3, <3>4, <4>1, <4>2, <4>3 DEF RoomAtClient
    <3>6. CASE pc[c] = "enter"
      <4>1. pc'[q[1]] = "ping" /\ connIdx'[q[1]] = 1
        BY <2>5, <3>1, <3>6
      <4>2. ~ Pinged(q) /\ ~ Pinged(q)'
        BY <3>1, <3>6, <4>1 DEF Pinged, Servers
      <4>3. NotBegun(q)
        BY <3>1, <3>2, <3>6 DEF Connected, Early
      <4>4. /\ mainPc[q[2]] # "join"
            /\ recvAtClient'[q] = 1
        BY <3>1, <3>4, <3>6, <4>2, <4>3 DEF NotBegun
      <4>5. NotBegun(q)'
        BY <3>3, <4>1, <4>2, <4>3, <4>4 DEF NotBegun, SameServer
      <4>6. ~ Looping(q[1])' /\ ~ Ending(q[1])'
        BY <4>1 DEF Looping, Ending
      <4>7. QED
        BY <3>2, <3>3, <3>5, <4>5, <4>6 DEF Connected
    <3>7. CASE pc[c] = "enterEnd"
      <4>1. pc'[q[1]] = "pingEnd" /\ connIdx'[q[1]] = 1
        BY <2>5, <3>1, <3>7
      <4>2. ~ PingedEnd(q) /\ ~ PingedEnd(q)'
        BY <3>1, <3>7, <4>1 DEF PingedEnd, Servers
      <4>3. Ended(q)
        BY <3>1, <3>2, <3>7 DEF Connected, Ending
      <4>4. /\ client_count > 1 /\ mainPc[q[2]] # "done" /\ recvAtClient'[q] > 0
        <5>1. recvAtClient[q] >= 0 /\ recvAtClient[q] \in Int
          BY <3>2 DEF Connected, Typed
        <5>2. recvAtClient'[q] > 0
          BY <3>4, <5>1
        <5>3. QED
          BY <3>1, <3>7, <4>2, <4>3, <5>2 DEF Ended
      <4>5. Ended(q)'
        BY <3>1, <3>3, <3>7, <4>1, <4>2, <4>3, <4>4 DEF Ended, LastMessage, SameServer
      <4>6. ~ Looping(q[1])' /\ ~ Early(q[1])'
        BY <4>1 DEF Looping, Early
      <4>7. QED
        BY <3>2, <3>3, <3>5, <4>5, <4>6 DEF Connected
    <3>8. QED
      BY <2>1, <3>6, <3>7
  <2>8. QED
    BY <2>1, <2>3, <2>4, <2>6, <2>7, OneClient
<1>3. QED
  BY <1>1, <1>2

LEMMA PingKeeps ==
  ASSUME IInv, NEW c \in Clients, Ping(c)
  PROVE  IInv'
<1>q. PICK q : q = <<c, connIdx[c]>>
  OBVIOUS
<1>1. /\ pc[c] \in {"ping", "pingEnd"} /\ Slept(c)
      /\ connIdx[c] \in Servers /\ q \in Connections /\ InLoop(c) /\ q[1] = c /\ q[2] = connIdx[c]
      /\ connIdx[c] \in Int
  BY <1>q, Here DEF Ping
<1>2. Typed(q) /\ Connected(q)
  BY <1>1, Numbers DEF IInv
<1>3. recvAtServer[q] = 1 /\ doneAtServer[q] = 0
  <2>1. CASE pc[c] = "ping"
    <3>1. NotBegun(q) /\ ~ Pinged(q)
      BY <1>1, <1>2, <2>1 DEF Connected, Early, Pinged
    <3>2. mainPc[q[2]] = "barrier"
      BY <1>1, <2>1, <3>1 DEF NotBegun, Slept
    <3>3. QED
      BY <3>1, <3>2 DEF NotBegun
  <2>2. CASE pc[c] = "pingEnd"
    <3>1. Ended(q) /\ ~ PingedEnd(q)
      BY <1>1, <1>2, <2>2 DEF Connected, Ending, PingedEnd
    <3>2. QED
      BY <1>1, <2>2, <3>1 DEF Ended
  <2>3. QED
    BY <1>1, <2>1, <2>2
<1> DEFINE last == connIdx[c] = ServerCount
           there == IF ~ last THEN pc[c] ELSE IF pc[c] = "ping" THEN "pong" ELSE "pongEnd"
           following == IF last THEN 1 ELSE connIdx[c] + 1
<1>4. /\ recvAtServer' = [recvAtServer EXCEPT ![q] = @ - 1]
      /\ doneAtServer' = [doneAtServer EXCEPT ![q] = @ + 1]
      /\ connIdx' = [connIdx EXCEPT ![c] = following]
      /\ pc' = [pc EXCEPT ![c] = there]
      /\ UNCHANGED <<sent, ackMsgCounter, workingConnections, totalBudgets,
                     pendingMessages, ackMsgCounters, inFlight, ack, recvAtClient,
                     doneAtClient, fault>>
      /\ UNCHANGED server
  BY <1>q, <1>3 DEF Ping, counts, wire, atClient
<1>5. /\ there \in {"ping", "pong", "pingEnd", "pongEnd"}
      /\ following \in Servers
      /\ pc[c] = "ping" => there = IF last THEN "pong" ELSE "ping"
      /\ pc[c] = "pingEnd" => there = IF last THEN "pongEnd" ELSE "pingEnd"
      /\ ~ last => following = connIdx[c] + 1
      /\ last => connIdx[c] = ServerCount
  BY <1>1, LimitAssumption DEF Servers
<1> HIDE DEF last, there, following
<1>6. ClientShape /\ CountsShape /\ ServerShape /\ ConnectionShape
  BY DEF IInv, Shape
<1>7. Shape'
  <2>1. ClientShape'
    BY <1>4, <1>5, <1>6 DEF ClientShape
  <2>2. recvAtServer' \in [Connections -> Int] /\ doneAtServer' \in [Connections -> Int]
    <3>1. recvAtServer[q] - 1 \in Int /\ doneAtServer[q] + 1 \in Int
      BY <1>3
    <3>2. /\ recvAtServer' = [recvAtServer EXCEPT ![q] = recvAtServer[q] - 1]
          /\ doneAtServer' = [doneAtServer EXCEPT ![q] = doneAtServer[q] + 1]
      BY <1>4
    <3>3. recvAtServer \in [Connections -> Int] /\ doneAtServer \in [Connections -> Int]
      BY <1>6 DEF ConnectionShape
    <3>4. QED
      BY <3>1, <3>2, <3>3
  <2>3. ConnectionShape'
    BY <1>4, <1>6, <2>2 DEF ConnectionShape
  <2>4. QED
    BY <1>4, <1>6, <2>1, <2>3 DEF Shape, CountsShape, ServerShape, server
<1>8. \A p \in Connections : p # q =>
        recvAtServer'[p] = recvAtServer[p] /\ doneAtServer'[p] = doneAtServer[p]
  BY <1>4, <1>6 DEF ConnectionShape
<1>9. OtherClients(c)
  <2>1. \A p \in Connections : p[1] # c => p # q
    BY <1>1
  <2>2. QED
    BY <1>4, <1>6, <1>8, <2>1 DEF OtherClients, ClientShape, SameWire
<1>10. /\ pc'[c] = there /\ connIdx'[c] = following /\ ackMsgCounter'[c] = ackMsgCounter[c]
       /\ sent'[c] = sent[c] /\ workingConnections'[c] = workingConnections[c]
  BY <1>4, <1>6 DEF ClientShape
<1>11. InLoop(c)'
  <2>1. Open(c)' = Open(c)
    BY <1>1, <1>4, <1>5, <1>10 DEF Open, DoneWith
  <2>2. QED
    BY <1>1, <1>4, <1>5, <1>10, <2>1 DEF InLoop
<1>12. ASSUME NEW p \in Of(c)
       PROVE  Connected(p)'
  <2>1. p \in Connections /\ p[1] = c /\ p[2] \in Servers /\ p[2] \in Int
    BY Pairs DEF Of, Servers
  <2>2. Connected(p)
    BY <2>1 DEF IInv
  <2>3. /\ totalBudgets'[p] = totalBudgets[p] /\ pendingMessages'[p] = pendingMessages[p]
        /\ ackMsgCounters'[p] = ackMsgCounters[p]
        /\ SameServer(p) /\ mainPc'[p[2]] = mainPc[p[2]]
        /\ inFlight'[p] = inFlight[p] /\ ack'[p] = ack[p]
        /\ recvAtClient'[p] = recvAtClient[p] /\ doneAtClient'[p] = doneAtClient[p]
    BY <1>4 DEF SameServer, server
  <2>4. p = q <=> p[2] = connIdx[c]
    BY <1>q, <1>1, <2>1, Pairs
  <2>5. last => p[2] <= connIdx[c]
    BY <1>5, <2>1 DEF Servers
  <2>6. IF p = q THEN recvAtServer'[p] = 0 /\ doneAtServer'[p] = 1
        ELSE recvAtServer'[p] = recvAtServer[p] /\ doneAtServer'[p] = doneAtServer[p]
    BY <1>1, <1>3, <1>4, <1>6, <1>8, <2>1 DEF ConnectionShape
  <2>7. CASE pc[c] = "ping"
    <3>1. pc[p[1]] = "ping" /\ pc'[p[1]] \in {"ping", "pong"}
      BY <1>5, <1>10, <2>1, <2>7
    <3>2. IF p = q THEN ~ Pinged(p) /\ Pinged(p)' ELSE Pinged(p)' <=> Pinged(p)
      <4>1. CASE last
        <5>1. pc'[p[1]] = "pong"
          BY <1>5, <1>10, <2>1, <2>7, <4>1
        <5>2. QED
          BY <1>1, <2>1, <2>4, <2>5, <2>7, <4>1, <5>1 DEF Pinged
      <4>2. CASE ~ last
        <5>1. pc'[p[1]] = "ping" /\ connIdx'[p[1]] = connIdx[c] + 1
          BY <1>5, <1>10, <2>1, <2>7, <4>2
        <5>2. p[2] < connIdx[c] + 1 <=> p[2] < connIdx[c] \/ p[2] = connIdx[c]
          BY <1>1, <2>1
        <5>3. Pinged(p)' <=> p[2] < connIdx[c] + 1
          BY <5>1 DEF Pinged
        <5>4. Pinged(p) <=> p[2] < connIdx[c]
          BY <2>1, <2>7 DEF Pinged
        <5>5. p = q => ~ (p[2] < connIdx[c])
          BY <1>1, <2>4
        <5>6. p = q => ~ Pinged(p) /\ Pinged(p)'
          BY <2>4, <5>2, <5>3, <5>4, <5>5
        <5>7. p # q => (Pinged(p)' <=> Pinged(p))
          BY <2>4, <5>2, <5>3, <5>4
        <5>8. QED
          BY <5>6, <5>7
      <4>3. QED
        BY <4>1, <4>2
    <3>3. NotBegun(p)
      BY <2>1, <2>2, <2>7 DEF Connected, Early
    <3>4. NotBegun(p)'
      <4>1. CASE p = q
        <5>1. mainPc[p[2]] = "barrier"
          BY <1>1, <2>4, <2>7, <3>2, <3>3, <4>1 DEF NotBegun, Slept
        <5>2. QED
          BY <2>3, <2>6, <3>1, <3>2, <3>3, <4>1, <5>1 DEF NotBegun, SameServer
      <4>2. CASE p # q
        BY <2>3, <2>6, <3>1, <3>2, <3>3, <4>2 DEF NotBegun, SameServer
      <4>3. QED
        BY <4>1, <4>2
    <3>5. ~ Looping(p[1])' /\ ~ Ending(p[1])'
      BY <3>1 DEF Looping, Ending
    <3>6. QED
      BY <2>2, <2>3, <3>4, <3>5 DEF Connected
  <2>8. CASE pc[c] = "pingEnd"
    <3>1. pc[p[1]] = "pingEnd" /\ pc'[p[1]] \in {"pingEnd", "pongEnd"}
      BY <1>5, <1>10, <2>1, <2>8
    <3>2. IF p = q THEN ~ PingedEnd(p) /\ PingedEnd(p)' ELSE PingedEnd(p)' <=> PingedEnd(p)
      <4>1. CASE last
        <5>1. pc'[p[1]] = "pongEnd"
          BY <1>5, <1>10, <2>1, <2>8, <4>1
        <5>2. QED
          BY <1>1, <2>1, <2>4, <2>5, <2>8, <4>1, <5>1 DEF PingedEnd
      <4>2. CASE ~ last
        <5>1. pc'[p[1]] = "pingEnd" /\ connIdx'[p[1]] = connIdx[c] + 1
          BY <1>5, <1>10, <2>1, <2>8, <4>2
        <5>2. p[2] < connIdx[c] + 1 <=> p[2] < connIdx[c] \/ p[2] = connIdx[c]
          BY <1>1, <2>1
        <5>3. PingedEnd(p)' <=> p[2] < connIdx[c] + 1
          BY <5>1 DEF PingedEnd
        <5>4. PingedEnd(p) <=> p[2] < connIdx[c]
          BY <2>1, <2>8 DEF PingedEnd
        <5>5. p = q => ~ (p[2] < connIdx[c])
          BY <1>1, <2>4
        <5>6. p = q => ~ PingedEnd(p) /\ PingedEnd(p)'
          BY <2>4, <5>2, <5>3, <5>4, <5>5
        <5>7. p # q => (PingedEnd(p)' <=> PingedEnd(p))
          BY <2>4, <5>2, <5>3, <5>4
        <5>8. QED
          BY <5>6, <5>7
      <4>3. QED
        BY <4>1, <4>2
    <3>3. Ended(p) /\ client_count > 1
      BY <2>1, <2>2, <2>8 DEF Connected, Ending, Ended
    <3>4. Ended(p)'
      <4>1. CASE p = q
        <5>1. mainPc[p[2]] # "done"
          BY <3>2, <3>3, <4>1 DEF Ended
        <5>2. QED
          BY <2>3, <2>6, <3>1, <3>2, <3>3, <4>1, <5>1 DEF Ended, LastMessage, SameServer
      <4>2. CASE p # q
        BY <2>3, <2>6, <3>1, <3>2, <3>3, <4>2 DEF Ended, LastMessage, SameServer
      <4>3. QED
        BY <4>1, <4>2
    <3>5. ~ Looping(p[1])' /\ ~ Early(p[1])'
      BY <3>1 DEF Looping, Early
    <3>6. QED
      BY <2>2, <2>3, <3>4, <3>5 DEF Connected
  <2>9. QED
    BY <1>1, <2>7, <2>8
<1>13. QED
  BY <1>4, <1>7, <1>9, <1>11, <1>12, OneClient

LEMMA LeaveBarrierKeeps ==
  ASSUME IInv, NEW c \in Clients, LeaveBarrier(c)
  PROVE  IInv'
<1> DEFINE there == IF pc[c] = "pong" THEN "ready" ELSE "done"
<1>1. /\ pc[c] \in {"pong", "pongEnd"}
      /\ \A q \in Of(c) : doneAtClient[q] # <<>>
      /\ doneAtClient' = [q \in Connections |->
           IF q \in Of(c) THEN Tail(doneAtClient[q]) ELSE doneAtClient[q]]
      /\ pc' = [pc EXCEPT ![c] = there]
      /\ UNCHANGED <<connIdx, sent, ackMsgCounter, workingConnections, totalBudgets,
                     pendingMessages, ackMsgCounters, inFlight, ack, recvAtServer,
                     doneAtServer, recvAtClient, fault>>
      /\ UNCHANGED server
  BY DEF LeaveBarrier, round, counts, wire, atServer
<1>2. ClientShape /\ CountsShape /\ ServerShape /\ ConnectionShape /\ InLoop(c)
  BY DEF IInv, Shape
<1>3. \A q \in Of(c) :
        /\ doneAtClient[q] \in Seq(Int) /\ Tail(doneAtClient[q]) \in Seq(Int)
        /\ Len(Tail(doneAtClient[q])) = Len(doneAtClient[q]) - 1
        /\ Len(doneAtClient[q]) \in Int
  BY <1>1, <1>2 DEF ConnectionShape, Of
<1>4. Shape'
  <2>1. ClientShape'
    BY <1>1, <1>2 DEF ClientShape
  <2>2. doneAtClient' \in [Connections -> Seq(Int)]
    BY <1>1, <1>2, <1>3 DEF ConnectionShape
  <2>3. ConnectionShape'
    BY <1>1, <1>2, <2>2 DEF ConnectionShape
  <2>4. QED
    BY <1>1, <1>2, <2>1, <2>3 DEF Shape, CountsShape, ServerShape, server
<1>5. OtherClients(c)
  <2>1. \A q \in Connections : q[1] # c => doneAtClient'[q] = doneAtClient[q]
    BY <1>1 DEF Of
  <2>2. QED
    BY <1>1, <1>2, <2>1 DEF OtherClients, ClientShape, SameWire
<1>6. pc'[c] = there
  BY <1>1, <1>2 DEF ClientShape
<1>7. InLoop(c)'
  <2>1. Open(c)' = Open(c)
    BY <1>1, <1>6 DEF Open, DoneWith
  <2>2. QED
    BY <1>1, <1>2, <1>6, <2>1 DEF InLoop
<1>8. ASSUME NEW q \in Of(c)
      PROVE  Connected(q)'
  <2>1. q \in Connections /\ q[1] = c
    BY DEF Of
  <2>2. Connected(q) /\ doneAtClient[q] # <<>>
    BY <1>1, <2>1 DEF IInv
  <2>3. /\ totalBudgets'[q] = totalBudgets[q] /\ pendingMessages'[q] = pendingMessages[q]
        /\ ackMsgCounters'[q] = ackMsgCounters[q]
        /\ SameServer(q) /\ mainPc'[q[2]] = mainPc[q[2]]
        /\ inFlight'[q] = inFlight[q] /\ ack'[q] = ack[q]
        /\ recvAtServer'[q] = recvAtServer[q] /\ doneAtServer'[q] = doneAtServer[q]
        /\ recvAtClient'[q] = recvAtClient[q]
    BY <1>1 DEF SameServer, server
  <2>4. doneAtClient'[q] = Tail(doneAtClient[q])
    BY <1>1, <2>1
  <2>5. Tail(<<Pong>>) = <<>> /\ <<Pong>> # <<>>
    OBVIOUS
  <2>6. recvAtClient'[q] >= 0 /\ recvAtClient'[q] + Len(doneAtClient'[q]) <= RDMA_MAX_WR
    <3>1. recvAtClient[q] \in Int /\ RDMA_MAX_WR \in Int
      BY <2>1, Numbers DEF Typed
    <3>2. recvAtClient[q] >= 0 /\ recvAtClient[q] + Len(doneAtClient[q]) <= RDMA_MAX_WR
      BY <2>2 DEF Connected
    <3>3. QED
      BY <1>3, <2>3, <2>4, <3>1, <3>2
  <2>7. CASE pc[c] = "pong"
    <3>1. pc[q[1]] = "pong" /\ pc'[q[1]] = "ready"
      BY <1>6, <2>1, <2>7
    <3>2. NotBegun(q) /\ Pinged(q)'
      BY <2>2, <3>1 DEF Connected, Early, Pinged
    <3>3. mainPc[q[2]] = "join" /\ doneAtClient[q] = <<Pong>>
      BY <2>2, <3>1, <3>2 DEF NotBegun
    <3>4. doneAtClient'[q] = <<>>
      BY <2>4, <2>5, <3>3
    <3>5. NotBegun(q)'
      BY <2>3, <3>1, <3>2, <3>3, <3>4 DEF NotBegun, SameServer
    <3>6. ~ Looping(q[1])' /\ ~ Ending(q[1])'
      BY <3>1 DEF Looping, Ending
    <3>7. QED
      BY <2>2, <2>3, <2>6, <3>5, <3>6 DEF Connected
  <2>8. CASE pc[c] = "pongEnd"
    <3>1. pc[q[1]] = "pongEnd" /\ pc'[q[1]] = "done"
      BY <1>6, <2>1, <2>8
    <3>2. Ended(q) /\ client_count > 1 /\ PingedEnd(q) /\ PingedEnd(q)'
      BY <2>2, <3>1 DEF Connected, Ending, Ended, PingedEnd
    <3>3. mainPc[q[2]] = "done" /\ doneAtClient[q] = <<Pong>>
      BY <2>2, <3>1, <3>2 DEF Ended
    <3>4. doneAtClient'[q] = <<>>
      BY <2>4, <2>5, <3>3
    <3>5. Ended(q)'
      BY <2>3, <3>1, <3>2, <3>3, <3>4 DEF Ended, LastMessage, SameServer
    <3>6. ~ Looping(q[1])' /\ ~ Early(q[1])'
      BY <3>1 DEF Looping, Early
    <3>7. QED
      BY <2>2, <2>3, <2>6, <3>5, <3>6 DEF Connected
  <2>9. QED
    BY <1>1, <2>7, <2>8
<1>9. QED
  BY <1>1, <1>4, <1>5, <1>7, <1>8, OneClient

LEMMA StartKeeps ==
  ASSUME IInv, NEW c \in Clients, Start(c)
  PROVE  IInv'
<1>1. /\ pc[c] = "ready"
      /\ \A q \in Of(c) : serverPc[q] \notin {"ready", "post"}
      /\ pc' = [pc EXCEPT ![c] = "next"]
      /\ UNCHANGED <<connIdx, sent, ackMsgCounter, workingConnections, totalBudgets,
                     pendingMessages, ackMsgCounters, inFlight, ack, recvAtServer,
                     doneAtServer, recvAtClient, doneAtClient, fault>>
      /\ UNCHANGED server
  BY DEF Start, round, counts, wire, atServer, atClient
<1>2. ClientShape /\ CountsShape /\ ServerShape /\ ConnectionShape /\ InLoop(c)
  BY DEF IInv, Shape
<1>3. Shape'
  BY <1>1, <1>2 DEF Shape, ClientShape, CountsShape, ServerShape, ConnectionShape, server
<1>4. OtherClients(c)
  BY <1>1, <1>2 DEF OtherClients, ClientShape, SameWire
<1>5. pc'[c] = "next"
  BY <1>1, <1>2 DEF ClientShape
<1>6. InLoop(c)'
  <2>1. Open(c)' = Open(c)
    BY <1>1, <1>5 DEF Open, DoneWith
  <2>2. QED
    BY <1>1, <1>2, <1>5, <2>1 DEF InLoop
<1>7. ASSUME NEW q \in Of(c)
      PROVE  Connected(q)'
  <2>1. q \in Connections /\ q[1] = c /\ pc[q[1]] = "ready" /\ pc'[q[1]] = "next"
    BY <1>1, <1>5 DEF Of
  <2>2. Connected(q) /\ NotBegun(q) /\ Typed(q)
    BY <2>1, Numbers DEF IInv, Connected, Early
  <2>3. /\ totalBudgets'[q] = totalBudgets[q] /\ pendingMessages'[q] = pendingMessages[q]
        /\ ackMsgCounters'[q] = ackMsgCounters[q]
        /\ SameServer(q) /\ mainPc'[q[2]] = mainPc[q[2]] /\ SameWire(q)
    BY <1>1 DEF SameServer, SameWire, server
  <2>4. /\ mainPc[q[2]] = "join" /\ serverPc[q] = "poll" /\ doneAtClient[q] = <<>>
        /\ doneAtServer[q] = 0 /\ recvAtServer[q] = budgetR[q]
        /\ budgetR[q] = AtMost(IterationsPerThread, RDMA_MAX_WR)
        /\ totalBudget[q] = IterationsPerThread - budgetR[q]
        /\ totalBudgets[q] = IterationsPerThread /\ pendingMessages[q] = 0
        /\ inFlight[q] = 0 /\ ack[q] = None /\ ackCounter[q] = 0
    BY <1>1, <2>1, <2>2 DEF NotBegun
  <2>5. /\ budgetR[q] \in Int /\ 1 <= budgetR[q] /\ budgetR[q] <= RDMA_MAX_WR
        /\ budgetR[q] <= IterationsPerThread
        /\ budgetR[q] < RDMA_MAX_WR => budgetR[q] = IterationsPerThread
    BY <2>4, LimitAssumption, IterationsAssumption DEF AtMost
  <2>6. /\ SentNow(q)' = 0 /\ Reposting(q)' = 0 /\ OnItsWay(q)' = 0 /\ Acked(q)' = 0
    BY <2>1, <2>3, <2>4, NoMessages
       DEF SentNow, Reposting, OnItsWay, Acked, SameServer, SameWire
  <2>7. Credits(q)'
    BY <2>3, <2>4, <2>6 DEF Credits, SameServer, SameWire
  <2>8. MessagesCounted(q)'
    <3>1. (IterationsPerThread - budgetR[q]) + budgetR[q] + 0 = IterationsPerThread + 0 + 0
      BY <2>5, IterationsAssumption
    <3>2. QED
      BY <2>3, <2>4, <2>6, <3>1 DEF MessagesCounted, SameServer, SameWire
  <2>9. ReceivesCounted(q)'
    BY <2>3, <2>4, <2>5 DEF ReceivesCounted, SameServer, SameWire
  <2>10. WindowPosted(q)'
    <3>1. IterationsPerThread - budgetR[q] > 0 => budgetR[q] = RDMA_MAX_WR
      BY <2>5, LimitAssumption, IterationsAssumption
    <3>2. budgetR[q] >= 0 /\ budgetR[q] + 0 = budgetR[q]
      BY <2>5
    <3>3. QED
      BY <2>3, <2>4, <2>5, <2>6, <3>1, <3>2 DEF WindowPosted, SameServer
  <2>11. ServerSteps(q)'
    <3>1. 0 \in 0 .. ackMsgPacking - 1
      BY Packing
    <3>2. budgetR[q] # 0
      BY <2>5
    <3>3. QED
      BY <2>3, <2>4, <3>1, <3>2 DEF ServerSteps, LastMessage, SameServer, SameWire
  <2>12. InRange(q)'
    <3>1. /\ IterationsPerThread \in 0 .. IterationsPerThread
          /\ IterationsPerThread - budgetR[q] \in 0 .. IterationsPerThread
          /\ budgetR[q] >= 0 /\ 0 + 0 <= RDMA_MAX_WR /\ 0 <= IterationsPerThread
      BY <2>5, LimitAssumption, IterationsAssumption
    <3>2. QED
      BY <2>3, <2>4, <2>6, <3>1 DEF InRange, SameServer, SameWire
  <2>13. AcksInRange(q)'
    <3>1. doneAtClient'[q] = <<>>
      BY <2>3, <2>4 DEF SameWire
    <3>2. QED
      BY <3>1 DEF AcksInRange
  <2>14. UnderWay(q)'
    BY <2>7, <2>8, <2>9, <2>10, <2>11, <2>12, <2>13 DEF UnderWay
  <2>15. ~ Early(q[1])' /\ ~ Ending(q[1])'
    BY <2>1 DEF Early, Ending
  <2>16. QED
    BY <2>2, <2>3, <2>14, <2>15 DEF Connected, SameWire
<1>8. QED
  BY <1>1, <1>3, <1>4, <1>6, <1>7, OneClient

-----------------------------------------------------------------------------
(* A server's main thread.                                                 *)

OtherServers(s) ==
  /\ \A t \in Servers : t # s => mainPc'[t] = mainPc[t]
  /\ \A q \in Connections : q[2] # s => SameServer(q) /\ SameWire(q)

LEMMA OneServer ==
  ASSUME IInv, ServerShape', ConnectionShape', ClientsSame, NEW s \in Servers,
         OtherServers(s), mainPc'[s] = "endBarrier" => client_count > 1,
         \A q \in At(s) : Connected(q)'
  PROVE  IInv'
<1>1. ASSUME NEW q \in Connections
      PROVE  Connected(q)'
  <2>1. CASE q[2] = s
    BY <2>1 DEF At
  <2>2. CASE q[2] # s
    <3>1. SameAt(q)
      BY <2>2, Pairs DEF SameAt, OtherServers, SameServer, SameWire, ClientsSame, round, counts
    <3>2. QED
      BY <3>1, SameStays DEF IInv
  <2>3. QED
    BY <2>1, <2>2
<1>2. \A c \in Clients : InLoop(c)'
  BY LoopsStay DEF IInv
<1>3. Shape'
  BY DEF IInv, Shape, ClientShape, CountsShape, ClientsSame, round, counts
<1>4. \A t \in Servers : mainPc'[t] = "endBarrier" => client_count > 1
  BY DEF IInv, OtherServers
<1>5. QED
  BY <1>1, <1>2, <1>3, <1>4 DEF IInv

LEMMA PrepareKeeps ==
  ASSUME IInv, NEW s \in Servers, Prepare(s)
  PROVE  IInv'
<1>1. /\ mainPc[s] = "prepare"
      /\ recvAtServer' = [q \in Connections |->
           IF q \in At(s) THEN recvAtServer[q] + 1 ELSE recvAtServer[q]]
      /\ mainPc' = [mainPc EXCEPT ![s] = "barrier"]
      /\ UNCHANGED <<serverPc, totalBudget, budgetR, ackCounter, inFlight, ack,
                     doneAtServer, recvAtClient, doneAtClient, fault>>
      /\ ClientsSame
  BY DEF Prepare, Plus, ClientsSame, wire, atClient
<1>2. ServerShape /\ ConnectionShape
  BY DEF IInv, Shape
<1>3. ServerShape'
  BY <1>1, <1>2 DEF ServerShape
<1>4. ConnectionShape'
  <2>1. recvAtServer' \in [Connections -> Int]
    BY <1>1, <1>2 DEF ConnectionShape
  <2>2. QED
    BY <1>1, <1>2, <2>1 DEF ConnectionShape
<1>5. mainPc'[s] = "barrier" /\ OtherServers(s)
  <2>1. \A q \in Connections : q[2] # s => recvAtServer'[q] = recvAtServer[q]
    BY <1>1 DEF At
  <2>2. QED
    BY <1>1, <1>2, <2>1 DEF OtherServers, SameServer, SameWire, ServerShape
<1>6. ASSUME NEW q \in At(s)
      PROVE  Connected(q)'
  <2>1. q \in Connections /\ q[2] = s
    BY DEF At
  <2>2. Connected(q) /\ NotBegun(q) /\ Early(q[1]) /\ SameTerms(q)
    BY <1>1, <2>1, Known, Terms DEF UnderWay, ServerSteps, Ended
  <2>3. recvAtServer'[q] = recvAtServer[q] + 1
    BY <1>1, <2>1
  <2>4. ~ Pinged(q) /\ recvAtServer[q] = 0 /\ doneAtServer[q] = 0
    BY <1>1, <2>1, <2>2 DEF NotBegun
  <2>5. recvAtServer'[q] = 1
    BY <2>3, <2>4
  <2>6. pc' = pc /\ connIdx' = connIdx
    BY <1>1 DEF ClientsSame, round
  <2>7. ~ Pinged(q)'
    BY <2>4, <2>6 DEF Pinged
  <2>8. NotBegun(q)'
    BY <1>1, <1>5, <2>1, <2>2, <2>4, <2>5, <2>6, <2>7 DEF NotBegun, SameTerms
  <2>9. QED
    BY <1>1, <2>2, <2>8 DEF Connected, Early, Looping, Ending, SameTerms
<1>7. mainPc'[s] # "endBarrier"
  BY <1>5
<1>8. QED
  BY <1>1, <1>3, <1>4, <1>5, <1>6, <1>7, OneServer

LEMMA JoinKeeps ==
  ASSUME IInv, NEW s \in Servers, Join(s)
  PROVE  IInv'
<1> DEFINE there == IF client_count > 1 THEN "endBarrier" ELSE "done"
<1>1. /\ mainPc[s] = "join"
      /\ \A q \in At(s) : serverPc[q] = "ended"
      /\ mainPc' = [mainPc EXCEPT ![s] = there]
      /\ UNCHANGED <<serverPc, totalBudget, budgetR, ackCounter, inFlight, ack,
                     recvAtServer, doneAtServer, recvAtClient, doneAtClient, fault>>
      /\ ClientsSame
  BY DEF Join, ClientsSame, wire, atServer, atClient
<1>2. ServerShape /\ ConnectionShape
  BY DEF IInv, Shape
<1>3. ServerShape' /\ ConnectionShape'
  BY <1>1, <1>2 DEF ServerShape, ConnectionShape
<1>4. mainPc'[s] = there /\ OtherServers(s)
  BY <1>1, <1>2 DEF OtherServers, SameServer, SameWire, ServerShape
<1>5. ASSUME NEW q \in At(s)
      PROVE  Connected(q)'
  <2>1. q \in Connections /\ q[2] = s /\ serverPc[q] = "ended"
    BY <1>1 DEF At
  <2>2. /\ Connected(q) /\ SameTerms(q)
        /\ \/ Looping(q[1]) /\ UnderWay(q)
           \/ Ending(q[1]) /\ Ended(q)
    BY <1>1, <2>1, Known, Terms DEF NotBegun
  <2>3. CASE Looping(q[1]) /\ UnderWay(q)
    <3>1. ServerSteps(q)'
      BY <1>1, <1>4, <2>1, <2>3 DEF UnderWay, ServerSteps, LastMessage
    <3>2. UnderWay(q)'
      BY <1>1, <2>2, <2>3, <3>1 DEF UnderWay, Credits, MessagesCounted, ReceivesCounted,
         WindowPosted, InRange, AcksInRange, SameTerms, PreparesBarrier, LastMessage
    <3>3. QED
      BY <1>1, <2>2, <2>3, <3>2 DEF Connected, Early, Looping, Ending, SameTerms
  <2>4. CASE Ending(q[1]) /\ Ended(q)
    <3>1. pc' = pc /\ connIdx' = connIdx
      BY <1>1 DEF ClientsSame, round
    <3>2. PingedEnd(q)' <=> PingedEnd(q)
      BY <3>1 DEF PingedEnd
    <3>3. Ended(q)'
      BY <1>1, <1>4, <2>1, <2>2, <2>4, <3>1, <3>2 DEF Ended, LastMessage, SameTerms
    <3>4. QED
      BY <1>1, <2>2, <2>4, <3>3 DEF Connected, Early, Looping, Ending, SameTerms
  <2>5. QED
    BY <2>2, <2>3, <2>4
<1>6. mainPc'[s] = "endBarrier" => client_count > 1
  BY <1>4
<1>7. QED
  BY <1>1, <1>3, <1>4, <1>5, <1>6, OneServer

LEMMA BarrierKeeps ==
  ASSUME IInv, NEW s \in Servers, Barrier(s)
  PROVE  IInv'
<1>1. /\ mainPc[s] \in {"barrier", "endBarrier"}
      /\ \A q \in At(s) : doneAtServer[q] > 0
      /\ doneAtServer' = [q \in Connections |->
           IF q \in At(s) THEN doneAtServer[q] + (-1) ELSE doneAtServer[q]]
      /\ recvAtClient' = [q \in Connections |->
           IF q \in At(s) THEN recvAtClient[q] + (-1) ELSE recvAtClient[q]]
      /\ doneAtClient' = [q \in Connections |->
           IF q \in At(s) THEN Append(doneAtClient[q], Pong) ELSE doneAtClient[q]]
      /\ UNCHANGED <<totalBudget, budgetR, ackCounter, inFlight, ack, recvAtServer, fault>>
      /\ ClientsSame
  BY DEF Barrier, Plus, ClientsSame, wire
<1>2. \/ /\ mainPc[s] = "barrier"
         /\ mainPc' = [mainPc EXCEPT ![s] = "join"]
         /\ serverPc' = [q \in Connections |-> IF q \in At(s) THEN "post" ELSE serverPc[q]]
      \/ /\ mainPc[s] = "endBarrier"
         /\ mainPc' = [mainPc EXCEPT ![s] = "done"]
         /\ UNCHANGED serverPc
  BY DEF Barrier
<1>3. ServerShape /\ ConnectionShape
  BY DEF IInv, Shape
<1>4. ServerShape'
  BY <1>1, <1>2, <1>3 DEF ServerShape
<1>5. \A q \in Connections : doneAtClient[q] \in Seq(Int) /\ Append(doneAtClient[q], Pong) \in Seq(Int)
  BY <1>3 DEF ConnectionShape, Pong
<1>6. ConnectionShape'
  <2>1. doneAtServer' \in [Connections -> Int] /\ recvAtClient' \in [Connections -> Int]
    BY <1>1, <1>3, SMTT(30) DEF ConnectionShape
  <2>2. doneAtClient' \in [Connections -> Seq(Int)]
    BY <1>1, <1>5
  <2>3. QED
    BY <1>1, <1>3, <2>1, <2>2 DEF ConnectionShape
<1>7. OtherServers(s)
  <2>1. \A q \in Connections : q[2] # s => q \notin At(s)
    BY DEF At
  <2>2. \A t \in Servers : t # s => mainPc'[t] = mainPc[t]
    BY <1>2, <1>3 DEF ServerShape
  <2>3. QED
    BY <1>1, <1>2, <2>1, <2>2 DEF OtherServers, SameServer, SameWire
<1>8. /\ mainPc[s] = "barrier" => mainPc'[s] = "join"
      /\ mainPc[s] = "endBarrier" => mainPc'[s] = "done"
  BY <1>2, <1>3 DEF ServerShape
<1>9. pc' = pc /\ connIdx' = connIdx
  BY <1>1 DEF ClientsSame, round
<1>10. ASSUME NEW q \in At(s)
       PROVE  Connected(q)'
  <2>1. q \in Connections /\ q[2] = s
    BY DEF At
  <2>2. Connected(q) /\ SameTerms(q) /\ Typed(q) /\ doneAtServer[q] > 0
    BY <1>1, <2>1, Numbers, Terms DEF IInv
  <2>3. /\ doneAtServer'[q] = doneAtServer[q] + (-1)
        /\ recvAtClient'[q] = recvAtClient[q] + (-1)
        /\ totalBudget'[q] = totalBudget[q] /\ budgetR'[q] = budgetR[q]
        /\ ackCounter'[q] = ackCounter[q] /\ inFlight'[q] = inFlight[q] /\ ack'[q] = ack[q]
        /\ recvAtServer'[q] = recvAtServer[q]
    BY <1>1, <2>1
  <2>4. doneAtClient'[q] = Append(doneAtClient[q], Pong)
    BY <1>1, <2>1
  <2>5. recvAtClient[q] > 0 =>
          recvAtClient'[q] >= 0 /\ recvAtClient'[q] + Len(doneAtClient'[q]) <= RDMA_MAX_WR
    <3>1. Len(doneAtClient'[q]) = Len(doneAtClient[q]) + 1 /\ Len(doneAtClient[q]) \in Int
      BY <1>5, <2>1, <2>4
    <3>2. recvAtClient[q] + Len(doneAtClient[q]) <= RDMA_MAX_WR
      BY <2>2 DEF Connected
    <3>3. recvAtClient[q] \in Int /\ RDMA_MAX_WR \in Int
      BY <2>2 DEF Typed
    <3>4. QED
      BY <2>3, <3>1, <3>2, <3>3
  <2>6. Append(<<>>, Pong) = <<Pong>>
    OBVIOUS
  <2>7. CASE mainPc[s] = "barrier"
    <3>1. mainPc'[q[2]] = "join" /\ serverPc'[q] = "post" /\ mainPc[q[2]] = "barrier"
      BY <1>2, <1>8, <2>1, <2>7
    <3>2. NotBegun(q) /\ Early(q[1])
      BY <2>1, <3>1, Known DEF UnderWay, ServerSteps, Ended
    <3>3. Pinged(q) /\ doneAtServer[q] = 1 /\ recvAtServer[q] = 0
      BY <2>2, <3>1, <3>2 DEF NotBegun
    <3>4. /\ pc[q[1]] # "enter" /\ pc[q[1]] # "ready"
          /\ serverPc[q] = "ready" /\ doneAtClient[q] = <<>> /\ recvAtClient[q] = 1
          /\ totalBudget[q] = IterationsPerThread /\ budgetR[q] = 0
      BY <3>1, <3>2, <3>3 DEF NotBegun, Pinged
    <3>5. doneAtServer'[q] = 0 /\ recvAtClient'[q] = 0 /\ doneAtClient'[q] = <<Pong>>
      BY <2>3, <2>4, <2>6, <3>3, <3>4
    <3>6. Pinged(q)'
      BY <1>9, <3>3 DEF Pinged
    <3>7. NotBegun(q)'
      BY <1>9, <2>2, <2>3, <3>1, <3>2, <3>3, <3>4, <3>5, <3>6 DEF NotBegun, SameTerms
    <3>8. recvAtClient[q] > 0
      BY <3>4
    <3>9. QED
      BY <2>2, <2>5, <3>2, <3>7, <3>8 DEF Connected, Early, Looping, Ending, SameTerms
  <2>8. CASE mainPc[s] = "endBarrier"
    <3>1. /\ mainPc'[q[2]] = "done" /\ serverPc'[q] = serverPc[q] /\ mainPc[q[2]] = "endBarrier"
          /\ client_count > 1
      BY <1>2, <1>8, <2>1, <2>8 DEF IInv
    <3>2. ~ UnderWay(q)
      <4>1. SUFFICES ASSUME UnderWay(q) PROVE FALSE
        OBVIOUS
      <4>2. serverPc[q] = "ended" /\ LastMessage(q)
        BY <3>1, <4>1 DEF UnderWay, ServerSteps
      <4>3. totalBudget[q] = 0 /\ budgetR[q] = 0
        BY <4>2 DEF LastMessage
      <4>4. totalBudget[q] + budgetR[q] + SentNow(q) = totalBudgets[q] + inFlight[q] + doneAtServer[q]
        BY <4>1 DEF UnderWay, MessagesCounted
      <4>5. SentNow(q) <= totalBudgets[q] /\ inFlight[q] >= 0
        BY <4>1 DEF UnderWay, InRange
      <4>6. /\ SentNow(q) \in Int /\ totalBudgets[q] \in Int /\ inFlight[q] \in Int
            /\ doneAtServer[q] \in Int
        BY <2>2 DEF Typed
      <4> DEFINE now == SentNow(q)
                 left == totalBudgets[q]
                 under == inFlight[q]
                 there == doneAtServer[q]
      <4>7. /\ now \in Int /\ left \in Int /\ under \in Int /\ there \in Int
            /\ 0 + 0 + now = left + under + there /\ now <= left /\ under >= 0 /\ there > 0
        BY <2>2, <4>3, <4>4, <4>5, <4>6
      <4> HIDE DEF now, left, under, there
      <4>8. QED
        BY <4>7
    <3>3. Ended(q) /\ Ending(q[1])
      BY <2>1, <3>1, <3>2, Known DEF NotBegun
    <3>4. PingedEnd(q) /\ doneAtServer[q] = 1 /\ doneAtClient[q] = <<>> /\ recvAtServer[q] = 0
      BY <2>2, <3>1, <3>3 DEF Ended
    <3>5. pc[q[1]] # "enterEnd"
      BY <3>4 DEF PingedEnd
    <3>6. pc[q[1]] # "done" /\ recvAtClient[q] > 0
      BY <3>1, <3>3, <3>5 DEF Ended
    <3>7. doneAtServer'[q] = 0 /\ doneAtClient'[q] = <<Pong>>
      BY <2>3, <2>4, <2>6, <3>4
    <3>8. PingedEnd(q)'
      BY <1>9, <3>4 DEF PingedEnd
    <3>9. Ended(q)'
      BY <1>9, <2>2, <2>3, <3>1, <3>3, <3>4, <3>6, <3>7, <3>8 DEF Ended, LastMessage, SameTerms
    <3>10. QED
      BY <2>2, <2>5, <3>3, <3>6, <3>9 DEF Connected, Early, Looping, Ending, SameTerms
  <2>9. QED
    BY <1>1, <2>7, <2>8
<1>11. mainPc'[s] # "endBarrier"
  BY <1>1, <1>8
<1>12. QED
  BY <1>1, <1>4, <1>6, <1>7, <1>10, <1>11, OneServer

-----------------------------------------------------------------------------
(* The invariant.                                                          *)

LEMMA InitHolds == Init => IInv
<1> SUFFICES ASSUME Init PROVE IInv
  OBVIOUS
<1>1. ClientShape
  BY LimitAssumption DEF Init, ClientShape, Servers
<1>2. CountsShape /\ ServerShape
  BY IterationsAssumption DEF Init, CountsShape, ServerShape
<1>3. ConnectionShape
  BY DEF Init, ConnectionShape, None
<1>4. ASSUME NEW c \in Clients
      PROVE  InLoop(c)
  <2>1. \A s \in Servers : <<c, s>> \in Connections
    BY Pairs
  <2>2. Open(c) = Servers
    BY <2>1, IterationsAssumption DEF Init, Open, DoneWith
  <2>3. Cardinality(Servers) = ServerCount
    BY LimitAssumption, Intervals DEF Servers
  <2>4. 0 \in 0 .. ackMsgPacking - 1
    BY Packing
  <2>5. QED
    BY <2>2, <2>3, <2>4 DEF Init, InLoop
<1>5. ASSUME NEW q \in Connections
      PROVE  Connected(q)
  <2>1. q[1] \in Clients /\ q[2] \in Servers
    BY Pairs
  <2>2. pc[q[1]] = "enter" /\ mainPc[q[2]] = "prepare" /\ serverPc[q] = "ready"
    BY <2>1 DEF Init
  <2>3. ~ Looping(q[1]) /\ ~ Ending(q[1]) /\ ~ Pinged(q)
    BY <2>2 DEF Looping, Ending, Pinged
  <2>4. NotBegun(q)
    BY <2>2, <2>3 DEF Init, NotBegun
  <2>5. 0 \in 0 .. ackMsgPacking - 1 /\ 0 + 0 <= RDMA_MAX_WR
    BY Packing
  <2>6. Len(<<>>) = 0
    OBVIOUS
  <2>7. QED
    BY <2>3, <2>4, <2>5, <2>6 DEF Init, Connected
<1>6. \A s \in Servers : mainPc[s] # "endBarrier"
  BY DEF Init
<1>7. QED
  BY <1>1, <1>2, <1>3, <1>4, <1>5, <1>6 DEF IInv, Shape

LEMMA NextKeeps == IInv /\ [Next]_vars => IInv'
<1> SUFFICES ASSUME IInv, [Next]_vars PROVE IInv'
  OBVIOUS
<1>1. CASE UNCHANGED vars
  BY <1>1, FaultOnly DEF vars, IInv, Shape, ConnectionShape
<1>2. ASSUME NEW c \in Clients, ClientStep(c)
      PROVE  IInv'
  BY <1>2, EnterBarrierKeeps, PingKeeps, LeaveBarrierKeeps, StartKeeps, BeginRoundKeeps,
     SendKeeps, EndSendingKeeps, PollAckKeeps, EndRoundKeeps DEF ClientStep
<1>3. ASSUME NEW s \in Servers, MainStep(s)
      PROVE  IInv'
  BY <1>3, PrepareKeeps, BarrierKeeps, JoinKeeps DEF MainStep
<1>4. ASSUME NEW q \in Connections, ServerStep(q) \/ NetworkStep(q)
      PROVE  IInv'
  BY <1>4, PostKeeps, PollMessageKeeps, RepostKeeps, AcknowledgeKeeps, ContinueKeeps,
     ArriveKeeps, AckArrivesKeeps DEF ServerStep, NetworkStep
<1>5. QED
  BY <1>1, <1>2, <1>3, <1>4 DEF Next, Over

(* The counts of both ends agree, in every run.                            *)
THEOREM CountsAgree == Spec => []IInv
<1>1. QED
  BY InitHolds, NextKeeps, PTL DEF Spec

-----------------------------------------------------------------------------
(* What follows.                                                           *)

(* What the server has counted is within the window. *)
LEMMA InWindow ==
  ASSUME IInv, NEW q \in Connections, UnderWay(q)
  PROVE  /\ inFlight[q] <= recvAtServer[q]
         /\ recvAtServer[q] + doneAtServer[q] <= RDMA_MAX_WR
         /\ inFlight[q] <= RDMA_MAX_WR
         /\ ackCounter[q] \in 0 .. ackMsgPacking
         /\ ack[q] \in {None} \cup 1 .. ackMsgPacking
<1>1. /\ Credits(q) /\ MessagesCounted(q) /\ ReceivesCounted(q) /\ WindowPosted(q)
      /\ ServerSteps(q) /\ InRange(q) /\ Typed(q)
  BY Numbers DEF UnderWay
<1>2. ackCounter[q] \in 0 .. ackMsgPacking /\ ack[q] \in {None} \cup 1 .. ackMsgPacking
  BY <1>1, Packing DEF ServerSteps
<1> DEFINE under   == inFlight[q]
           there   == doneAtServer[q]
           again   == Reposting(q)
           counted == ackCounter[q]
           coming  == OnItsWay(q)
           arrived == Acked(q)
           pending == pendingMessages[q]
           now     == SentNow(q)
           left    == totalBudgets[q]
           toPost  == totalBudget[q]
           posted  == budgetR[q]
           recv    == recvAtServer[q]
           more    == IF serverPc[q] \in {"acking", "ended"} /\ PreparesBarrier(q) THEN 1 ELSE 0
<1>3. /\ under \in Int /\ there \in Int /\ again \in Int /\ counted \in Int /\ coming \in Int
      /\ arrived \in Nat /\ pending \in Int /\ now \in Int /\ left \in Int /\ toPost \in Int
      /\ posted \in Int /\ recv \in Int /\ more \in Int /\ RDMA_MAX_WR \in Int
  BY <1>1 DEF Typed
<1>4. pending + now = under + there + again + counted + coming + arrived
  BY <1>1 DEF Credits
<1>5. toPost + posted + now = left + under + there
  BY <1>1 DEF MessagesCounted
<1>6. recv + there = posted + more
  BY <1>1 DEF ReceivesCounted
<1>7. more >= 0 /\ (more > 0 => posted = 0 /\ more = 1)
  BY DEF PreparesBarrier, LastMessage
<1>8. again >= 0 /\ counted >= 0 /\ coming >= 0
  <2>1. counted >= 0
    BY <1>2
  <2>2. coming >= 0
    BY <1>2 DEF OnItsWay, None
  <2>3. QED
    BY <2>1, <2>2 DEF Reposting
<1>9. posted + again <= RDMA_MAX_WR /\ (toPost > 0 => posted + again = RDMA_MAX_WR)
  BY <1>1 DEF WindowPosted
<1>10. /\ pending + now <= RDMA_MAX_WR /\ now <= left /\ under >= 0 /\ there >= 0 /\ toPost >= 0
  BY <1>1, IterationsAssumption DEF InRange
<1>11. RDMA_MAX_WR >= 1
  BY Packing
<1>12. under <= recv /\ recv + there <= RDMA_MAX_WR /\ under <= RDMA_MAX_WR
  <2> HIDE DEF under, there, again, counted, coming, arrived, pending, now, left, toPost,
               posted, recv, more
  <2>1. under <= RDMA_MAX_WR
    BY <1>3, <1>4, <1>8, <1>10
  <2>2. recv + there <= RDMA_MAX_WR
    BY <1>3, <1>6, <1>7, <1>8, <1>9, <1>11
  <2>3. CASE toPost > 0
    <3>1. under + there + again <= posted + again
      BY <1>3, <1>4, <1>8, <1>9, <1>10, <2>3
    <3>2. QED
      BY <1>3, <1>6, <1>7, <2>1, <2>2, <3>1
  <2>4. CASE toPost = 0
    <3>1. under + there <= posted
      BY <1>3, <1>5, <1>10, <2>4
    <3>2. QED
      BY <1>3, <1>6, <1>7, <2>1, <2>2, <3>1
  <2>5. QED
    BY <1>3, <1>10, <2>3, <2>4
<1>13. QED
  BY <1>2, <1>12

(* All that TypeOK says of a connection. *)
InBounds(q) ==
  /\ totalBudgets[q] \in 0 .. IterationsPerThread /\ pendingMessages[q] \in 0 .. RDMA_MAX_WR
  /\ ackMsgCounters[q] \in 0 .. ackMsgPacking
  /\ totalBudget[q] \in 0 .. IterationsPerThread /\ budgetR[q] \in 0 .. RDMA_MAX_WR
  /\ ackCounter[q] \in 0 .. ackMsgPacking
  /\ inFlight[q] \in 0 .. RDMA_MAX_WR /\ ack[q] \in {None} \cup 1 .. ackMsgPacking
  /\ recvAtServer[q] \in 0 .. RDMA_MAX_WR /\ doneAtServer[q] \in 0 .. RDMA_MAX_WR
  /\ recvAtClient[q] \in 0 .. RDMA_MAX_WR
  /\ doneAtClient[q] \in Seq(0 .. ackMsgPacking) /\ Len(doneAtClient[q]) <= RDMA_MAX_WR
  /\ inFlight[q] <= recvAtServer[q]

LEMMA Bounds ==
  ASSUME IInv, NEW q \in Connections
  PROVE  InBounds(q)
<1>1. Typed(q) /\ Connected(q)
  BY Numbers DEF IInv
<1>d. doneAtClient[q] \in Seq(Int)
  BY DEF IInv, Shape, ConnectionShape
<1>l. Len(doneAtClient[q]) \in Nat
  BY <1>d
<1>2. /\ RDMA_MAX_WR \in Nat /\ RDMA_MAX_WR >= 1 /\ IterationsPerThread \in Nat
      /\ IterationsPerThread >= 1 /\ ackMsgPacking \in Nat /\ ackMsgPacking >= 1
  BY Packing, IterationsAssumption
<1>3. /\ recvAtClient[q] \in 0 .. RDMA_MAX_WR /\ Len(doneAtClient[q]) <= RDMA_MAX_WR
      /\ ackMsgCounters[q] \in 0 .. ackMsgPacking
  <2>1. /\ recvAtClient[q] >= 0 /\ recvAtClient[q] + Len(doneAtClient[q]) <= RDMA_MAX_WR
        /\ ackMsgCounters[q] \in 0 .. ackMsgPacking - 1 /\ recvAtClient[q] \in Int
    BY <1>1 DEF Connected, Typed
  <2> DEFINE r == recvAtClient[q]
             n == Len(doneAtClient[q])
  <2>2. r \in Int /\ n \in Nat /\ r >= 0 /\ r + n <= RDMA_MAX_WR
    BY <1>l, <2>1
  <2>3. r \in 0 .. RDMA_MAX_WR /\ n <= RDMA_MAX_WR
    <3> HIDE DEF r, n
    <3>1. QED
      BY <1>2, <2>2
  <2>4. ackMsgCounters[q] \in 0 .. ackMsgPacking
    BY <1>2, <2>1
  <2>5. QED
    BY <2>3, <2>4
<1>4. CASE Early(q[1]) /\ NotBegun(q)
  <2>1. /\ totalBudgets[q] = IterationsPerThread /\ pendingMessages[q] = 0
        /\ inFlight[q] = 0 /\ ack[q] = None /\ ackCounter[q] = 0
        /\ serverPc[q] \in {"ready", "post", "poll"}
        /\ doneAtClient[q] = <<>> \/ doneAtClient[q] = <<Pong>>
    BY <1>4 DEF NotBegun
  <2>2. /\ budgetR[q] \in 0 .. RDMA_MAX_WR /\ totalBudget[q] \in 0 .. IterationsPerThread
    <3>1. CASE serverPc[q] = "poll"
      <4>1. /\ budgetR[q] = AtMost(IterationsPerThread, RDMA_MAX_WR)
            /\ totalBudget[q] = IterationsPerThread - budgetR[q]
        BY <1>4, <3>1 DEF NotBegun
      <4>2. QED
        BY <1>2, <4>1 DEF AtMost
    <3>2. CASE serverPc[q] # "poll"
      BY <1>2, <1>4, <2>1, <3>2 DEF NotBegun
    <3>3. QED
      BY <3>1, <3>2
  <2>3. /\ recvAtServer[q] \in 0 .. RDMA_MAX_WR /\ doneAtServer[q] \in 0 .. RDMA_MAX_WR
    <3>1. 0 \in 0 .. RDMA_MAX_WR /\ 1 \in 0 .. RDMA_MAX_WR
      BY <1>2
    <3>2. QED
      BY <1>4, <2>2, <3>1 DEF NotBegun
  <2>4. doneAtClient[q] \in Seq(0 .. ackMsgPacking)
    <3>1. Pong \in 0 .. ackMsgPacking
      BY <1>2 DEF Pong
    <3>2. <<Pong>> \in Seq(0 .. ackMsgPacking) /\ <<>> \in Seq(0 .. ackMsgPacking)
      BY <3>1
    <3>3. QED
      BY <2>1, <3>2
  <2>5. /\ IterationsPerThread \in 0 .. IterationsPerThread /\ 0 \in 0 .. RDMA_MAX_WR
        /\ 0 \in 0 .. ackMsgPacking
    BY <1>2
  <2>6. 0 <= recvAtServer[q]
    BY <2>3
  <2>7. QED
    BY <1>3, <2>1, <2>2, <2>3, <2>4, <2>5, <2>6 DEF InBounds
<1>5. CASE Looping(q[1]) /\ UnderWay(q)
  <2>1. /\ inFlight[q] <= recvAtServer[q]
        /\ recvAtServer[q] + doneAtServer[q] <= RDMA_MAX_WR
        /\ inFlight[q] <= RDMA_MAX_WR
        /\ ackCounter[q] \in 0 .. ackMsgPacking
        /\ ack[q] \in {None} \cup 1 .. ackMsgPacking
    BY <1>5, InWindow
  <2>2. InRange(q) /\ WindowPosted(q) /\ AcksInRange(q)
    BY <1>5 DEF UnderWay
  <2>3. /\ totalBudgets[q] \in 0 .. IterationsPerThread
        /\ totalBudget[q] \in 0 .. IterationsPerThread
        /\ inFlight[q] >= 0 /\ doneAtServer[q] >= 0 /\ recvAtServer[q] >= 0
        /\ pendingMessages[q] >= 0
    BY <2>2 DEF InRange
  <2>4. SentNow(q) >= 0
    <3>1. q[1] \in Clients /\ connIdx[q[1]] \in Int
      BY <1>1, Pairs DEF Typed
    <3>2. InLoop(q[1])
      BY <3>1 DEF IInv
    <3>3. pc[q[1]] = "send" => sent[q[1]] >= 0
      BY <3>2 DEF InLoop
    <3>4. QED
      BY <3>3 DEF SentNow
  <2>5. pendingMessages[q] \in 0 .. RDMA_MAX_WR
    BY <1>1, <1>2, <2>2, <2>3, <2>4 DEF InRange, Typed
  <2>6. budgetR[q] \in 0 .. RDMA_MAX_WR
    <3>1. Reposting(q) >= 0
      BY DEF Reposting
    <3>2. QED
      BY <1>1, <1>2, <2>2, <3>1 DEF WindowPosted, Typed
  <2>7. /\ inFlight[q] \in 0 .. RDMA_MAX_WR /\ recvAtServer[q] \in 0 .. RDMA_MAX_WR
        /\ doneAtServer[q] \in 0 .. RDMA_MAX_WR
    BY <1>1, <1>2, <2>1, <2>3 DEF Typed
  <2>8. doneAtClient[q] \in Seq(0 .. ackMsgPacking)
    <3>1. \A i \in 1 .. Len(doneAtClient[q]) : doneAtClient[q][i] \in 0 .. ackMsgPacking
      BY <1>d, <1>2, <2>2 DEF AcksInRange
    <3>2. PICK s \in Seq(Int) : s = doneAtClient[q]
      BY <1>d
    <3>3. PICK n \in Nat : n = Len(s)
      OBVIOUS
    <3>4. s = [i \in 1 .. n |-> s[i]]
      BY <3>3
    <3>5. s \in Seq(0 .. ackMsgPacking)
      <4>1. \A i \in 1 .. n : s[i] \in 0 .. ackMsgPacking
        BY <3>1, <3>2, <3>3
      <4>2. [i \in 1 .. n |-> s[i]] \in Seq(0 .. ackMsgPacking)
        BY <4>1
      <4>3. QED
        BY <3>4, <4>2
    <3>6. QED
      BY <3>2, <3>5
  <2>9. QED
    BY <1>3, <2>1, <2>3, <2>5, <2>6, <2>7, <2>8 DEF InBounds
<1>6. CASE Ending(q[1]) /\ Ended(q)
  <2>1. /\ totalBudgets[q] = 0 /\ pendingMessages[q] = 0 /\ totalBudget[q] = 0 /\ budgetR[q] = 0
        /\ inFlight[q] = 0 /\ ack[q] = None /\ ackCounter[q] = 0
        /\ doneAtClient[q] = <<>> \/ doneAtClient[q] = <<Pong>>
        /\ recvAtServer[q] \in {0, 1} /\ doneAtServer[q] \in {0, 1}
    BY <1>6 DEF Ended, LastMessage
  <2>2. doneAtClient[q] \in Seq(0 .. ackMsgPacking)
    <3>1. Pong \in 0 .. ackMsgPacking
      BY <1>2 DEF Pong
    <3>2. <<Pong>> \in Seq(0 .. ackMsgPacking) /\ <<>> \in Seq(0 .. ackMsgPacking)
      BY <3>1
    <3>3. QED
      BY <2>1, <3>2
  <2>3. /\ 0 \in 0 .. RDMA_MAX_WR /\ 1 \in 0 .. RDMA_MAX_WR /\ 0 \in 0 .. ackMsgPacking
        /\ 0 \in 0 .. IterationsPerThread /\ 0 <= 0 /\ 0 <= 1
    BY <1>2
  <2>4. QED
    BY <1>3, <2>1, <2>2, <2>3 DEF InBounds
<1>7. QED
  BY <1>4, <1>5, <1>6, Known

LEMMA TypesHold == IInv => TypeOK
<1> SUFFICES ASSUME IInv PROVE TypeOK
  OBVIOUS
<1>1. ClientShape /\ CountsShape /\ ServerShape /\ ConnectionShape
  BY DEF IInv, Shape
<1>2. ASSUME NEW c \in Clients
      PROVE  /\ sent[c] \in 0 .. RDMA_MAX_WR /\ ackMsgCounter[c] \in 0 .. ackMsgPacking
             /\ workingConnections[c] \in 0 .. ServerCount
  <2> DEFINE q == <<c, connIdx[c]>>
  <2>1. InLoop(c) /\ q \in Connections
    BY Here
  <2>2. InBounds(q) /\ Typed(q)
    BY <2>1, Bounds, Numbers
  <2>3. sent[c] \in 0 .. RDMA_MAX_WR
    <3>1. CASE pc[c] = "send"
      <4>1. sent[c] \in 0 .. sendBudget(q)
        BY <2>1, <3>1 DEF InLoop
      <4>2. pendingMessages[q] \in 0 .. RDMA_MAX_WR /\ totalBudgets[q] \in Int
        BY <2>2 DEF InBounds, Typed
      <4>3. RDMA_MAX_WR \in Int
        BY <2>2 DEF Typed
      <4>4. sendBudget(q) \in Int /\ sendBudget(q) <= RDMA_MAX_WR
        BY <4>2, <4>3 DEF sendBudget, AtMost
      <4> HIDE DEF q
      <4>5. QED
        BY <4>1, <4>3, <4>4
    <3>2. CASE pc[c] # "send"
      BY <2>1, <3>2, Packing DEF InLoop
    <3>3. QED
      BY <3>1, <3>2
  <2>4. ackMsgCounter[c] \in 0 .. ackMsgPacking
    BY <2>1, Packing DEF InLoop
  <2>5. workingConnections[c] \in 0 .. ServerCount
    <3>1. IsFiniteSet(Servers) /\ Cardinality(Servers) = ServerCount
      BY LimitAssumption, Intervals DEF Servers
    <3>2. Open(c) \subseteq Servers
      BY DEF Open
    <3>3. Cardinality(Open(c)) <= ServerCount /\ Cardinality(Open(c)) \in Nat
      BY <3>1, <3>2, FS_Subset, OpenFinite
    <3>4. workingConnections[c] = Cardinality(Open(c))
      BY <2>1 DEF InLoop
    <3>5. QED
      BY <3>3, <3>4, LimitAssumption
  <2>6. QED
    BY <2>3, <2>4, <2>5
<1>3. \A q \in Connections : InBounds(q)
  BY Bounds
<1>4. /\ sent \in [Clients -> 0 .. RDMA_MAX_WR]
      /\ ackMsgCounter \in [Clients -> 0 .. ackMsgPacking]
      /\ workingConnections \in [Clients -> 0 .. ServerCount]
  BY <1>1, <1>2 DEF ClientShape
<1>5. /\ totalBudgets \in [Connections -> 0 .. IterationsPerThread]
      /\ pendingMessages \in [Connections -> 0 .. RDMA_MAX_WR]
      /\ ackMsgCounters \in [Connections -> 0 .. ackMsgPacking]
  BY <1>1, <1>3 DEF CountsShape, InBounds
<1>6. /\ totalBudget \in [Connections -> 0 .. IterationsPerThread]
      /\ budgetR \in [Connections -> 0 .. RDMA_MAX_WR]
      /\ ackCounter \in [Connections -> 0 .. ackMsgPacking]
  BY <1>1, <1>3 DEF ServerShape, InBounds
<1>7. /\ inFlight \in [Connections -> 0 .. RDMA_MAX_WR]
      /\ ack \in [Connections -> {None} \cup 1 .. ackMsgPacking]
      /\ recvAtServer \in [Connections -> 0 .. RDMA_MAX_WR]
      /\ doneAtServer \in [Connections -> 0 .. RDMA_MAX_WR]
      /\ recvAtClient \in [Connections -> 0 .. RDMA_MAX_WR]
  BY <1>1, <1>3 DEF ConnectionShape, InBounds
<1>8. /\ doneAtClient \in [Connections -> Seq(0 .. ackMsgPacking)]
      /\ \A q \in Connections : Len(doneAtClient[q]) <= RDMA_MAX_WR
  BY <1>1, <1>3 DEF ConnectionShape, InBounds
<1>9. QED
  BY <1>1, <1>4, <1>5, <1>6, <1>7, <1>8 DEF TypeOK, ClientShape, ServerShape, ConnectionShape

(* No credit is lost or made: what a client counts as unacknowledged is    *)
(* exactly what is on its way to the server, waits or is counted there, or *)
(* is acknowledged without the client knowing yet.                         *)
THEOREM CreditsAlwaysConserved == Spec => []CreditsConserved
<1>1. IInv => CreditsConserved
  <2> SUFFICES ASSUME IInv PROVE CreditsConserved
    OBVIOUS
  <2>1. ASSUME NEW q \in Connections, pc[q[1]] \in {"next", "send", "poll"}
        PROVE  Credits(q)
    BY <2>1 DEF IInv, Connected, Looping, UnderWay
  <2>2. QED
    BY <2>1, TypesHold DEF CreditsConserved, Credits, Unacknowledged, SentNow, Reposting, OnItsWay
<1>2. QED
  BY <1>1, CountsAgree, PTL

(* With several clients none stops its clock before every message of every *)
(* client has been received and acknowledged.                              *)
THEOREM AllEndTogether == Spec => []EndTogether
<1>1. IInv => EndTogether
  <2> SUFFICES ASSUME IInv, client_count > 1, NEW c \in Clients, pc[c] = "done",
                      NEW q \in Connections
               PROVE  totalBudgets[q] = 0 /\ pendingMessages[q] = 0 /\ serverPc[q] = "ended"
    BY DEF EndTogether
  <2>1. q[2] \in Servers /\ <<c, q[2]>> \in Connections
    BY Pairs
  <2>2. PICK p \in Connections : p = <<c, q[2]>>
    BY <2>1
  <2>3. p[1] = c /\ p[2] = q[2]
    BY <2>2
  <2>4. Ended(p)
    BY <2>3 DEF IInv, Connected, Ending
  <2>5. mainPc[q[2]] = "done"
    BY <2>3, <2>4 DEF Ended
  <2>6. Ended(q)
    BY <2>5, Known DEF NotBegun, UnderWay, ServerSteps
  <2>7. QED
    BY <2>6 DEF Ended
<1>2. QED
  BY <1>1, CountsAgree, PTL

-----------------------------------------------------------------------------
(* The barrier's message finds a receive, too. *)
LEMMA PingFinds ==
  ASSUME IInv, NEW c \in Clients, Ping(c)
  PROVE  recvAtServer[<<c, connIdx[c]>>] > 0
<1>q. PICK q : q = <<c, connIdx[c]>>
  OBVIOUS
<1>1. /\ pc[c] \in {"ping", "pingEnd"} /\ Slept(c)
      /\ connIdx[c] \in Servers /\ q \in Connections /\ q[1] = c /\ q[2] = connIdx[c]
      /\ connIdx[c] \in Int
  BY <1>q, Here DEF Ping
<1>2. Connected(q)
  BY <1>1 DEF IInv
<1>3. CASE pc[c] = "ping"
  <2>1. NotBegun(q) /\ ~ Pinged(q)
    BY <1>1, <1>2, <1>3 DEF Connected, Early, Pinged
  <2>2. mainPc[q[2]] = "barrier"
    BY <1>1, <1>3, <2>1 DEF NotBegun, Slept
  <2>3. recvAtServer[q] = 1
    BY <2>1, <2>2 DEF NotBegun
  <2>4. QED
    BY <1>q, <2>3
<1>4. CASE pc[c] = "pingEnd"
  <2>1. Ended(q) /\ ~ PingedEnd(q)
    BY <1>1, <1>2, <1>4 DEF Connected, Ending, PingedEnd
  <2>2. recvAtServer[q] = 1
    BY <1>1, <1>4, <2>1 DEF Ended
  <2>3. QED
    BY <1>q, <2>2
<1>5. QED
  BY <1>1, <1>3, <1>4

NoneRefused == fault # "messageRefused"

(* Every message of a client finds a receive that the server has posted,   *)
(* for any window and any number of messages.                              *)
THEOREM MessagesAlwaysReceived == Spec => []MessagesAreReceived
<1>1. Init => NoneRefused
  BY DEF Init, NoneRefused
<1>2. IInv /\ NoneRefused /\ [Next]_vars => NoneRefused'
  <2> SUFFICES ASSUME IInv, fault # "messageRefused", [Next]_vars
               PROVE  fault' # "messageRefused"
    BY DEF NoneRefused
  <2>1. ASSUME NEW q \in Connections, Arrive(q)
        PROVE  fault' # "messageRefused"
    <3>1. InBounds(q) /\ Typed(q) /\ inFlight[q] > 0
      BY <2>1, Bounds, Numbers DEF Arrive
    <3>2. recvAtServer[q] > 0
      BY <3>1 DEF InBounds, Typed
    <3>3. QED
      BY <2>1, <3>2 DEF Arrive
  <2>2. ASSUME NEW c \in Clients, Ping(c)
        PROVE  fault' # "messageRefused"
    BY <2>2, PingFinds DEF Ping
  <2>3. ASSUME NEW c \in Clients, ClientStep(c)
        PROVE  fault' # "messageRefused"
    BY <2>2, <2>3 DEF ClientStep, EnterBarrier, LeaveBarrier, Start, BeginRound, Send,
       EndSending, PollAck, EndRound
  <2>4. ASSUME NEW s \in Servers, MainStep(s)
        PROVE  fault' # "messageRefused"
    BY <2>4 DEF MainStep, Prepare, Barrier, Join
  <2>5. ASSUME NEW q \in Connections, ServerStep(q) \/ NetworkStep(q)
        PROVE  fault' # "messageRefused"
    BY <2>1, <2>5 DEF ServerStep, NetworkStep, Post, PollMessage, Repost, Acknowledge, Continue,
       AckArrives
  <2>6. CASE UNCHANGED vars
    BY <2>6 DEF vars
  <2>7. QED
    BY <2>3, <2>4, <2>5, <2>6 DEF Next, Over
<1>3. IInv /\ NoneRefused => MessagesAreReceived
  BY Bounds DEF MessagesAreReceived, InBounds, NoneRefused
<1>4. Spec => []NoneRefused
  BY <1>1, <1>2, CountsAgree, PTL DEF Spec
<1>5. QED
  BY <1>3, <1>4, CountsAgree, PTL

-----------------------------------------------------------------------------
(* Receives for the acknowledgements of short runs.                        *)

(* A thread posts a receive with every message of its first round, and     *)
(* with none of the next rounds, as long as each of these begins at a      *)
(* place in the pack that is not the first.  Each moves the place by one   *)
(* and sends a pack or more, so that so many messages fit.                 *)
RunIsShort == IterationsPerThread <= RDMA_MAX_WR + ackMsgPacking * (ackMsgPacking - 1)

SendingOn(q) == pc[q[1]] = "send" /\ connIdx[q[1]] = q[2]
PollingOn(q) == pc[q[1]] = "poll" /\ connIdx[q[1]] = q[2]

(* The place in the pack that the round works with, and the one it leaves. *)
Place(q) == IF SendingOn(q) THEN ackMsgCounter[q[1]] ELSE ackMsgCounters[q]
NextPlace(place) == IF place + 1 < ackMsgPacking THEN place + 1 ELSE 0

(* In the first round every message comes with a receive.                  *)
FirstRound(q) == totalBudgets[q] = IterationsPerThread =>
  /\ Place(q) = 0 /\ pendingMessages[q] = 0 /\ ~ PollingOn(q)
  /\ recvAtClient[q] + Len(doneAtClient[q]) = SentNow(q)
  /\ recvAtClient[q] + Acked(q) >= SentNow(q)

(* In those that follow none does: each sends a pack or more, and moves    *)
(* the place by one.                                                       *)
LaterRounds(q) == 0 < totalBudgets[q] /\ totalBudgets[q] < IterationsPerThread =>
  /\ Place(q) >= 1
  /\ IterationsPerThread - totalBudgets[q] >= RDMA_MAX_WR + (Place(q) - 1) * ackMsgPacking
  /\ \/ pendingMessages[q] <= RDMA_MAX_WR - ackMsgPacking
     \/ PollingOn(q) /\ pendingMessages[q] = RDMA_MAX_WR

(* The receives are enough for what is not acknowledged or not sent.       *)
EnoughLeft(q) == totalBudgets[q] < IterationsPerThread =>
  ackMsgPacking * recvAtClient[q] >= pendingMessages[q] + totalBudgets[q] - Acked(q)

(* They fill the queue only until the first acknowledgement.               *)
NotFull(q) == recvAtClient[q] = RDMA_MAX_WR =>
  pendingMessages[q] + totalBudgets[q] = IterationsPerThread

InRound(q) == SendingOn(q) =>
  /\ sendBudget(q) > 0
  /\ ackMsgCounters[q] = IF sent[q[1]] = 0 THEN Place(q) ELSE NextPlace(Place(q))

(* Until the last message every acknowledgement is one of a full pack.     *)
FullPacks(q) == ~ LastMessage(q) =>
  /\ ack[q] \in {None, ackMsgPacking}
  /\ \A i \in DOMAIN doneAtClient[q] : doneAtClient[q][i] = ackMsgPacking

Rounds(q) ==
  /\ Looping(q[1]) =>
       /\ FirstRound(q) /\ LaterRounds(q) /\ EnoughLeft(q) /\ NotFull(q) /\ InRound(q)
       /\ FullPacks(q)
  /\ pc[q[1]] = "enterEnd" => recvAtClient[q] < RDMA_MAX_WR

NoFault == fault = "none"
RoundsInv == NoFault /\ \A q \in Connections : Rounds(q)

(* A pack for every receive that the first round posts is enough. *)
LEMMA PacksSuffice ==
  ASSUME RunIsShort
  PROVE  /\ ackMsgPacking * AtMost(IterationsPerThread, RDMA_MAX_WR) >= IterationsPerThread
         /\ AtMost(IterationsPerThread, RDMA_MAX_WR) \in 1 .. RDMA_MAX_WR
<1> DEFINE P == ackMsgPacking
           M == RDMA_MAX_WR
           N == IterationsPerThread
<1>1. /\ P \in Nat /\ P >= 1 /\ M \in Nat /\ P <= M /\ M >= 1 /\ N \in Nat /\ N >= 1
      /\ N <= M + P * (P - 1)
  BY Packing, IterationsAssumption DEF RunIsShort
<1>2. AtMost(N, M) = IF N > M THEN M ELSE N
  BY DEF AtMost
<1> HIDE DEF P, M, N
<1>3. CASE N > M
  <2>1. P * (P - 1) <= M * (P - 1)
    BY <1>1
  <2>2. M + M * (P - 1) = P * M
    BY <1>1
  <2>3. N <= P * M
    BY <1>1, <2>1, <2>2
  <2>4. QED
    BY <1>1, <1>2, <1>3, <2>3 DEF P, M, N
<1>4. CASE ~ (N > M)
  <2>1. N <= P * N
    BY <1>1
  <2>2. QED
    BY <1>1, <1>2, <1>4, <2>1 DEF P, M, N
<1>5. QED
  BY <1>3, <1>4

(* A round that leaves the last place of the pack is the last one. *)
LEMMA LastPlace ==
  ASSUME RunIsShort, NEW place \in Int, 0 <= place, NEW tb \in Int, 0 < tb,
         IterationsPerThread - tb >= RDMA_MAX_WR + place * ackMsgPacking
  PROVE  /\ NextPlace(place) = place + 1 /\ place + 1 >= 1
         /\ (NextPlace(place) - 1) * ackMsgPacking = place * ackMsgPacking
<1> DEFINE P == ackMsgPacking
           M == RDMA_MAX_WR
           N == IterationsPerThread
<1>1. /\ P \in Nat /\ P >= 1 /\ M \in Nat /\ N \in Nat /\ N <= M + P * (P - 1)
      /\ N - tb >= M + place * P
  BY Packing, IterationsAssumption DEF RunIsShort
<1>2. place + 1 < P
  <2> HIDE DEF P, M, N
  <2> SUFFICES ASSUME ~ (place + 1 < P) PROVE FALSE
    OBVIOUS
  <2>1. (P - 1) * P <= place * P
    BY <1>1
  <2>2. (P - 1) * P = P * (P - 1)
    BY <1>1
  <2>3. PICK x \in Int : x = P * (P - 1)
    BY <1>1
  <2>4. PICK y \in Int : y = place * P
    BY <1>1
  <2>5. QED
    BY <1>1, <2>1, <2>2, <2>3, <2>4
<1>3. NextPlace(place) = place + 1
  BY <1>2 DEF NextPlace
<1>4. (place + 1) - 1 = place
  OBVIOUS
<1>5. QED
  BY <1>3, <1>4

-----------------------------------------------------------------------------
(* What a step leaves alone of it.                                         *)

SameClient(q) ==
  /\ pc'[q[1]] = pc[q[1]] /\ connIdx'[q[1]] = connIdx[q[1]] /\ sent'[q[1]] = sent[q[1]]
  /\ ackMsgCounter'[q[1]] = ackMsgCounter[q[1]]
  /\ totalBudgets'[q] = totalBudgets[q] /\ pendingMessages'[q] = pendingMessages[q]
  /\ ackMsgCounters'[q] = ackMsgCounters[q]

LEMMA RoundsAlike ==
  ASSUME NEW q \in Connections, SameClient(q), Rounds(q),
         recvAtClient'[q] = recvAtClient[q], doneAtClient'[q] = doneAtClient[q],
         Looping(q[1]) => FullPacks(q)'
  PROVE  Rounds(q)'
<1>1. /\ SendingOn(q)' = SendingOn(q) /\ PollingOn(q)' = PollingOn(q) /\ Place(q)' = Place(q)
      /\ SentNow(q)' = SentNow(q) /\ Acked(q)' = Acked(q) /\ Looping(q[1])' = Looping(q[1])
  BY DEF SameClient, SendingOn, PollingOn, Place, SentNow, Acked, Looping
<1>2. /\ FirstRound(q) => FirstRound(q)'
      /\ LaterRounds(q) => LaterRounds(q)'
      /\ EnoughLeft(q) => EnoughLeft(q)'
      /\ NotFull(q) => NotFull(q)'
  BY <1>1 DEF SameClient, FirstRound, LaterRounds, EnoughLeft, NotFull
<1>3. sendBudget(q)' = sendBudget(q)
  BY DEF SameClient, sendBudget
<1>4. InRound(q) => InRound(q)'
  BY <1>1, <1>3 DEF SameClient, InRound
<1>5. QED
  BY <1>1, <1>2, <1>4 DEF Rounds, SameClient

LEMMA RoundsSame ==
  ASSUME ClientsSame, NEW q \in Connections, Rounds(q),
         recvAtClient'[q] = recvAtClient[q], doneAtClient'[q] = doneAtClient[q],
         Looping(q[1]) => FullPacks(q)'
  PROVE  Rounds(q)'
<1>1. SameClient(q)
  BY DEF ClientsSame, SameClient, round, counts
<1>2. QED
  BY <1>1, RoundsAlike

LEMMA RoundsElsewhere ==
  ASSUME NEW q \in Connections, SameData(q), Rounds(q), Looping(q[1]),
         ~ SendingOn(q), ~ SendingOn(q)', ~ PollingOn(q)',
         PollingOn(q) => pendingMessages[q] # RDMA_MAX_WR,
         pc'[q[1]] = "enterEnd" => recvAtClient'[q] < RDMA_MAX_WR
  PROVE  Rounds(q)'
<1>1. /\ FirstRound(q) /\ LaterRounds(q) /\ EnoughLeft(q) /\ NotFull(q) /\ FullPacks(q)
  BY DEF Rounds
<1>2. SentNow(q)' = 0 /\ SentNow(q) = 0 /\ Place(q)' = Place(q) /\ Acked(q)' = Acked(q)
  BY DEF SentNow, SendingOn, Place, Acked, SameData, SameWire
<1>3. /\ totalBudgets'[q] = totalBudgets[q] /\ pendingMessages'[q] = pendingMessages[q]
      /\ recvAtClient'[q] = recvAtClient[q] /\ doneAtClient'[q] = doneAtClient[q]
      /\ ack'[q] = ack[q] /\ LastMessage(q)' = LastMessage(q)
  BY DEF SameData, SameServer, SameWire, LastMessage
<1>4. FirstRound(q)' /\ EnoughLeft(q)' /\ NotFull(q)'
  BY <1>1, <1>2, <1>3 DEF FirstRound, EnoughLeft, NotFull
<1>5. LaterRounds(q)'
  BY <1>1, <1>2, <1>3 DEF LaterRounds
<1>6. FullPacks(q)' /\ InRound(q)'
  BY <1>1, <1>3 DEF FullPacks, InRound
<1>7. QED
  BY <1>4, <1>5, <1>6 DEF Rounds

LEMMA PacksStay ==
  ASSUME NEW q \in Connections, FullPacks(q), ack'[q] = ack[q],
         doneAtClient'[q] = doneAtClient[q], LastMessage(q) => LastMessage(q)'
  PROVE  FullPacks(q)'
BY DEF FullPacks

(* Steps that touch neither a client nor the wire.                         *)
LEMMA QuietRounds ==
  ASSUME RoundsInv, ClientsSame,
         UNCHANGED <<ack, totalBudget, budgetR, recvAtClient, doneAtClient, fault>>
  PROVE  RoundsInv'
<1>1. ASSUME NEW p \in Connections
      PROVE  Rounds(p)'
  <2>1. Rounds(p)
    BY DEF RoundsInv
  <2>2. Looping(p[1]) => FullPacks(p)'
    BY <2>1, PacksStay DEF Rounds, LastMessage
  <2>3. QED
    BY <2>1, <2>2, RoundsSame
<1>2. QED
  BY <1>1 DEF RoundsInv, NoFault

-----------------------------------------------------------------------------
(* The network and the server's threads.                                   *)

LEMMA ArriveRounds ==
  ASSUME IInv, RoundsInv, NEW q \in Connections, Arrive(q)
  PROVE  RoundsInv'
<1>1. InBounds(q) /\ Typed(q) /\ inFlight[q] > 0
  BY Bounds, Numbers DEF Arrive
<1>2. recvAtServer[q] > 0
  BY <1>1 DEF InBounds, Typed
<1>3. /\ UNCHANGED <<ack, totalBudget, budgetR, recvAtClient, doneAtClient, fault>>
      /\ ClientsSame
  BY <1>2 DEF Arrive, ClientsSame, server, atClient
<1>4. QED
  BY <1>3, QuietRounds

LEMMA PostRounds ==
  ASSUME IInv, RoundsInv, NEW q \in Connections, Post(q)
  PROVE  RoundsInv'
<1>1. /\ serverPc[q] = "post"
      /\ totalBudget' = [totalBudget EXCEPT ![q] = @ - AtMost(IterationsPerThread, RDMA_MAX_WR)]
      /\ budgetR' = [budgetR EXCEPT ![q] = AtMost(IterationsPerThread, RDMA_MAX_WR)]
      /\ UNCHANGED <<ack, recvAtClient, doneAtClient, fault>>
      /\ ClientsSame
  BY DEF Post, ClientsSame, wire, atClient
<1>2. ~ Looping(q[1])
  BY <1>1, Known DEF IInv, Connected, UnderWay, ServerSteps
<1>3. ASSUME NEW p \in Connections
      PROVE  Rounds(p)'
  <2>1. Rounds(p)
    BY DEF RoundsInv
  <2>2. CASE p = q
    BY <1>1, <1>2, <2>1, <2>2, RoundsSame
  <2>3. CASE p # q
    <3>1. LastMessage(p)' = LastMessage(p)
      BY <1>1, <2>3 DEF LastMessage, IInv, Shape, ServerShape
    <3>2. Looping(p[1]) => FullPacks(p)'
      BY <1>1, <2>1, <3>1, PacksStay DEF Rounds
    <3>3. QED
      BY <1>1, <2>1, <3>2, RoundsSame
  <2>4. QED
    BY <2>2, <2>3
<1>4. QED
  BY <1>1, <1>3 DEF RoundsInv, NoFault

LEMMA PollMessageRounds ==
  ASSUME IInv, RoundsInv, NEW q \in Connections, PollMessage(q)
  PROVE  RoundsInv'
<1>1. /\ serverPc[q] = "poll"
      /\ budgetR' = [budgetR EXCEPT ![q] = @ - 1]
      /\ UNCHANGED <<totalBudget, ack, recvAtClient, doneAtClient, fault>>
      /\ ClientsSame
  BY DEF PollMessage, ClientsSame, wire, atClient
<1>2. ASSUME NEW p \in Connections, Looping(p[1])
      PROVE  LastMessage(p) => LastMessage(p)'
  <2>1. CASE p = q
    BY <1>1, <1>2, <2>1, Known DEF Early, Looping, Ending, UnderWay, ServerSteps
  <2>2. CASE p # q
    BY <1>1, <2>2 DEF LastMessage, IInv, Shape, ServerShape
  <2>3. QED
    BY <2>1, <2>2
<1>3. ASSUME NEW p \in Connections
      PROVE  Rounds(p)'
  <2>1. Rounds(p)
    BY DEF RoundsInv
  <2>2. Looping(p[1]) => FullPacks(p)'
    BY <1>1, <1>2, <2>1, PacksStay DEF Rounds
  <2>3. QED
    BY <1>1, <2>1, <2>2, RoundsSame
<1>4. QED
  BY <1>1, <1>3 DEF RoundsInv, NoFault

(* The receive that a message took has left the queue.                     *)
LEMMA RepostRounds ==
  ASSUME IInv, RoundsInv, NEW q \in Connections, Repost(q)
  PROVE  RoundsInv'
<1> DEFINE n == AtMost(totalBudget[q], 1)
<1>1. UnderWay(q) /\ Typed(q) /\ serverPc[q] = "repost"
  BY Known, Numbers DEF Repost, NotBegun, Ended
<1>2. totalBudget[q] \in Int /\ budgetR[q] \in Int /\ totalBudget[q] >= 0 /\ budgetR[q] >= 0
  BY <1>1, IterationsAssumption DEF Typed, UnderWay, InRange, WindowPosted
<1>3. ~ (n = 1 /\ ~ RoomAtServer(q))
  <2>1. recvAtServer[q] + doneAtServer[q] = budgetR[q]
    BY <1>1, <1>2 DEF UnderWay, ReceivesCounted
  <2>2. budgetR[q] + 1 <= RDMA_MAX_WR
    BY <1>1 DEF UnderWay, WindowPosted, Reposting
  <2>3. RDMA_MAX_WR \in Int
    BY Packing
  <2>4. budgetR[q] < RDMA_MAX_WR
    BY <1>2, <2>2, <2>3
  <2>5. QED
    BY <2>1, <2>4 DEF RoomAtServer
<1>4. /\ budgetR' = [budgetR EXCEPT ![q] = @ + n]
      /\ totalBudget' = [totalBudget EXCEPT ![q] = @ - n]
      /\ UNCHANGED <<ack, recvAtClient, doneAtClient, fault>>
      /\ ClientsSame
  BY <1>3 DEF Repost, ClientsSame, wire, atClient
<1>5. ASSUME NEW p \in Connections
      PROVE  LastMessage(p) => LastMessage(p)'
  <2>1. CASE p = q
    <3>1. budgetR'[q] = budgetR[q] + n /\ totalBudget'[q] = totalBudget[q] - n
      BY <1>4 DEF IInv, Shape, ServerShape
    <3>2. totalBudget[q] = 0 => n = 0
      BY DEF AtMost
    <3>3. QED
      BY <1>2, <2>1, <3>1, <3>2 DEF LastMessage
  <2>2. CASE p # q
    BY <1>4, <2>2 DEF LastMessage, IInv, Shape, ServerShape
  <2>3. QED
    BY <2>1, <2>2
<1>6. ASSUME NEW p \in Connections
      PROVE  Rounds(p)'
  <2>1. Rounds(p)
    BY DEF RoundsInv
  <2>2. Looping(p[1]) => FullPacks(p)'
    BY <1>4, <1>5, <2>1, PacksStay DEF Rounds
  <2>3. QED
    BY <1>4, <2>1, <2>2, RoundsSame
<1>7. QED
  BY <1>4, <1>6 DEF RoundsInv, NoFault

LEMMA AcknowledgeRounds ==
  ASSUME IInv, RoundsInv, NEW q \in Connections, Acknowledge(q)
  PROVE  RoundsInv'
<1>1. /\ AckDue(q)
      /\ ack' = [ack EXCEPT ![q] = ackCounter[q]]
      /\ UNCHANGED <<totalBudget, budgetR, recvAtClient, doneAtClient, fault>>
      /\ ClientsSame
  BY DEF Acknowledge, AckedMessages, ClientsSame, atClient
<1>2. ASSUME NEW p \in Connections
      PROVE  FullPacks(p) => FullPacks(p)'
  <2>1. LastMessage(p)' = LastMessage(p) /\ doneAtClient' = doneAtClient
    BY <1>1 DEF LastMessage
  <2>2. CASE p = q
    <3>1. ack'[q] = ackCounter[q]
      BY <1>1 DEF IInv, Shape, ConnectionShape
    <3>2. QED
      BY <1>1, <2>1, <2>2, <3>1 DEF FullPacks, AckDue
  <2>3. CASE p # q
    <3>1. ack'[p] = ack[p]
      BY <1>1, <2>3 DEF IInv, Shape, ConnectionShape
    <3>2. QED
      BY <2>1, <3>1 DEF FullPacks
  <2>4. QED
    BY <2>2, <2>3
<1>3. ASSUME NEW p \in Connections
      PROVE  Rounds(p)'
  <2>1. Rounds(p)
    BY DEF RoundsInv
  <2>2. Looping(p[1]) => FullPacks(p)'
    BY <1>2, <2>1 DEF Rounds
  <2>3. QED
    BY <1>1, <2>1, <2>2, RoundsSame
<1>4. QED
  BY <1>1, <1>3 DEF RoundsInv, NoFault

(* What is acknowledged was sent, and what the last message leaves. *)
LEMMA AckedWasSent ==
  ASSUME IInv, NEW q \in Connections, ack[q] # None
  PROVE  /\ Looping(q[1]) /\ UnderWay(q) /\ Connected(q) /\ Typed(q)
         /\ ack[q] \in 1 .. ackMsgPacking
         /\ ack[q] + Acked(q) <= pendingMessages[q] + SentNow(q)
         /\ SentNow(q) <= totalBudgets[q] /\ totalBudgets[q] <= IterationsPerThread
         /\ LastMessage(q) =>
              /\ SentNow(q) = totalBudgets[q]
              /\ pendingMessages[q] + totalBudgets[q] = ack[q] + Acked(q)
<1>1. Looping(q[1]) /\ UnderWay(q) /\ Connected(q) /\ Typed(q)
  BY Known, Numbers DEF NotBegun, Ended
<1>2. serverPc[q] = "acking" /\ ack[q] \in 1 .. ackMsgPacking /\ ackCounter[q] = 0
  BY <1>1 DEF UnderWay, ServerSteps
<1>3. Reposting(q) = 0 /\ OnItsWay(q) = ack[q]
  BY <1>2 DEF Reposting, OnItsWay
<1> DEFINE under   == inFlight[q]
           there   == doneAtServer[q]
           coming  == ack[q]
           arrived == Acked(q)
           pending == pendingMessages[q]
           now     == SentNow(q)
           left    == totalBudgets[q]
<1>4. /\ under \in Int /\ there \in Int /\ coming \in Int /\ arrived \in Int /\ pending \in Int
      /\ now \in Int /\ left \in Int
  BY <1>1 DEF Typed
<1>5. pending + now = under + there + coming + arrived
  BY <1>1, <1>2, <1>3, <1>4 DEF UnderWay, Credits
<1>6. under >= 0 /\ there >= 0 /\ now <= left /\ left <= IterationsPerThread
  BY <1>1, IterationsAssumption DEF UnderWay, InRange
<1>7. LastMessage(q) => now = left + under + there
  BY <1>1, <1>4 DEF UnderWay, MessagesCounted, LastMessage
<1>8. /\ coming + arrived <= pending + now
      /\ LastMessage(q) => now = left /\ pending + left = coming + arrived
  <2> HIDE DEF under, there, coming, arrived, pending, now, left
  <2>1. QED
    BY <1>4, <1>5, <1>6, <1>7
<1>9. QED
  BY <1>1, <1>2, <1>6, <1>8

(* A receive waits for every acknowledgement. *)
LEMMA AckFinds ==
  ASSUME IInv, RoundsInv, NEW q \in Connections, ack[q] # None
  PROVE  recvAtClient[q] > 0
<1>1. /\ Typed(q) /\ Looping(q[1]) /\ recvAtClient[q] >= 0
      /\ ack[q] \in 1 .. ackMsgPacking
      /\ ack[q] + Acked(q) <= pendingMessages[q] + SentNow(q)
      /\ SentNow(q) <= totalBudgets[q] /\ totalBudgets[q] <= IterationsPerThread
  BY AckedWasSent DEF Connected
<1>2. FirstRound(q) /\ EnoughLeft(q)
  BY <1>1 DEF RoundsInv, Rounds
<1> DEFINE recv    == recvAtClient[q]
           coming  == ack[q]
           arrived == Acked(q)
           pending == pendingMessages[q]
           now     == SentNow(q)
           left    == totalBudgets[q]
           P       == ackMsgPacking
<1>3. /\ recv \in Int /\ coming \in Int /\ arrived \in Int /\ pending \in Int
      /\ now \in Int /\ left \in Int /\ P \in Nat /\ coming >= 1 /\ recv >= 0
      /\ coming + arrived <= pending + now /\ now <= left
  BY <1>1, Packing DEF Typed
<1>4. CASE left = IterationsPerThread
  <2>1. pending = 0 /\ recv + arrived >= now
    BY <1>2, <1>4 DEF FirstRound
  <2>2. recv > 0
    <3> HIDE DEF recv, coming, arrived, pending, now, left
    <3>1. QED
      BY <1>3, <2>1
  <2>3. QED
    BY <2>2
<1>5. CASE left # IterationsPerThread
  <2>1. left < IterationsPerThread
    BY <1>1, <1>3, <1>5, IterationsAssumption
  <2>2. P * recv >= pending + left - arrived
    BY <1>2, <2>1 DEF EnoughLeft
  <2>3. recv > 0
    <3> HIDE DEF recv, coming, arrived, pending, now, left, P
    <3>1. CASE recv = 0
      BY <1>3, <2>2, <3>1
    <3>2. QED
      BY <1>3, <3>1
  <2>4. QED
    BY <2>3
<1>6. QED
  BY <1>4, <1>5

LEMMA AckArrivesRounds ==
  ASSUME IInv, RoundsInv, NEW q \in Connections, AckArrives(q)
  PROVE  RoundsInv'
<1>1. /\ ack[q] # None /\ recvAtClient[q] > 0
      /\ ack' = [ack EXCEPT ![q] = None]
      /\ recvAtClient' = [recvAtClient EXCEPT ![q] = @ - 1]
      /\ doneAtClient' = [doneAtClient EXCEPT ![q] = Append(@, ack[q])]
      /\ UNCHANGED <<totalBudget, budgetR, fault>>
      /\ ClientsSame
  <2>1. ack[q] # None
    BY DEF AckArrives
  <2>2. recvAtClient[q] > 0
    BY <2>1, AckFinds
  <2>3. QED
    BY <2>1, <2>2 DEF AckArrives, ClientsSame
<1>2. /\ ack'[q] = None /\ recvAtClient'[q] = recvAtClient[q] - 1
      /\ doneAtClient'[q] = Append(doneAtClient[q], ack[q])
      /\ doneAtClient[q] \in Seq(Int) /\ ack[q] \in Int
  BY <1>1 DEF IInv, Shape, ConnectionShape
<1>3. /\ Looping(q[1]) /\ UnderWay(q) /\ Connected(q) /\ Typed(q)
      /\ ack[q] \in 1 .. ackMsgPacking
      /\ SentNow(q) <= totalBudgets[q] /\ totalBudgets[q] <= IterationsPerThread
      /\ LastMessage(q) => pendingMessages[q] + totalBudgets[q] = ack[q] + Acked(q)
  BY <1>1, AckedWasSent
<1>4. Rounds(q) /\ LastMessage(q)' = LastMessage(q)
  BY <1>1 DEF RoundsInv, LastMessage
<1>5. /\ SendingOn(q)' = SendingOn(q) /\ PollingOn(q)' = PollingOn(q) /\ Place(q)' = Place(q)
      /\ SentNow(q)' = SentNow(q) /\ sendBudget(q)' = sendBudget(q)
      /\ totalBudgets' = totalBudgets /\ pendingMessages' = pendingMessages /\ pc' = pc
      /\ ackMsgCounters' = ackMsgCounters /\ sent' = sent
  BY <1>1 DEF ClientsSame, round, counts, SendingOn, PollingOn, Place, SentNow, sendBudget
<1>6. /\ Acked(q)' = Acked(q) + ack[q] /\ Len(doneAtClient'[q]) = Len(doneAtClient[q]) + 1
      /\ Len(doneAtClient[q]) \in Nat
  <2>1. ack[q] \in Nat
    BY <1>3, Packing
  <2>2. QED
    BY <1>2, <2>1, MessagesAppend DEF Acked
<1> DEFINE recv    == recvAtClient[q]
           coming  == ack[q]
           arrived == Acked(q)
           pending == pendingMessages[q]
           left    == totalBudgets[q]
           P       == ackMsgPacking
<1>7. /\ recv \in Int /\ coming \in Int /\ arrived \in Int /\ pending \in Int
      /\ left \in Int /\ P \in Nat /\ P >= 1 /\ coming >= 1 /\ recv >= 1
  <2>1. /\ recv \in Int /\ arrived \in Int /\ pending \in Int /\ left \in Int
    BY <1>3 DEF Typed
  <2>2. P \in Nat /\ P >= 1 /\ coming \in Int /\ coming >= 1
    BY <1>3, Packing
  <2>3. recv > 0
    BY <1>1
  <2> HIDE DEF recv, coming, arrived, pending, left, P
  <2>4. QED
    BY <2>1, <2>2, <2>3
<1>8. FirstRound(q)'
  <2>1. FirstRound(q)
    BY <1>3, <1>4 DEF Rounds
  <2>2. recvAtClient'[q] + Len(doneAtClient'[q]) = recvAtClient[q] + Len(doneAtClient[q])
    <3>1. PICK l \in Nat : l = Len(doneAtClient[q])
      BY <1>6
    <3>2. recvAtClient'[q] = recv - 1 /\ Len(doneAtClient'[q]) = l + 1
      BY <1>2, <1>6, <3>1
    <3> HIDE DEF recv
    <3>3. (recv - 1) + (l + 1) = recv + l
      BY <1>7
    <3>4. QED
      BY <3>1, <3>2, <3>3 DEF recv
  <2>3. recvAtClient'[q] + Acked(q)' >= recv + arrived /\ recvAtClient'[q] + Acked(q)' \in Int
    <3>1. recvAtClient'[q] = recv - 1 /\ Acked(q)' = arrived + coming
      BY <1>2, <1>6
    <3> HIDE DEF recv, arrived, coming
    <3>2. QED
      BY <1>7, <3>1
  <2>4. totalBudgets[q] = IterationsPerThread => recvAtClient'[q] + Acked(q)' >= SentNow(q)
    <3>1. recv + arrived \in Int /\ SentNow(q) \in Int
      BY <1>3, <1>7 DEF Typed
    <3>2. QED
      BY <2>1, <2>3, <3>1 DEF FirstRound
  <2>5. QED
    BY <1>5, <2>1, <2>2, <2>4 DEF FirstRound
<1>9. LaterRounds(q)' /\ InRound(q)'
  BY <1>3, <1>4, <1>5 DEF Rounds, LaterRounds, InRound
<1>10. EnoughLeft(q)'
  <2>1. SUFFICES ASSUME left < IterationsPerThread
                 PROVE  P * recvAtClient'[q] >= pending + left - Acked(q)'
    BY <1>5 DEF EnoughLeft
  <2>2. recvAtClient'[q] = recv - 1 /\ Acked(q)' = arrived + coming
    BY <1>2, <1>6
  <2>3. P * recv >= pending + left - arrived
    BY <1>3, <1>4, <2>1 DEF Rounds, EnoughLeft
  <2>4. CASE LastMessage(q)
    <3>1. pending + left = coming + arrived
      BY <1>3, <2>4
    <3>2. P * (recv - 1) >= 0 /\ pending + left - (arrived + coming) = 0
      <4> HIDE DEF recv, coming, arrived, pending, left, P
      <4>1. QED
        BY <1>7, <3>1
    <3>3. QED
      BY <2>2, <3>2
  <2>5. CASE ~ LastMessage(q)
    <3>1. coming = P
      BY <1>1, <1>3, <1>4, <2>5 DEF Rounds, FullPacks
    <3>2. P * (recv - 1) >= pending + left - (arrived + coming)
      <4> HIDE DEF recv, coming, arrived, pending, left, P
      <4>1. P * (recv - 1) = P * recv - P /\ P * recv \in Int
        BY <1>7
      <4>2. QED
        BY <1>7, <2>3, <3>1, <4>1
    <3>3. QED
      BY <2>2, <3>2
  <2>6. QED
    BY <2>4, <2>5
<1>11. NotFull(q)'
  <2>1. recv + Len(doneAtClient[q]) <= RDMA_MAX_WR /\ RDMA_MAX_WR \in Int
    BY <1>3, Packing DEF Connected
  <2>2. recvAtClient'[q] < RDMA_MAX_WR
    <3>1. PICK l \in Nat : l = Len(doneAtClient[q])
      BY <1>6
    <3>2. recv + l <= RDMA_MAX_WR
      BY <2>1, <3>1
    <3>3. recvAtClient'[q] = recv - 1
      BY <1>2
    <3> HIDE DEF recv
    <3>4. QED
      BY <1>7, <2>1, <3>2, <3>3
  <2>3. QED
    BY <2>1, <2>2 DEF NotFull
<1>12. FullPacks(q)'
  <2>1. FullPacks(q)
    BY <1>3, <1>4 DEF Rounds
  <2>2. SUFFICES ASSUME ~ LastMessage(q)
                 PROVE  \A i \in DOMAIN doneAtClient'[q] : doneAtClient'[q][i] = ackMsgPacking
    BY <1>2, <1>4 DEF FullPacks
  <2>3. ack[q] \in {ackMsgPacking} /\ \A i \in DOMAIN doneAtClient[q] : doneAtClient[q][i] \in {ackMsgPacking}
    BY <1>1, <2>1, <2>2 DEF FullPacks
  <2>4. \A i \in DOMAIN Append(doneAtClient[q], ack[q]) :
          Append(doneAtClient[q], ack[q])[i] \in {ackMsgPacking}
    BY <1>2, <2>3, AllAppended
  <2>5. QED
    BY <1>2, <2>4
<1>13. ASSUME NEW p \in Connections
       PROVE  Rounds(p)'
  <2>1. CASE p = q
    <3>1. pc'[q[1]] = pc[q[1]] /\ pc[q[1]] # "enterEnd"
      BY <1>3, <1>5 DEF Looping
    <3>2. QED
      BY <1>8, <1>9, <1>10, <1>11, <1>12, <2>1, <3>1 DEF Rounds
  <2>2. CASE p # q
    <3>1. Rounds(p) /\ LastMessage(p)' = LastMessage(p)
      BY <1>1 DEF RoundsInv, LastMessage
    <3>2. /\ ack'[p] = ack[p] /\ recvAtClient'[p] = recvAtClient[p]
          /\ doneAtClient'[p] = doneAtClient[p]
      BY <1>1, <2>2 DEF IInv, Shape, ConnectionShape
    <3>3. Looping(p[1]) => FullPacks(p)'
      BY <3>1, <3>2, PacksStay DEF Rounds
    <3>4. QED
      BY <1>1, <3>1, <3>2, <3>3, RoundsSame
  <2>3. QED
    BY <2>1, <2>2
<1>14. QED
  BY <1>1, <1>13 DEF RoundsInv, NoFault

-----------------------------------------------------------------------------
(* A server's main thread, and the client's barriers.                      *)

(* A barrier answers no client that is in its loop, nor one that has yet   *)
(* to enter the last barrier: each has sent its message.                   *)
LEMMA BarrierRounds ==
  ASSUME IInv, RoundsInv, NEW s \in Servers, Barrier(s)
  PROVE  RoundsInv'
<1>1. /\ mainPc[s] \in {"barrier", "endBarrier"}
      /\ \A q \in At(s) : doneAtServer[q] > 0
      /\ recvAtClient' = Plus(recvAtClient, At(s), -1)
      /\ doneAtClient' = [q \in Connections |->
           IF q \in At(s) THEN Append(doneAtClient[q], Pong) ELSE doneAtClient[q]]
      /\ UNCHANGED <<ack, totalBudget, budgetR, fault>>
      /\ ClientsSame
  BY DEF Barrier, ClientsSame, wire
<1>2. ASSUME NEW q \in At(s)
      PROVE  ~ Looping(q[1]) /\ pc[q[1]] # "enterEnd"
  <2>1. q \in Connections /\ q[2] = s /\ doneAtServer[q] > 0
    BY <1>1 DEF At
  <2>2. Connected(q) /\ Typed(q)
    BY <2>1, Numbers DEF IInv
  <2>3. ~ Looping(q[1])
    <3> SUFFICES ASSUME Looping(q[1]) PROVE FALSE
      OBVIOUS
    <3>1. UnderWay(q)
      BY <2>2 DEF Connected
    <3>2. LastMessage(q)
      BY <1>1, <2>1, <3>1 DEF UnderWay, ServerSteps
    <3>3. totalBudget[q] = 0 /\ budgetR[q] = 0
      BY <3>2 DEF LastMessage
    <3> DEFINE under == inFlight[q]
               there == doneAtServer[q]
               now   == SentNow(q)
               left  == totalBudgets[q]
    <3>4. /\ under \in Int /\ there \in Int /\ now \in Int /\ left \in Int
          /\ now <= left /\ under >= 0 /\ there > 0
      BY <2>1, <2>2, <3>1 DEF Typed, UnderWay, InRange
    <3>5. 0 + 0 + now = left + under + there
      BY <3>1, <3>3 DEF UnderWay, MessagesCounted
    <3> HIDE DEF under, there, now, left
    <3>6. QED
      BY <3>4, <3>5
  <2>4. pc[q[1]] # "enterEnd"
    <3> SUFFICES ASSUME pc[q[1]] = "enterEnd" PROVE FALSE
      OBVIOUS
    <3>1. Ended(q) /\ ~ PingedEnd(q)
      BY <2>2 DEF Connected, Ending, PingedEnd
    <3>2. doneAtServer[q] = 0
      BY <1>1, <2>1, <3>1 DEF Ended
    <3>3. QED
      BY <2>1, <3>2
  <2>5. QED
    BY <2>3, <2>4
<1>3. ASSUME NEW q \in Connections
      PROVE  Rounds(q)'
  <2>1. Rounds(q)
    BY DEF RoundsInv
  <2>2. CASE q \in At(s)
    <3>1. ~ Looping(q[1])' /\ pc'[q[1]] # "enterEnd"
      BY <1>1, <1>2, <2>2 DEF ClientsSame, Looping
    <3>2. QED
      BY <3>1 DEF Rounds
  <2>3. CASE q \notin At(s)
    <3>1. recvAtClient'[q] = recvAtClient[q] /\ doneAtClient'[q] = doneAtClient[q]
      BY <1>1, <2>3 DEF Plus
    <3>2. LastMessage(q)' = LastMessage(q) /\ ack' = ack
      BY <1>1 DEF LastMessage
    <3>3. Looping(q[1]) => FullPacks(q)'
      BY <2>1, <3>1, <3>2, PacksStay DEF Rounds
    <3>4. QED
      BY <1>1, <2>1, <3>1, <3>3, RoundsSame
  <2>4. QED
    BY <2>2, <2>3
<1>4. QED
  BY <1>1, <1>3 DEF RoundsInv, NoFault

(* A step of a client that does not fail. *)
LEMMA ClientRounds ==
  ASSUME RoundsInv, UNCHANGED <<server, fault>>, NEW c \in Clients, OtherClients(c),
         \A q \in Of(c) : Rounds(q)'
  PROVE  RoundsInv'
<1>1. ASSUME NEW q \in Connections
      PROVE  Rounds(q)'
  <2>1. CASE q[1] = c
    BY <2>1 DEF Of
  <2>2. CASE q[1] # c
    <3>1. SameClient(q) /\ SameWire(q)
      BY <2>2, Pairs DEF OtherClients, SameClient
    <3>2. Rounds(q) /\ LastMessage(q)' = LastMessage(q)
      BY DEF RoundsInv, LastMessage, server
    <3>3. Looping(q[1]) => FullPacks(q)'
      BY <3>1, <3>2, PacksStay DEF Rounds, SameWire
    <3>4. QED
      BY <3>1, <3>2, <3>3, RoundsAlike DEF SameWire
  <2>3. QED
    BY <2>1, <2>2
<1>2. QED
  BY <1>1 DEF RoundsInv, NoFault

(* In a barrier nothing is asked of the rounds.                            *)
LEMMA InBarrier ==
  ASSUME RoundsInv, UNCHANGED <<server, fault>>, NEW c \in Clients, OtherClients(c),
         pc'[c] \in {"ping", "pong", "ready", "pingEnd", "pongEnd", "done"}
  PROVE  RoundsInv'
<1>1. ASSUME NEW q \in Of(c)
      PROVE  Rounds(q)'
  <2>1. q[1] = c
    BY DEF Of
  <2>2. QED
    BY <2>1 DEF Rounds, Looping
<1>2. QED
  BY <1>1, ClientRounds

LEMMA EnterBarrierRounds ==
  ASSUME IInv, RoundsInv, NEW c \in Clients, EnterBarrier(c)
  PROVE  RoundsInv'
<1>1. pc[c] \in {"enter", "enterEnd"}
  BY DEF EnterBarrier
<1>2. ASSUME NEW q \in Of(c)
      PROVE  RoomAtClient(q)
  <2>1. q \in Connections /\ q[1] = c
    BY DEF Of
  <2>2. Connected(q) /\ Typed(q) /\ Rounds(q)
    BY <2>1, Numbers DEF IInv, RoundsInv
  <2>3. doneAtClient[q] = <<>> /\ recvAtClient[q] < RDMA_MAX_WR
    <3>1. CASE pc[c] = "enter"
      <4>1. NotBegun(q) /\ ~ Pinged(q)
        BY <2>1, <2>2, <3>1 DEF Connected, Early, Pinged
      <4>2. doneAtClient[q] = <<>> /\ recvAtClient[q] = 0
        BY <2>1, <3>1, <4>1 DEF NotBegun
      <4>3. QED
        BY <4>2, Packing
    <3>2. CASE pc[c] = "enterEnd"
      <4>1. Ended(q) /\ ~ PingedEnd(q)
        BY <2>1, <2>2, <3>2 DEF Connected, Ending, PingedEnd
      <4>2. doneAtClient[q] = <<>>
        BY <2>1, <3>2, <4>1 DEF Ended
      <4>3. QED
        BY <2>1, <2>2, <3>2, <4>2 DEF Rounds
    <3>3. QED
      BY <1>1, <3>1, <3>2
  <2>4. Len(doneAtClient[q]) = 0
    BY <2>3
  <2>5. recvAtClient[q] \in Int /\ RDMA_MAX_WR \in Int
    BY <2>2 DEF Typed
  <2>6. recvAtClient[q] + 0 < RDMA_MAX_WR
    BY <2>3, <2>5
  <2>7. QED
    BY <2>4, <2>6 DEF RoomAtClient
<1>3. /\ recvAtClient' = Plus(recvAtClient, Of(c), 1)
      /\ pc' = [pc EXCEPT ![c] = IF @ = "enter" THEN "ping" ELSE "pingEnd"]
      /\ connIdx' = [connIdx EXCEPT ![c] = 1]
      /\ UNCHANGED <<sent, ackMsgCounter, workingConnections, totalBudgets, pendingMessages,
                     ackMsgCounters, inFlight, ack, recvAtServer, doneAtServer,
                     doneAtClient>>
      /\ UNCHANGED <<server, fault>>
  BY <1>2 DEF EnterBarrier, counts, wire, atServer
<1>4. ClientShape
  BY DEF IInv, Shape
<1>5. OtherClients(c)
  <2>1. \A q \in Connections : q[1] # c => recvAtClient'[q] = recvAtClient[q]
    BY <1>3 DEF Of, Plus
  <2>2. QED
    BY <1>3, <1>4, <2>1 DEF OtherClients, ClientShape, SameWire
<1>6. pc'[c] \in {"ping", "pingEnd"}
  BY <1>3, <1>4 DEF ClientShape
<1>7. QED
  BY <1>3, <1>5, <1>6, InBarrier

LEMMA PingRounds ==
  ASSUME IInv, RoundsInv, NEW c \in Clients, Ping(c)
  PROVE  RoundsInv'
<1>q. PICK q : q = <<c, connIdx[c]>>
  OBVIOUS
<1>1. q \in Connections /\ q[1] = c /\ recvAtServer[q] > 0
  BY <1>q, Here, PingFinds
<1> DEFINE last == connIdx[c] = ServerCount
<1>2. /\ recvAtServer' = [recvAtServer EXCEPT ![q] = @ - 1]
      /\ doneAtServer' = [doneAtServer EXCEPT ![q] = @ + 1]
      /\ connIdx' = [connIdx EXCEPT ![c] = IF last THEN 1 ELSE @ + 1]
      /\ pc[c] \in {"ping", "pingEnd"}
      /\ pc' = [pc EXCEPT ![c] = IF ~ last THEN @
                                 ELSE IF @ = "ping" THEN "pong" ELSE "pongEnd"]
      /\ UNCHANGED <<sent, ackMsgCounter, workingConnections, totalBudgets, pendingMessages,
                     ackMsgCounters, inFlight, ack, recvAtClient, doneAtClient>>
      /\ UNCHANGED <<server, fault>>
  BY <1>q, <1>1 DEF Ping, counts, wire, atClient
<1>3. ClientShape /\ ConnectionShape
  BY DEF IInv, Shape
<1>4. OtherClients(c)
  <2>1. \A p \in Connections : p[1] # c => p # q
    BY <1>1
  <2>2. \A p \in Connections : p # q =>
          recvAtServer'[p] = recvAtServer[p] /\ doneAtServer'[p] = doneAtServer[p]
    BY <1>2, <1>3 DEF ConnectionShape
  <2>3. QED
    BY <1>2, <1>3, <2>1, <2>2 DEF OtherClients, ClientShape, SameWire
<1>5. pc'[c] \in {"ping", "pingEnd", "pong", "pongEnd"}
  BY <1>2, <1>3 DEF ClientShape
<1>6. QED
  BY <1>2, <1>4, <1>5, InBarrier

LEMMA LeaveBarrierRounds ==
  ASSUME IInv, RoundsInv, NEW c \in Clients, LeaveBarrier(c)
  PROVE  RoundsInv'
<1>1. /\ doneAtClient' = [q \in Connections |->
           IF q \in Of(c) THEN Tail(doneAtClient[q]) ELSE doneAtClient[q]]
      /\ pc' = [pc EXCEPT ![c] = IF @ = "pong" THEN "ready" ELSE "done"]
      /\ UNCHANGED <<connIdx, sent, ackMsgCounter, workingConnections, totalBudgets,
                     pendingMessages, ackMsgCounters, inFlight, ack, recvAtServer,
                     doneAtServer, recvAtClient>>
      /\ UNCHANGED <<server, fault>>
  BY DEF LeaveBarrier, round, counts, wire, atServer
<1>2. ClientShape
  BY DEF IInv, Shape
<1>3. OtherClients(c)
  <2>1. \A q \in Connections : q[1] # c => doneAtClient'[q] = doneAtClient[q]
    BY <1>1 DEF Of
  <2>2. QED
    BY <1>1, <1>2, <2>1 DEF OtherClients, ClientShape, SameWire
<1>4. pc'[c] \in {"ready", "done"}
  BY <1>1, <1>2 DEF ClientShape
<1>5. QED
  BY <1>1, <1>3, <1>4, InBarrier

-----------------------------------------------------------------------------
(* From one round to the next.                                             *)

LEMMA StartRounds ==
  ASSUME IInv, RoundsInv, NEW c \in Clients, Start(c)
  PROVE  RoundsInv'
<1>1. /\ pc[c] = "ready" /\ pc' = [pc EXCEPT ![c] = "next"]
      /\ UNCHANGED <<connIdx, sent, ackMsgCounter, workingConnections, totalBudgets,
                     pendingMessages, ackMsgCounters, inFlight, ack, recvAtServer,
                     doneAtServer, recvAtClient, doneAtClient>>
      /\ UNCHANGED <<server, fault>>
  BY DEF Start, round, counts, wire, atServer, atClient
<1>2. ClientShape
  BY DEF IInv, Shape
<1>3. OtherClients(c)
  BY <1>1, <1>2 DEF OtherClients, ClientShape, SameWire
<1>4. pc'[c] = "next"
  BY <1>1, <1>2 DEF ClientShape
<1>5. ASSUME NEW q \in Of(c)
      PROVE  Rounds(q)'
  <2>1. q \in Connections /\ q[1] = c
    BY DEF Of
  <2>2. NotBegun(q)
    BY <1>1, <2>1 DEF IInv, Connected, Early
  <2>3. /\ totalBudgets'[q] = IterationsPerThread /\ pendingMessages'[q] = 0
        /\ ackMsgCounters'[q] = 0 /\ ack'[q] = None
        /\ recvAtClient'[q] = 0 /\ doneAtClient'[q] = <<>>
    BY <1>1, <2>1, <2>2 DEF NotBegun
  <2>4. ~ SendingOn(q)' /\ ~ PollingOn(q)' /\ SentNow(q)' = 0 /\ pc'[q[1]] # "enterEnd"
    BY <1>4, <2>1 DEF SendingOn, PollingOn, SentNow
  <2>5. Acked(q)' = 0 /\ Len(doneAtClient'[q]) = 0 /\ DOMAIN doneAtClient'[q] = {}
    BY <2>3, NoMessages DEF Acked
  <2>6. FirstRound(q)'
    <3>1. Place(q)' = 0
      BY <2>3, <2>4 DEF Place
    <3>2. QED
      BY <2>3, <2>4, <2>5, <3>1 DEF FirstRound
  <2>7. LaterRounds(q)' /\ EnoughLeft(q)'
    BY <2>3, IterationsAssumption DEF LaterRounds, EnoughLeft
  <2>8. NotFull(q)'
    BY <2>3, Packing DEF NotFull
  <2>9. InRound(q)' /\ FullPacks(q)'
    BY <2>3, <2>4, <2>5 DEF InRound, FullPacks
  <2>10. QED
    BY <2>4, <2>6, <2>7, <2>8, <2>9 DEF Rounds
<1>6. QED
  BY <1>1, <1>3, <1>5, ClientRounds

(* Who leaves the loop has nothing under way: no queue is full.            *)
LEMMA AdvanceRounds ==
  ASSUME IInv, IInv', RoundsInv, NEW c \in Clients, NEW working, pc[c] \in {"next", "poll"},
         Advance(c, working),
         pc[c] = "poll" => pendingMessages[<<c, connIdx[c]>>] # RDMA_MAX_WR,
         UNCHANGED <<sent, ackMsgCounter, counts, server, wire, atServer, atClient, fault>>
  PROVE  RoundsInv'
<1>1. ClientShape
  BY DEF IInv, Shape
<1>2. /\ UNCHANGED <<sent, ackMsgCounter, totalBudgets, pendingMessages, ackMsgCounters,
                     inFlight, ack, recvAtServer, doneAtServer, recvAtClient, doneAtClient>>
      /\ UNCHANGED <<server, fault>>
  BY DEF counts, wire, atServer, atClient
<1>3. OtherClients(c)
  BY <1>1, <1>2 DEF Advance, OtherClients, ClientShape, SameWire
<1>4. pc'[c] \in {"next", "enterEnd", "done"}
  BY <1>1 DEF Advance, AfterRun, ClientShape
<1>5. ASSUME NEW q \in Of(c)
      PROVE  Rounds(q)'
  <2>1. q \in Connections /\ q[1] = c
    BY DEF Of
  <2>2. SameData(q) /\ Rounds(q) /\ Looping(q[1])
    BY <1>2, <2>1 DEF SameData, SameServer, SameWire, server, RoundsInv, Looping
  <2>3. ~ SendingOn(q) /\ ~ SendingOn(q)' /\ ~ PollingOn(q)'
    BY <1>4, <2>1 DEF SendingOn, PollingOn
  <2>4. PollingOn(q) => pendingMessages[q] # RDMA_MAX_WR
    <3>1. q = <<q[1], q[2]>>
      BY <2>1, Pairs
    <3>2. QED
      BY <2>1, <3>1 DEF PollingOn
  <2>5. pc'[c] = "enterEnd" => recvAtClient'[q] < RDMA_MAX_WR
    <3> SUFFICES ASSUME pc'[c] = "enterEnd" PROVE recvAtClient'[q] < RDMA_MAX_WR
      OBVIOUS
    <3>1. Ended(q)'
      BY <2>1 DEF IInv, Connected, Ending
    <3>2. totalBudgets[q] = 0 /\ pendingMessages[q] = 0
      BY <1>2, <3>1 DEF Ended
    <3>3. recvAtClient[q] # RDMA_MAX_WR
      BY <2>2, <3>2, IterationsAssumption DEF Rounds, NotFull
    <3>4. recvAtClient[q] \in 0 .. RDMA_MAX_WR /\ RDMA_MAX_WR \in Int
      BY <2>1, Bounds, Packing DEF InBounds
    <3>5. recvAtClient[q] < RDMA_MAX_WR
      BY <3>3, <3>4
    <3>6. QED
      BY <1>2, <3>5
  <2>6. QED
    BY <2>1, <2>2, <2>3, <2>4, <2>5, RoundsElsewhere
<1>6. QED
  BY <1>2, <1>3, <1>5, ClientRounds

LEMMA EndRoundRounds ==
  ASSUME IInv, RoundsInv, NEW c \in Clients, EndRound(c)
  PROVE  RoundsInv'
<1>1. PICK working :
        /\ Advance(c, working)
        /\ pc[c] = "poll" /\ pendingMessages[<<c, connIdx[c]>>] # RDMA_MAX_WR
        /\ UNCHANGED <<sent, ackMsgCounter, counts, server, wire, atServer, atClient, fault>>
  BY DEF EndRound
<1>2. IInv'
  BY EndRoundKeeps
<1>3. pc[c] \in {"next", "poll"}
  BY <1>1
<1>4. QED
  BY <1>1, <1>2, <1>3, AdvanceRounds

(* The budgets that a round has. *)
LEMMA SendBudgets ==
  ASSUME IInv, NEW q \in Connections, UnderWay(q)
  PROVE  /\ sendBudget(q) \in Int /\ sendBudget(q) <= totalBudgets[q]
         /\ sendBudget(q) <= RDMA_MAX_WR - pendingMessages[q]
         /\ sendBudget(q) < totalBudgets[q] => sendBudget(q) = RDMA_MAX_WR - pendingMessages[q]
         /\ totalBudgets[q] > 0 /\ pendingMessages[q] < RDMA_MAX_WR => sendBudget(q) > 0
         /\ pendingMessages[q] = 0 /\ totalBudgets[q] = IterationsPerThread =>
              sendBudget(q) = AtMost(IterationsPerThread, RDMA_MAX_WR)
<1> DEFINE pending == pendingMessages[q]
           left    == totalBudgets[q]
<1>1. pending \in Int /\ left \in Int /\ RDMA_MAX_WR \in Int /\ IterationsPerThread \in Int
  BY Numbers DEF Typed
<1>2. sendBudget(q) = IF RDMA_MAX_WR - pending > left THEN left ELSE RDMA_MAX_WR - pending
  BY DEF sendBudget, AtMost
<1>3. AtMost(IterationsPerThread, RDMA_MAX_WR) =
        IF IterationsPerThread > RDMA_MAX_WR THEN RDMA_MAX_WR ELSE IterationsPerThread
  BY DEF AtMost
<1>4. QED
  <2> HIDE DEF pending, left
  <2>1. /\ sendBudget(q) \in Int /\ sendBudget(q) <= left
        /\ sendBudget(q) <= RDMA_MAX_WR - pending
        /\ sendBudget(q) < left => sendBudget(q) = RDMA_MAX_WR - pending
        /\ left > 0 /\ pending < RDMA_MAX_WR => sendBudget(q) > 0
        /\ pending = 0 /\ left = IterationsPerThread =>
             sendBudget(q) = AtMost(IterationsPerThread, RDMA_MAX_WR)
    BY <1>1, <1>2, <1>3
  <2>2. QED
    BY <2>1 DEF pending, left

LEMMA BeginRoundRounds ==
  ASSUME IInv, RoundsInv, NEW c \in Clients, BeginRound(c)
  PROVE  RoundsInv'
<1>q. PICK q : q = <<c, connIdx[c]>>
  OBVIOUS
<1>1. /\ connIdx[c] \in Servers /\ q \in Connections /\ InLoop(c) /\ q[1] = c /\ q[2] = connIdx[c]
  BY <1>q, Here
<1>2. pc[c] = "next"
  BY DEF BeginRound
<1>3. CASE DoneWith(q)
  <2>1. PICK working :
          /\ Advance(c, working)
          /\ UNCHANGED <<sent, ackMsgCounter, counts, server, wire, atServer, atClient, fault>>
    BY <1>q, <1>3 DEF BeginRound
  <2>2. IInv'
    BY BeginRoundKeeps
  <2>3. /\ pc[c] \in {"next", "poll"}
        /\ pc[c] = "poll" => pendingMessages[<<c, connIdx[c]>>] # RDMA_MAX_WR
    BY <1>2
  <2>4. QED
    BY <2>1, <2>2, <2>3, AdvanceRounds
<1>4. CASE ~ DoneWith(q)
  <2> DEFINE there == IF sendBudget(q) > 0 THEN "send" ELSE "poll"
  <2>1. /\ ackMsgCounter' = [ackMsgCounter EXCEPT ![c] = ackMsgCounters[q]]
        /\ pc' = [pc EXCEPT ![c] = there]
        /\ UNCHANGED <<connIdx, sent, workingConnections, totalBudgets, pendingMessages,
                       ackMsgCounters, inFlight, ack, recvAtServer, doneAtServer, recvAtClient,
                       doneAtClient>>
        /\ UNCHANGED <<server, fault>>
    BY <1>q, <1>4 DEF BeginRound, counts, wire, atServer, atClient
  <2>2. ClientShape
    BY DEF IInv, Shape
  <2>3. OtherClients(c)
    BY <2>1, <2>2 DEF OtherClients, ClientShape, SameWire
  <2>4. /\ pc'[c] = there /\ ackMsgCounter'[c] = ackMsgCounters[q] /\ connIdx'[c] = connIdx[c]
        /\ sent'[c] = sent[c] /\ sent[c] = 0
    BY <1>1, <1>2, <2>1, <2>2 DEF ClientShape, InLoop
  <2>5. ASSUME NEW p \in Of(c)
        PROVE  SameData(p) /\ Rounds(p) /\ Looping(p[1]) /\ p[1] = c /\ p \in Connections
    BY <1>2, <2>1 DEF SameData, SameServer, SameWire, server, RoundsInv, Looping, Of
  <2>6. ASSUME NEW p \in Of(c), p # q
        PROVE  Rounds(p)'
    <3>1. p[1] = c /\ p[2] # connIdx[c]
      BY <1>q, <2>5, <2>6, Pairs
    <3>2. ~ SendingOn(p) /\ ~ SendingOn(p)' /\ ~ PollingOn(p)' /\ ~ PollingOn(p)
      BY <2>4, <3>1 DEF SendingOn, PollingOn
    <3>3. pc'[p[1]] # "enterEnd"
      BY <2>4, <3>1
    <3>4. QED
      BY <2>5, <3>2, <3>3, RoundsElsewhere
  <2>7. Rounds(q)'
    <3>1. /\ SameData(q) /\ Rounds(q) /\ Looping(q[1]) /\ Typed(q) /\ UnderWay(q)
      BY <1>1, <2>5, Numbers DEF Of, IInv, Connected
    <3>2. /\ FirstRound(q) /\ LaterRounds(q) /\ EnoughLeft(q) /\ NotFull(q) /\ FullPacks(q)
      BY <3>1 DEF Rounds
    <3>3. /\ ~ SendingOn(q) /\ ~ PollingOn(q) /\ SentNow(q) = 0 /\ SentNow(q)' = 0
      BY <1>1, <1>2, <2>4 DEF SendingOn, PollingOn, SentNow
    <3>4. Place(q) = ackMsgCounters[q] /\ Place(q)' = Place(q)
      BY <1>1, <2>1, <2>4, <3>3 DEF Place, SendingOn
    <3>5. /\ totalBudgets'[q] = totalBudgets[q] /\ pendingMessages'[q] = pendingMessages[q]
          /\ recvAtClient'[q] = recvAtClient[q] /\ doneAtClient'[q] = doneAtClient[q]
          /\ ack'[q] = ack[q] /\ LastMessage(q)' = LastMessage(q) /\ Acked(q)' = Acked(q)
          /\ ackMsgCounters'[q] = ackMsgCounters[q] /\ sendBudget(q)' = sendBudget(q)
      BY <2>1, <3>1 DEF SameData, SameServer, SameWire, LastMessage, Acked, sendBudget
    <3>6. FirstRound(q)'
      <4>1. SUFFICES ASSUME totalBudgets[q] = IterationsPerThread
                     PROVE  ~ PollingOn(q)'
        BY <3>2, <3>3, <3>4, <3>5 DEF FirstRound
      <4>2. pendingMessages[q] = 0
        BY <3>2, <4>1 DEF FirstRound
      <4>3. sendBudget(q) > 0
        <5>1. 0 < RDMA_MAX_WR /\ IterationsPerThread > 0
          BY Packing, IterationsAssumption
        <5>2. totalBudgets[q] > 0 /\ pendingMessages[q] < RDMA_MAX_WR
          BY <4>1, <4>2, <5>1
        <5>3. QED
          BY <1>1, <3>1, <5>2, SendBudgets
      <4>4. pc'[q[1]] # "poll"
        BY <1>1, <2>4, <4>3
      <4>5. QED
        BY <4>4 DEF PollingOn
    <3>7. LaterRounds(q)' /\ EnoughLeft(q)' /\ NotFull(q)'
      BY <3>2, <3>3, <3>4, <3>5 DEF LaterRounds, EnoughLeft, NotFull
    <3>8. InRound(q)'
      <4>1. SUFFICES ASSUME SendingOn(q)' PROVE sendBudget(q) > 0
        BY <1>1, <2>4, <3>4, <3>5 DEF InRound
      <4>2. QED
        BY <1>1, <2>4, <4>1 DEF SendingOn
    <3>9. FullPacks(q)'
      BY <3>2, <3>5 DEF FullPacks
    <3>10. pc'[q[1]] # "enterEnd"
      BY <1>1, <2>4
    <3>11. QED
      BY <3>6, <3>7, <3>8, <3>9, <3>10 DEF Rounds
  <2>8. \A p \in Of(c) : Rounds(p)'
    BY <2>6, <2>7
  <2>9. QED
    BY <2>1, <2>3, <2>8, ClientRounds
<1>5. QED
  BY <1>3, <1>4

(* The connections of a client that its round is not about. *)
LEMMA NotHere ==
  ASSUME IInv, RoundsInv, NEW c \in Clients, pc[c] \in {"send", "poll"},
         pc'[c] \in {"send", "poll"}, connIdx'[c] = connIdx[c],
         NEW p \in Of(c), p # <<c, connIdx[c]>>, SameData(p)
  PROVE  Rounds(p)'
<1>1. p \in Connections /\ p[1] = c /\ p = <<p[1], p[2]>>
  BY Pairs DEF Of
<1>2. p[2] # connIdx[c]
  BY <1>1
<1>3. ~ SendingOn(p) /\ ~ SendingOn(p)' /\ ~ PollingOn(p)' /\ ~ PollingOn(p)
  BY <1>1, <1>2 DEF SendingOn, PollingOn
<1>4. Rounds(p) /\ Looping(p[1]) /\ pc'[p[1]] # "enterEnd"
  BY <1>1 DEF RoundsInv, Looping
<1>5. QED
  BY <1>1, <1>3, <1>4, RoundsElsewhere

(* What is known of the connection a round sends on. *)
LEMMA SendsHere ==
  ASSUME IInv, RoundsInv, NEW c \in Clients, NEW q \in Connections, q[1] = c,
         q[2] = connIdx[c], q = <<c, connIdx[c]>>, pc[c] = "send"
  PROVE  /\ Typed(q) /\ UnderWay(q) /\ Connected(q) /\ InLoop(c)
         /\ SendingOn(q) /\ ~ PollingOn(q) /\ SentNow(q) = sent[c] /\ Place(q) = ackMsgCounter[c]
         /\ FirstRound(q) /\ LaterRounds(q) /\ EnoughLeft(q) /\ NotFull(q) /\ InRound(q)
         /\ FullPacks(q)
         /\ sent[c] \in Int /\ 0 <= sent[c] /\ sent[c] <= sendBudget(q) /\ sendBudget(q) > 0
         /\ totalBudgets[q] > 0 /\ totalBudgets[q] <= IterationsPerThread
         /\ totalBudgets[q] # IterationsPerThread =>
              totalBudgets[q] < IterationsPerThread /\ Place(q) >= 1
<1>1. Looping(q[1]) /\ Rounds(q) /\ Connected(q) /\ Typed(q)
  BY Numbers DEF Looping, RoundsInv, IInv
<1>2. UnderWay(q)
  BY <1>1 DEF Connected
<1>3. SendingOn(q) /\ ~ PollingOn(q) /\ SentNow(q) = sent[c] /\ Place(q) = ackMsgCounter[c]
  BY DEF SendingOn, PollingOn, SentNow, Place
<1>4. /\ FirstRound(q) /\ LaterRounds(q) /\ EnoughLeft(q) /\ NotFull(q) /\ InRound(q)
      /\ FullPacks(q)
  BY <1>1 DEF Rounds
<1>5. sent[c] \in Int /\ sendBudget(q) \in Int /\ sendBudget(q) <= totalBudgets[q]
  BY <1>1, <1>2, SendBudgets DEF Typed
<1>6. InLoop(c) /\ sent[c] \in 0 .. sendBudget(q)
  BY DEF IInv, InLoop
<1>7. 0 <= sent[c] /\ sent[c] <= sendBudget(q) /\ sendBudget(q) > 0
  BY <1>3, <1>4, <1>5, <1>6 DEF InRound
<1>8. /\ totalBudgets[q] \in Int /\ IterationsPerThread \in Int
      /\ totalBudgets[q] <= IterationsPerThread
  BY <1>1, <1>2, IterationsAssumption DEF Typed, UnderWay, InRange
<1>9. totalBudgets[q] > 0
  BY <1>5, <1>7, <1>8
<1>10. totalBudgets[q] # IterationsPerThread =>
         totalBudgets[q] < IterationsPerThread /\ Place(q) >= 1
  <2> SUFFICES ASSUME totalBudgets[q] # IterationsPerThread
               PROVE  totalBudgets[q] < IterationsPerThread /\ Place(q) >= 1
    OBVIOUS
  <2>1. totalBudgets[q] < IterationsPerThread
    BY <1>8
  <2>2. QED
    BY <1>4, <1>9, <2>1 DEF LaterRounds
<1>11. QED
  BY <1>1, <1>2, <1>3, <1>4, <1>5, <1>6, <1>7, <1>8, <1>9, <1>10

(* The receive queue has room for the receives of the first round. *)
LEMMA SendHasRoom ==
  ASSUME IInv, RoundsInv, NEW c \in Clients, NEW q \in Connections, q[1] = c,
         q[2] = connIdx[c], q = <<c, connIdx[c]>>, pc[c] = "send", sent[c] < sendBudget(q),
         NeedsReceive(c)
  PROVE  RoomAtClient(q)
<1>1. /\ Typed(q) /\ UnderWay(q) /\ FirstRound(q)
      /\ Place(q) = ackMsgCounter[c] /\ SentNow(q) = sent[c]
      /\ totalBudgets[q] # IterationsPerThread => Place(q) >= 1
  BY SendsHere
<1>2. totalBudgets[q] = IterationsPerThread
  BY <1>1 DEF NeedsReceive
<1>3. pendingMessages[q] = 0 /\ recvAtClient[q] + Len(doneAtClient[q]) = sent[c]
  BY <1>1, <1>2 DEF FirstRound
<1>4. sendBudget(q) \in Int /\ sendBudget(q) <= RDMA_MAX_WR - pendingMessages[q]
  BY <1>1, SendBudgets
<1>5. sent[c] \in Int /\ RDMA_MAX_WR \in Int
  BY <1>1 DEF Typed
<1>6. sent[c] < RDMA_MAX_WR
  BY <1>3, <1>4, <1>5
<1>7. QED
  BY <1>3, <1>6 DEF RoomAtClient

LEMMA SendRounds ==
  ASSUME IInv, RoundsInv, NEW c \in Clients, Send(c)
  PROVE  RoundsInv'
<1>q. PICK q : q = <<c, connIdx[c]>>
  OBVIOUS
<1>0. /\ connIdx[c] \in Servers /\ q \in Connections /\ q[1] = c /\ q[2] = connIdx[c]
  BY <1>q, Here
<1>1. pc[c] = "send" /\ sent[c] < sendBudget(q)
  BY <1>q DEF Send
<1>2. NeedsReceive(c) => RoomAtClient(q)
  BY <1>q, <1>0, <1>1, SendHasRoom
<1> DEFINE n == IF NeedsReceive(c) THEN 1 ELSE 0
<1>3. /\ recvAtClient' = Plus(recvAtClient, IF NeedsReceive(c) THEN {q} ELSE {}, 1)
      /\ ackMsgCounters' = [ackMsgCounters EXCEPT ![q] = NextPlace(ackMsgCounter[c])]
      /\ inFlight' = [inFlight EXCEPT ![q] = @ + 1]
      /\ sent' = [sent EXCEPT ![c] = @ + 1]
      /\ UNCHANGED <<pc, connIdx, ackMsgCounter, workingConnections, totalBudgets,
                     pendingMessages, ack, recvAtServer, doneAtServer, doneAtClient>>
      /\ UNCHANGED <<server, fault>>
  BY <1>q, <1>2 DEF Send, NextPlace, atServer
<1>4. ClientShape /\ CountsShape /\ ConnectionShape
  BY DEF IInv, Shape
<1>5. \A p \in Connections : p # q =>
        recvAtClient'[p] = recvAtClient[p] /\ ackMsgCounters'[p] = ackMsgCounters[p]
          /\ inFlight'[p] = inFlight[p]
  BY <1>3, <1>4 DEF Plus, CountsShape, ConnectionShape
<1>6. OtherClients(c)
  <2>1. \A p \in Connections : p[1] # c => p # q
    BY <1>0
  <2>2. QED
    BY <1>3, <1>4, <1>5, <2>1 DEF OtherClients, ClientShape, SameWire
<1>7. pc'[c] = "send" /\ sent'[c] = sent[c] + 1 /\ connIdx'[c] = connIdx[c]
  BY <1>1, <1>3, <1>4 DEF ClientShape
<1>8. ackMsgCounters'[q] = NextPlace(ackMsgCounter[c]) /\ recvAtClient'[q] = recvAtClient[q] + n
  <2>1. ackMsgCounters'[q] = NextPlace(ackMsgCounter[c])
    BY <1>0, <1>3, <1>4 DEF CountsShape
  <2>2. recvAtClient[q] + 0 = recvAtClient[q]
    BY <1>0, <1>4 DEF ConnectionShape
  <2>3. recvAtClient'[q] = recvAtClient[q] + n
    BY <1>0, <1>3, <2>2 DEF Plus
  <2>4. QED
    BY <2>1, <2>3
<1>9. ASSUME NEW p \in Of(c), p # q
      PROVE  Rounds(p)'
  <2>1. p \in Connections
    BY DEF Of
  <2>2. SameData(p)
    BY <1>3, <1>5, <1>9, <2>1 DEF SameData, SameServer, SameWire, server
  <2>3. pc[c] \in {"send", "poll"} /\ pc'[c] \in {"send", "poll"}
    BY <1>1, <1>7
  <2>4. QED
    BY <1>q, <1>7, <1>9, <2>2, <2>3, NotHere
<1>10. Rounds(q)'
  <2>1. /\ Typed(q) /\ UnderWay(q) /\ SentNow(q) = sent[c] /\ Place(q) = ackMsgCounter[c]
        /\ FirstRound(q) /\ LaterRounds(q) /\ EnoughLeft(q) /\ NotFull(q) /\ InRound(q)
        /\ FullPacks(q) /\ ~ PollingOn(q) /\ sendBudget(q) > 0
        /\ sent[c] \in Int /\ 0 <= sent[c]
        /\ totalBudgets[q] # IterationsPerThread =>
             totalBudgets[q] < IterationsPerThread /\ Place(q) >= 1
    BY <1>q, <1>0, <1>1, SendsHere
  <2>2. /\ totalBudgets'[q] = totalBudgets[q] /\ pendingMessages'[q] = pendingMessages[q]
        /\ doneAtClient'[q] = doneAtClient[q] /\ ack'[q] = ack[q]
        /\ LastMessage(q)' = LastMessage(q) /\ Acked(q)' = Acked(q)
        /\ sendBudget(q)' = sendBudget(q)
    BY <1>3 DEF server, LastMessage, Acked, sendBudget
  <2>3. /\ SendingOn(q)' /\ ~ PollingOn(q)' /\ SentNow(q)' = sent[c] + 1
        /\ Place(q)' = Place(q)
    BY <1>0, <1>3, <1>7, <2>1 DEF SendingOn, PollingOn, SentNow, Place
  <2>4. /\ totalBudgets[q] = IterationsPerThread => n = 1
        /\ totalBudgets[q] # IterationsPerThread => n = 0
    BY <2>1 DEF FirstRound, NeedsReceive
  <2> DEFINE recv    == recvAtClient[q]
             arrived == Acked(q)
             now     == sent[c]
  <2>5. recv \in Int /\ arrived \in Int /\ now \in Int /\ now >= 0
    BY <2>1 DEF Typed
  <2>6. FirstRound(q)'
    <3>1. SUFFICES ASSUME totalBudgets[q] = IterationsPerThread
                   PROVE  /\ recvAtClient'[q] + Len(doneAtClient[q]) = sent[c] + 1
                          /\ recvAtClient'[q] + Acked(q) >= sent[c] + 1
      BY <2>1, <2>2, <2>3 DEF FirstRound
    <3>2. recvAtClient'[q] = recv + 1
      BY <1>8, <2>4, <3>1
    <3>3. recv + Len(doneAtClient[q]) = now /\ recv + arrived >= now
      BY <2>1, <3>1 DEF FirstRound
    <3>4. PICK l \in Nat : l = Len(doneAtClient[q])
      BY <1>0, <1>4 DEF ConnectionShape
    <3>5. recv + l = now
      BY <3>3, <3>4
    <3>6. recv + 1 + l = now + 1 /\ recv + 1 + arrived >= now + 1
      <4> HIDE DEF recv, arrived, now
      <4>1. QED
        BY <2>5, <3>3, <3>5
    <3>7. QED
      BY <3>2, <3>4, <3>6
  <2>7. LaterRounds(q)'
    BY <2>1, <2>2, <2>3 DEF LaterRounds
  <2>8. EnoughLeft(q)'
    <3>1. SUFFICES ASSUME totalBudgets[q] < IterationsPerThread
                   PROVE  recvAtClient'[q] = recvAtClient[q]
      BY <2>1, <2>2 DEF EnoughLeft
    <3>2. totalBudgets[q] # IterationsPerThread
      BY <2>1, <3>1 DEF Typed
    <3>3. QED
      BY <1>8, <2>4, <2>5, <3>2
  <2>9. NotFull(q)'
    <3>1. CASE totalBudgets[q] = IterationsPerThread
      <4>1. pendingMessages[q] = 0
        BY <2>1, <3>1 DEF FirstRound
      <4>2. QED
        BY <2>2, <3>1, <4>1, IterationsAssumption DEF NotFull
    <3>2. CASE totalBudgets[q] # IterationsPerThread
      <4>1. recvAtClient'[q] = recvAtClient[q]
        BY <1>8, <2>4, <2>5, <3>2
      <4>2. QED
        BY <2>1, <2>2, <4>1 DEF NotFull
    <3>3. QED
      BY <3>1, <3>2
  <2>10. InRound(q)'
    <3>1. sent'[q[1]] # 0
      BY <1>0, <1>7, <2>5
    <3>2. QED
      BY <1>8, <2>1, <2>2, <2>3, <3>1 DEF InRound
  <2>11. FullPacks(q)'
    BY <2>1, <2>2 DEF FullPacks
  <2>12. pc'[q[1]] # "enterEnd"
    BY <1>0, <1>7
  <2>13. QED
    BY <2>6, <2>7, <2>8, <2>9, <2>10, <2>11, <2>12 DEF Rounds
<1>11. \A p \in Of(c) : Rounds(p)'
  BY <1>9, <1>10
<1>12. QED
  BY <1>3, <1>6, <1>11, ClientRounds

(* Full packs stand for as many messages each. *)
LEMMA FullyAcked ==
  ASSUME NEW s \in Seq(Int), NEW P \in Nat, \A i \in DOMAIN s : s[i] = P
  PROVE  Cardinality(Messages(s)) = P * Len(s)
<1>1. Len(s) \in Nat /\ DOMAIN s = 1 .. Len(s)
  OBVIOUS
<1>2. Messages(s) = (1 .. Len(s)) \X (1 .. P)
  <2>1. ASSUME NEW m, m \in Messages(s)
        PROVE  m \in (1 .. Len(s)) \X (1 .. P)
    <3>1. PICK i \in 1 .. Len(s) : \E k \in 1 .. s[i] : m = <<i, k>>
      BY <2>1, Members
    <3>2. s[i] = P
      BY <1>1
    <3>3. QED
      BY <3>1, <3>2
  <2>2. ASSUME NEW i \in 1 .. Len(s), NEW k \in 1 .. P
        PROVE  <<i, k>> \in Messages(s)
    <3>1. s[i] = P
      BY <1>1
    <3>2. QED
      BY <3>1, Members
  <2>3. QED
    BY <2>1, <2>2
<1>3. /\ IsFiniteSet(1 .. Len(s)) /\ Cardinality(1 .. Len(s)) = Len(s)
      /\ IsFiniteSet(1 .. P) /\ Cardinality(1 .. P) = P
  BY <1>1, Intervals
<1>4. Cardinality(Messages(s)) = Len(s) * P
  <2>1. PICK S, T : S = 1 .. Len(s) /\ T = 1 .. P
    OBVIOUS
  <2>2. Cardinality(S \X T) = Cardinality(S) * Cardinality(T)
    BY <1>3, <2>1, FS_Product
  <2>3. QED
    BY <1>2, <1>3, <2>1, <2>2
<1>5. ASSUME NEW l \in Nat
      PROVE  l * P = P * l
  OBVIOUS
<1>6. QED
  BY <1>1, <1>4, <1>5

(* The receives of the first round are enough, however the server packs.   *)
LEMMA FirstRoundSuffices ==
  ASSUME IInv, RunIsShort, NEW q \in Connections, UnderWay(q), FirstRound(q), FullPacks(q),
         totalBudgets[q] = IterationsPerThread, SentNow(q) = sendBudget(q)
  PROVE  ackMsgPacking * recvAtClient[q] >= pendingMessages[q] + totalBudgets[q] - Acked(q)
<1>1. /\ Typed(q) /\ pendingMessages[q] = 0
      /\ recvAtClient[q] + Len(doneAtClient[q]) = SentNow(q)
      /\ recvAtClient[q] + Acked(q) >= SentNow(q)
      /\ doneAtClient[q] \in Seq(Int) /\ recvAtClient[q] >= 0
  BY Numbers DEF FirstRound, IInv, Shape, ConnectionShape, Connected
<1>2. SentNow(q) = AtMost(IterationsPerThread, RDMA_MAX_WR)
  BY <1>1, SendBudgets
<1> DEFINE recv    == recvAtClient[q]
           arrived == Acked(q)
           now     == SentNow(q)
           N       == IterationsPerThread
           P       == ackMsgPacking
<1>3. PICK l \in Nat : l = Len(doneAtClient[q])
  BY <1>1
<1>4. /\ recv \in Int /\ arrived \in Int /\ now \in Int /\ N \in Int /\ P \in Nat /\ P >= 1
      /\ recv + l = now /\ recv + arrived >= now /\ recv >= 0 /\ P * now >= N
  <2>1. recv \in Int /\ arrived \in Int /\ now \in Int /\ N \in Int /\ P \in Nat /\ P >= 1
    BY <1>1, Packing DEF Typed
  <2>2. recv + l = now /\ recv + arrived >= now /\ recv >= 0
    BY <1>1, <1>3
  <2>3. P * now >= N
    BY <1>2, PacksSuffice
  <2>4. QED
    BY <2>1, <2>2, <2>3
<1>5. CASE LastMessage(q)
  <2> DEFINE under == inFlight[q]
             there == doneAtServer[q]
  <2>1. under \in Int /\ there \in Int /\ under >= 0 /\ there >= 0
    BY <1>1 DEF Typed, UnderWay, InRange
  <2>2. 0 + 0 + now = N + under + there
    BY <1>5 DEF UnderWay, MessagesCounted, LastMessage
  <2>3. P * recv >= N - arrived
    <3> HIDE DEF recv, arrived, now, N, P, under, there
    <3>1. P * recv >= recv
      BY <1>4
    <3>2. PICK x \in Int : x = P * recv
      BY <1>4
    <3>3. QED
      BY <1>4, <2>1, <2>2, <3>1, <3>2
  <2>4. 0 + N - arrived = N - arrived
    BY <1>4
  <2>5. QED
    BY <1>1, <2>3, <2>4
<1>6. CASE ~ LastMessage(q)
  <2>1. arrived = P * l
    <3>1. \A i \in DOMAIN doneAtClient[q] : doneAtClient[q][i] = ackMsgPacking
      BY <1>6 DEF FullPacks
    <3>2. QED
      BY <1>1, <1>3, <1>4, <3>1, FullyAcked DEF Acked
  <2>2. P * recv >= N - arrived
    <3> HIDE DEF recv, arrived, now, N, P
    <3>1. P * (recv + l) = P * recv + P * l
      BY <1>4
    <3>2. PICK x \in Int : x = P * recv
      BY <1>4
    <3>3. x + arrived >= N
      BY <1>4, <2>1, <3>1, <3>2
    <3>4. QED
      BY <1>4, <3>2, <3>3
  <2>3. 0 + N - arrived = N - arrived
    BY <1>4
  <2>4. QED
    BY <1>1, <2>2, <2>3
<1>7. QED
  BY <1>5, <1>6

(* A round that is not the last moves the place by one and uses up the     *)
(* window.                                                                 *)
LEMMA PlaceMoves ==
  ASSUME IInv, RunIsShort, NEW q \in Connections, UnderWay(q), FirstRound(q), LaterRounds(q),
         ~ PollingOn(q), Place(q) \in Int, SentNow(q) = sendBudget(q),
         0 < sendBudget(q), sendBudget(q) < totalBudgets[q]
  PROVE  /\ NextPlace(Place(q)) >= 1
         /\ IterationsPerThread - (totalBudgets[q] - SentNow(q)) >=
              RDMA_MAX_WR + (NextPlace(Place(q)) - 1) * ackMsgPacking
         /\ pendingMessages[q] + SentNow(q) = RDMA_MAX_WR
<1> DEFINE pending == pendingMessages[q]
           now     == SentNow(q)
           left    == totalBudgets[q]
           place   == Place(q)
           N       == IterationsPerThread
           M       == RDMA_MAX_WR
           P       == ackMsgPacking
<1>1. /\ pending \in Int /\ now \in Int /\ left \in Int /\ N \in Int /\ M \in Int /\ P \in Nat
      /\ P >= 1 /\ left <= N
  BY Numbers, Packing DEF Typed, UnderWay, InRange
<1>2. now = M - pending /\ now < left /\ 0 < now
  BY SendBudgets
<1>3. pending >= 0
  BY DEF UnderWay, InRange
<1>4. 0 <= place /\ N - (left - now) >= M + place * P
  <2>1. CASE left = N
    <3>1. place = 0 /\ pending = 0
      BY <2>1 DEF FirstRound
    <3>2. 0 <= place /\ N - (left - now) >= M + place * P
      <4> HIDE DEF pending, now, left, place, N, M, P
      <4>1. place * P = 0
        BY <1>1, <3>1
      <4>2. QED
        BY <1>1, <1>2, <2>1, <3>1, <4>1
    <3>3. QED
      BY <3>2
  <2>2. CASE left # N
    <3>1. 0 < left /\ left < N
      <4> HIDE DEF pending, now, left, N, M
      <4>1. QED
        BY <1>1, <1>2, <2>2
    <3>2. place >= 1 /\ N - left >= M + (place - 1) * P /\ pending <= M - P
      BY <3>1 DEF LaterRounds
    <3>3. 0 <= place /\ N - (left - now) >= M + place * P
      <4>1. place \in Int
        OBVIOUS
      <4> HIDE DEF pending, now, left, place, N, M, P
      <4>2. (place - 1) * P = place * P - P
        BY <1>1, <4>1
      <4>3. PICK x \in Int : x = place * P
        BY <1>1, <4>1
      <4>4. now >= P
        BY <1>1, <1>2, <3>2
      <4>5. N - left >= M + (x - P)
        BY <3>2, <4>2, <4>3
      <4>6. N - (left - now) >= M + x
        BY <1>1, <4>3, <4>4, <4>5
      <4>7. QED
        BY <3>2, <4>1, <4>3, <4>6
    <3>4. QED
      BY <3>3
  <2>3. QED
    BY <2>1, <2>2
<1>5. left - now \in Int /\ 0 < left - now
  <2> HIDE DEF left, now
  <2>1. QED
    BY <1>1, <1>2
<1>6. PICK tb : tb = left - now
  OBVIOUS
<1>7. /\ NextPlace(place) = place + 1 /\ place + 1 >= 1
      /\ (NextPlace(place) - 1) * P = place * P
  <2>1. tb \in Int /\ 0 < tb /\ N - tb >= M + place * P /\ 0 <= place
    BY <1>4, <1>5, <1>6
  <2>2. QED
    BY <2>1, LastPlace
<1>8. pending + now = M
  <2> HIDE DEF pending, now, M
  <2>1. QED
    BY <1>1, <1>2
<1>9. NextPlace(place) >= 1
  BY <1>7
<1>10. N - (left - now) >= M + (NextPlace(place) - 1) * P
  BY <1>4, <1>7
<1>11. QED
  BY <1>8, <1>9, <1>10

LEMMA EndSendingRounds ==
  ASSUME IInv, RoundsInv, RunIsShort, NEW c \in Clients, EndSending(c)
  PROVE  RoundsInv'
<1>q. PICK q : q = <<c, connIdx[c]>>
  OBVIOUS
<1>0. /\ connIdx[c] \in Servers /\ q \in Connections /\ q[1] = c /\ q[2] = connIdx[c]
  BY <1>q, Here
<1>1. /\ pc[c] = "send" /\ sent[c] = sendBudget(q)
      /\ totalBudgets' = [totalBudgets EXCEPT ![q] = @ - sent[c]]
      /\ pendingMessages' = [pendingMessages EXCEPT ![q] = @ + sent[c]]
      /\ sent' = [sent EXCEPT ![c] = 0]
      /\ pc' = [pc EXCEPT ![c] = "poll"]
      /\ UNCHANGED <<connIdx, ackMsgCounter, workingConnections, ackMsgCounters,
                     inFlight, ack, recvAtServer, doneAtServer, recvAtClient, doneAtClient>>
      /\ UNCHANGED <<server, fault>>
  BY <1>q DEF EndSending, wire, atServer, atClient
<1>2. ClientShape /\ CountsShape
  BY DEF IInv, Shape
<1>3. \A p \in Connections : p # q =>
        totalBudgets'[p] = totalBudgets[p] /\ pendingMessages'[p] = pendingMessages[p]
  BY <1>1, <1>2 DEF CountsShape
<1>4. OtherClients(c)
  <2>1. \A p \in Connections : p[1] # c => p # q
    BY <1>0
  <2>2. QED
    BY <1>1, <1>2, <1>3, <2>1 DEF OtherClients, ClientShape, SameWire
<1>5. pc'[c] = "poll" /\ connIdx'[c] = connIdx[c]
  BY <1>1, <1>2 DEF ClientShape
<1>6. ASSUME NEW p \in Of(c), p # q
      PROVE  Rounds(p)'
  <2>1. p \in Connections
    BY DEF Of
  <2>2. SameData(p)
    BY <1>1, <1>3, <1>6, <2>1 DEF SameData, SameServer, SameWire, server
  <2>3. pc[c] \in {"send", "poll"} /\ pc'[c] \in {"send", "poll"}
    BY <1>1, <1>5
  <2>4. QED
    BY <1>q, <1>5, <1>6, <2>2, <2>3, NotHere
<1>7. Rounds(q)'
  <2>1. /\ Typed(q) /\ UnderWay(q) /\ SentNow(q) = sent[c] /\ Place(q) = ackMsgCounter[c]
        /\ FirstRound(q) /\ LaterRounds(q) /\ EnoughLeft(q) /\ NotFull(q) /\ InRound(q)
        /\ FullPacks(q) /\ SendingOn(q) /\ ~ PollingOn(q) /\ sendBudget(q) > 0
        /\ sent[c] \in Int /\ totalBudgets[q] <= IterationsPerThread
        /\ totalBudgets[q] # IterationsPerThread => totalBudgets[q] < IterationsPerThread
    BY <1>q, <1>0, <1>1, SendsHere
  <2>2. /\ doneAtClient'[q] = doneAtClient[q] /\ ack'[q] = ack[q]
        /\ recvAtClient'[q] = recvAtClient[q]
        /\ LastMessage(q)' = LastMessage(q) /\ Acked(q)' = Acked(q)
    BY <1>1 DEF server, LastMessage, Acked
  <2>3. totalBudgets'[q] = totalBudgets[q] - sent[c] /\ pendingMessages'[q] = pendingMessages[q] + sent[c]
    BY <1>0, <1>1, <1>2 DEF CountsShape
  <2>4. /\ ~ SendingOn(q)' /\ PollingOn(q)'
    BY <1>0, <1>5 DEF SendingOn, PollingOn
  <2>5. Place(q)' = NextPlace(Place(q))
    <3>1. Place(q)' = ackMsgCounters[q]
      BY <1>1, <2>4 DEF Place
    <3>2. sent[q[1]] # 0
      BY <1>0, <1>1, <2>1
    <3>3. QED
      BY <2>1, <3>1, <3>2 DEF InRound
  <2> DEFINE recv    == recvAtClient[q]
             arrived == Acked(q)
             pending == pendingMessages[q]
             now     == sent[c]
             left    == totalBudgets[q]
             N       == IterationsPerThread
  <2>6. /\ recv \in Int /\ arrived \in Int /\ pending \in Int /\ now \in Int /\ left \in Int
        /\ N \in Int /\ now > 0 /\ left <= N
    BY <1>1, <2>1 DEF Typed
  <2>7. left - now < N /\ (pending + now) + (left - now) = pending + left
    <3> HIDE DEF pending, now, left, N
    <3>1. QED
      BY <2>6
  <2>8. FirstRound(q)'
    BY <2>3, <2>6, <2>7 DEF FirstRound
  <2>9. LaterRounds(q)'
    <3>1. SUFFICES ASSUME 0 < left - now
                   PROVE  /\ NextPlace(Place(q)) >= 1
                          /\ N - (left - now) >= RDMA_MAX_WR + (NextPlace(Place(q)) - 1) * ackMsgPacking
                          /\ pending + now = RDMA_MAX_WR
      BY <2>3, <2>4, <2>5 DEF LaterRounds
    <3>2. sendBudget(q) < totalBudgets[q]
      <4>1. now < left
        <5> HIDE DEF now, left
        <5>1. QED
          BY <2>6, <3>1
      <4>2. QED
        BY <1>1, <4>1
    <3>3. Place(q) \in Int
      BY <2>1, <1>2 DEF ClientShape
    <3>4. SentNow(q) = sendBudget(q) /\ 0 < sendBudget(q)
      BY <1>1, <2>1, <2>6
    <3>5. /\ NextPlace(Place(q)) >= 1
          /\ IterationsPerThread - (totalBudgets[q] - SentNow(q)) >=
               RDMA_MAX_WR + (NextPlace(Place(q)) - 1) * ackMsgPacking
          /\ pendingMessages[q] + SentNow(q) = RDMA_MAX_WR
      BY <1>0, <2>1, <3>2, <3>3, <3>4, PlaceMoves
    <3>6. QED
      BY <2>1, <3>5
  <2>10. EnoughLeft(q)'
    <3>1. ackMsgPacking * recv >= pending + left - arrived
      <4>1. CASE totalBudgets[q] = IterationsPerThread
        BY <1>0, <1>1, <2>1, <4>1, FirstRoundSuffices
      <4>2. CASE totalBudgets[q] # IterationsPerThread
        BY <2>1, <4>2 DEF EnoughLeft
      <4>3. QED
        BY <4>1, <4>2
    <3>2. ackMsgPacking * recv >= (pending + now) + (left - now) - arrived
      <4> HIDE DEF recv, arrived, pending, now, left
      <4>1. (pending + now) + (left - now) - arrived = pending + left - arrived
        BY <2>6
      <4>2. QED
        BY <3>1, <4>1
    <3>3. QED
      BY <2>2, <2>3, <3>2 DEF EnoughLeft
  <2>11. NotFull(q)'
    BY <2>1, <2>2, <2>3, <2>7 DEF NotFull
  <2>12. InRound(q)' /\ FullPacks(q)'
    BY <2>1, <2>2, <2>4 DEF InRound, FullPacks
  <2>13. pc'[q[1]] # "enterEnd"
    BY <1>0, <1>5
  <2>14. QED
    BY <2>8, <2>9, <2>10, <2>11, <2>12, <2>13 DEF Rounds
<1>8. \A p \in Of(c) : Rounds(p)'
  BY <1>6, <1>7
<1>9. QED
  BY <1>1, <1>4, <1>8, ClientRounds

LEMMA PollAckRounds ==
  ASSUME IInv, RoundsInv, NEW c \in Clients, PollAck(c)
  PROVE  RoundsInv'
<1>q. PICK q : q = <<c, connIdx[c]>>
  OBVIOUS
<1>0. /\ connIdx[c] \in Servers /\ q \in Connections /\ q[1] = c /\ q[2] = connIdx[c]
  BY <1>q, Here
<1>1. /\ pc[c] = "poll" /\ doneAtClient[q] # <<>>
      /\ pendingMessages' = [pendingMessages EXCEPT ![q] = @ - Head(doneAtClient[q])]
      /\ doneAtClient' = [doneAtClient EXCEPT ![q] = Tail(@)]
      /\ UNCHANGED <<pc, connIdx, sent, ackMsgCounter, workingConnections, totalBudgets,
                     ackMsgCounters, inFlight, ack, recvAtServer, doneAtServer, recvAtClient>>
      /\ UNCHANGED <<server, fault>>
  BY <1>q DEF PollAck, round, wire, atServer
<1>2. CountsShape /\ ConnectionShape
  BY DEF IInv, Shape
<1>3. \A p \in Connections : p # q =>
        doneAtClient'[p] = doneAtClient[p] /\ pendingMessages'[p] = pendingMessages[p]
  BY <1>1, <1>2 DEF CountsShape, ConnectionShape
<1>4. OtherClients(c)
  <2>1. \A p \in Connections : p[1] # c => p # q
    BY <1>0
  <2>2. QED
    BY <1>1, <1>3, <2>1 DEF OtherClients, SameWire
<1>5. ASSUME NEW p \in Of(c), p # q
      PROVE  Rounds(p)'
  <2>1. p \in Connections
    BY DEF Of
  <2>2. SameData(p)
    BY <1>1, <1>3, <1>5, <2>1 DEF SameData, SameServer, SameWire, server
  <2>3. pc[c] \in {"send", "poll"} /\ pc'[c] \in {"send", "poll"} /\ connIdx'[c] = connIdx[c]
    BY <1>1
  <2>4. QED
    BY <1>q, <1>5, <2>2, <2>3, NotHere
<1>6. Rounds(q)'
  <2>1. Looping(q[1]) /\ Rounds(q) /\ Connected(q) /\ Typed(q) /\ pc[q[1]] # "enterEnd"
    BY <1>0, <1>1, Numbers DEF Looping, RoundsInv, IInv
  <2>2. /\ FirstRound(q) /\ LaterRounds(q) /\ EnoughLeft(q) /\ NotFull(q) /\ FullPacks(q)
        /\ UnderWay(q)
    BY <2>1 DEF Rounds, Connected
  <2>3. /\ PollingOn(q) /\ PollingOn(q)' /\ ~ SendingOn(q) /\ ~ SendingOn(q)'
        /\ SentNow(q) = 0 /\ Place(q)' = Place(q)
    BY <1>0, <1>1 DEF PollingOn, SendingOn, SentNow, Place
  <2>4. PICK h : h = doneAtClient[q][1]
    OBVIOUS
  <2>5. /\ doneAtClient[q] \in Seq(Int) /\ doneAtClient'[q] = Tail(doneAtClient[q])
        /\ pendingMessages'[q] = pendingMessages[q] - h
    <3>1. doneAtClient[q] \in Seq(Int) /\ doneAtClient'[q] = Tail(doneAtClient[q])
      BY <1>0, <1>1, <1>2 DEF ConnectionShape
    <3>2. Head(doneAtClient[q]) = h
      BY <1>1, <2>4, <3>1
    <3>3. QED
      BY <1>0, <1>1, <1>2, <3>1, <3>2 DEF CountsShape
  <2>6. 1 \in DOMAIN doneAtClient[q] /\ Len(doneAtClient[q]) \in Nat /\ Len(doneAtClient[q]) >= 1
    BY <1>1, <2>5
  <2>7. h \in Nat
    <3>1. h \in 1 .. ackMsgPacking
      BY <2>2, <2>4, <2>6 DEF UnderWay, AcksInRange
    <3>2. QED
      BY <3>1, Packing
  <2>8. Acked(q) = h + Acked(q)'
    BY <1>1, <2>4, <2>5, <2>7, MessagesTail DEF Acked
  <2>9. Acked(q)' \in Nat
    <3>1. Tail(doneAtClient[q]) \in Seq(Int)
      BY <1>1, <2>5
    <3>2. QED
      BY <2>5, <3>1, MessagesFinite DEF Acked
  <2>10. /\ totalBudgets'[q] = totalBudgets[q] /\ ack'[q] = ack[q]
         /\ recvAtClient'[q] = recvAtClient[q] /\ LastMessage(q)' = LastMessage(q)
    BY <1>1 DEF server, LastMessage
  <2> DEFINE pending == pendingMessages[q]
             left    == totalBudgets[q]
             rest    == Acked(q)'
             M       == RDMA_MAX_WR
             P       == ackMsgPacking
  <2>11. /\ pending \in Int /\ left \in Int /\ rest \in Int /\ M \in Int /\ P \in Nat
         /\ h \in Int
    BY <2>1, <2>7, <2>9, Packing DEF Typed
  <2>12. FirstRound(q)'
    BY <2>2, <2>3, <2>10 DEF FirstRound
  <2>13. LaterRounds(q)'
    <3>1. SUFFICES ASSUME 0 < left, left < IterationsPerThread
                   PROVE  pendingMessages'[q] <= M - P
      BY <2>2, <2>3, <2>10 DEF LaterRounds
    <3>2. ~ LastMessage(q)
      <4> SUFFICES ASSUME LastMessage(q) PROVE FALSE
        OBVIOUS
      <4> DEFINE under == inFlight[q]
                 there == doneAtServer[q]
      <4>1. under \in Int /\ there \in Int /\ under >= 0 /\ there >= 0
        BY <2>1, <2>2 DEF Typed, UnderWay, InRange
      <4>2. 0 + 0 + 0 = left + under + there
        BY <2>2, <2>3 DEF UnderWay, MessagesCounted, LastMessage
      <4> HIDE DEF left, under, there
      <4>3. QED
        BY <2>11, <3>1, <4>1, <4>2
    <3>3. h = P
      BY <2>2, <2>4, <2>6, <3>2 DEF FullPacks
    <3>4. pending + 0 <= M
      BY <2>2, <2>3 DEF UnderWay, InRange
    <3>5. pending - h <= M - P
      <4> HIDE DEF pending, M, P
      <4>1. QED
        BY <2>11, <3>3, <3>4
    <3>6. QED
      BY <2>5, <3>5
  <2>14. EnoughLeft(q)'
    <3>1. (pending - h) + left - rest = pending + left - Acked(q)
      <4>1. Acked(q) = h + rest
        BY <2>8
      <4> HIDE DEF pending, left, rest
      <4>2. QED
        BY <2>11, <4>1
    <3>2. QED
      BY <2>2, <2>5, <2>10, <3>1 DEF EnoughLeft
  <2>15. NotFull(q)'
    <3>1. recvAtClient[q] # M
      <4>1. PICK l \in Nat : l = Len(doneAtClient[q])
        BY <2>6
      <4>2. recvAtClient[q] + l <= M /\ l >= 1 /\ recvAtClient[q] \in Int
        BY <2>1, <2>6, <4>1 DEF Connected, Typed
      <4> HIDE DEF M
      <4>3. QED
        BY <2>11, <4>2
    <3>2. QED
      BY <2>10, <3>1 DEF NotFull
  <2>16. FullPacks(q)'
    <3>1. SUFFICES ASSUME ~ LastMessage(q)
                   PROVE  \A i \in DOMAIN Tail(doneAtClient[q]) : Tail(doneAtClient[q])[i] = ackMsgPacking
      BY <2>2, <2>5, <2>10 DEF FullPacks
    <3>2. \A i \in DOMAIN doneAtClient[q] : doneAtClient[q][i] \in {ackMsgPacking}
      BY <2>2, <3>1 DEF FullPacks
    <3>3. \A i \in DOMAIN Tail(doneAtClient[q]) : Tail(doneAtClient[q])[i] \in {ackMsgPacking}
      BY <1>1, <2>5, <3>2, AllButFirst
    <3>4. QED
      BY <3>3
  <2>17. InRound(q)' /\ pc'[q[1]] # "enterEnd"
    BY <1>1, <2>1, <2>3 DEF InRound
  <2>18. QED
    BY <2>12, <2>13, <2>14, <2>15, <2>16, <2>17 DEF Rounds
<1>7. \A p \in Of(c) : Rounds(p)'
  BY <1>5, <1>6
<1>8. QED
  BY <1>1, <1>4, <1>7, ClientRounds

-----------------------------------------------------------------------------
LEMMA RoundsBegin == Init => RoundsInv
<1> SUFFICES ASSUME Init PROVE RoundsInv
  OBVIOUS
<1>1. ASSUME NEW q \in Connections
      PROVE  Rounds(q)
  <2>1. pc[q[1]] = "enter"
    BY Pairs DEF Init
  <2>2. QED
    BY <2>1 DEF Rounds, Looping
<1>2. QED
  BY <1>1 DEF Init, RoundsInv, NoFault

LEMMA RoundsKeep ==
  ASSUME RunIsShort, IInv, RoundsInv, [Next]_vars
  PROVE  RoundsInv'
<1>1. CASE UNCHANGED vars
  <2>1. /\ ClientsSame
        /\ UNCHANGED <<ack, totalBudget, budgetR, recvAtClient, doneAtClient, fault>>
    BY <1>1 DEF vars, ClientsSame, server, wire, atClient
  <2>2. QED
    BY <2>1, QuietRounds
<1>2. ASSUME NEW c \in Clients, ClientStep(c)
      PROVE  RoundsInv'
  BY <1>2, EnterBarrierRounds, PingRounds, LeaveBarrierRounds, StartRounds, BeginRoundRounds,
     SendRounds, EndSendingRounds, PollAckRounds, EndRoundRounds DEF ClientStep
<1>3. ASSUME NEW s \in Servers, MainStep(s)
      PROVE  RoundsInv'
  <2>1. CASE Barrier(s)
    BY <2>1, BarrierRounds
  <2>2. CASE Prepare(s) \/ Join(s)
    <3>1. /\ ClientsSame
          /\ UNCHANGED <<ack, totalBudget, budgetR, recvAtClient, doneAtClient, fault>>
      BY <2>2 DEF Prepare, Join, ClientsSame, wire, atClient
    <3>2. QED
      BY <3>1, QuietRounds
  <2>3. QED
    BY <1>3, <2>1, <2>2 DEF MainStep
<1>4. ASSUME NEW q \in Connections, ServerStep(q) \/ NetworkStep(q)
      PROVE  RoundsInv'
  <2>1. CASE Continue(q)
    <3>1. /\ ClientsSame
          /\ UNCHANGED <<ack, totalBudget, budgetR, recvAtClient, doneAtClient, fault>>
      BY <2>1 DEF Continue, ClientsSame, wire, atClient
    <3>2. QED
      BY <3>1, QuietRounds
  <2>2. QED
    BY <1>4, <2>1, PostRounds, PollMessageRounds, RepostRounds, AcknowledgeRounds,
       ArriveRounds, AckArrivesRounds DEF ServerStep, NetworkStep
<1>5. QED
  BY <1>1, <1>2, <1>3, <1>4 DEF Next, Over

(* A run that is short enough for its window never fails: every            *)
(* acknowledgement finds a receive, and no receive queue overflows, for    *)
(* any number of clients and servers.                                      *)
THEOREM ReceivesAlwaysPosted ==
  ASSUME RunIsShort
  PROVE  Spec => []ReceivesArePosted
<1>1. IInv /\ RoundsInv /\ [Next]_vars => RoundsInv'
  BY RoundsKeep
<1>2. IInv /\ RoundsInv => ReceivesArePosted
  BY AckFinds DEF RoundsInv, NoFault, ReceivesArePosted
<1>3. QED
  BY <1>1, <1>2, RoundsBegin, CountsAgree, PTL DEF Spec
=============================================================================
