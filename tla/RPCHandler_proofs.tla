-------------------------- MODULE RPCHandler_proofs -------------------------
(***************************************************************************)
(* Proofs about the handler of remote procedure calls, for any number of   *)
(* clients, buffers and calls.  IInv follows a buffer through the places   *)
(* it can be in, and a message from its client to the answer.              *)
(***************************************************************************)
EXTENDS RPCHandler, FiniteSetTheorems, TLAPS

(* The handler thread runs between run and Leave. *)
Running ==
  handler.at \in {"loop", "poll", "handle", "sending", "leave"} => m_processing

(* A buffer is in one place, and there once. *)
Apart ==
  /\ \A i, j \in DOMAIN receives : receives[i] = receives[j] => i = j
  /\ \A i, j \in DOMAIN completions : completions[i].index = completions[j].index => i = j
  /\ \A c, d \in Clients : arriving[c] # -1 /\ arriving[c] = arriving[d] => c = d
  /\ Posted \cap Written = {} /\ Posted \cap Completed = {} /\ Posted \cap InHand = {}
  /\ Written \cap Completed = {} /\ Written \cap InHand = {} /\ Completed \cap InHand = {}

(* c waits for an answer to the message in buffer i. *)
Asks(c, i) ==
  c \in Clients /\ client[c] = "waiting" /\ rpcBuffer[i] = <<c, calls[c]>>

(* The client whose message the handler has and has not answered. *)
Unanswered(c) ==
  c = handler.from /\ \/ handler.at = "handle"
                      \/ handler.at = "sending" /\ responses # <<>>

Arrivals ==
  \A c \in Clients : /\ arriving[c] # -1 <=> client[c] = "arriving"
                     /\ client[c] # "idle" => calls[c] > 0

Polled ==
  /\ \A i \in DOMAIN completions :
       /\ Asks(completions[i].from, completions[i].index)
       /\ ~ Unanswered(completions[i].from)
  /\ \A i, j \in DOMAIN completions : completions[i].from = completions[j].from => i = j

InWork ==
  /\ handler.at = "handle" => Asks(handler.from, handler.index)
  /\ responses # <<>> =>
       /\ handler.at = "sending" /\ responses = <<handler.from>>
       /\ Asks(handler.from, handler.index) /\ rspBuffer = <<handler.from, calls[handler.from]>>
  /\ handler.at = "sending" /\ responses = <<>> =>
       answer[handler.from] = rpcBuffer[handler.index]

IInv ==
  /\ BuffersAccounted /\ Running /\ Apart
  /\ Arrivals /\ Polled /\ InWork /\ AnswersMatch

-----------------------------------------------------------------------------
(* Queues. *)
LEMMA TakeFirst ==
  ASSUME NEW S, NEW s \in Seq(S), s # <<>>
  PROVE  /\ Tail(s) \in Seq(S) /\ Len(Tail(s)) = Len(s) - 1 /\ Len(s) \in Nat
         /\ 1 \in DOMAIN s /\ Head(s) = s[1] /\ Head(s) \in S
         /\ \A i \in DOMAIN Tail(s) : i + 1 \in DOMAIN s /\ Tail(s)[i] = s[i + 1] /\ i + 1 # 1
         /\ \A i \in DOMAIN s : i = 1 \/ (i - 1 \in DOMAIN Tail(s) /\ Tail(s)[i - 1] = s[i])
         /\ \A i, j \in DOMAIN Tail(s) : i + 1 = j + 1 => i = j
OBVIOUS

LEMMA AddLast ==
  ASSUME NEW S, NEW s \in Seq(S), NEW x \in S
  PROVE  /\ Append(s, x) \in Seq(S) /\ Len(Append(s, x)) = Len(s) + 1 /\ Len(s) \in Nat
         /\ \A i \in DOMAIN s : i \in DOMAIN Append(s, x) /\ Append(s, x)[i] = s[i]
         /\ Len(s) + 1 \in DOMAIN Append(s, x) /\ Append(s, x)[Len(s) + 1] = x
         /\ \A i \in DOMAIN Append(s, x) : i \in DOMAIN s \/ i = Len(s) + 1
OBVIOUS

LEMMA FirstTaken ==
  ASSUME NEW S, NEW s \in Seq(S), s # <<>>, \A i, j \in DOMAIN s : s[i] = s[j] => i = j
  PROVE  /\ {s[i] : i \in DOMAIN s} = {Tail(s)[i] : i \in DOMAIN Tail(s)} \cup {Head(s)}
         /\ Head(s) \notin {Tail(s)[i] : i \in DOMAIN Tail(s)}
         /\ \A i, j \in DOMAIN Tail(s) : Tail(s)[i] = Tail(s)[j] => i = j
<1> DEFINE t == Tail(s)
<1>1. /\ 1 \in DOMAIN s /\ Head(s) = s[1]
      /\ \A i \in DOMAIN t : i + 1 \in DOMAIN s /\ t[i] = s[i + 1] /\ i + 1 # 1
      /\ \A i \in DOMAIN s : i = 1 \/ (i - 1 \in DOMAIN t /\ t[i - 1] = s[i])
      /\ \A i, j \in DOMAIN t : i + 1 = j + 1 => i = j
  BY TakeFirst
<1> HIDE DEF t
<1>2. {s[i] : i \in DOMAIN s} = {t[i] : i \in DOMAIN t} \cup {Head(s)}
  BY <1>1
<1>3. Head(s) \notin {t[i] : i \in DOMAIN t}
  BY <1>1
<1>4. \A i, j \in DOMAIN t : t[i] = t[j] => i = j
  BY <1>1
<1>5. QED
  BY <1>2, <1>3, <1>4 DEF t

LEMMA LastAdded ==
  ASSUME NEW S, NEW s \in Seq(S), \A i, j \in DOMAIN s : s[i] = s[j] => i = j,
         NEW x \in S, x \notin {s[i] : i \in DOMAIN s}
  PROVE  /\ {Append(s, x)[i] : i \in DOMAIN Append(s, x)} = {s[i] : i \in DOMAIN s} \cup {x}
         /\ \A i, j \in DOMAIN Append(s, x) : Append(s, x)[i] = Append(s, x)[j] => i = j
<1> DEFINE t == Append(s, x)
           l == Len(s) + 1
<1>1. /\ \A i \in DOMAIN s : i \in DOMAIN t /\ t[i] = s[i]
      /\ l \in DOMAIN t /\ t[l] = x
      /\ \A i \in DOMAIN t : i \in DOMAIN s \/ i = l
  BY AddLast
<1> HIDE DEF t, l
<1>2. {t[i] : i \in DOMAIN t} = {s[i] : i \in DOMAIN s} \cup {x}
  BY <1>1
<1>3. \A i, j \in DOMAIN t : t[i] = t[j] => i = j
  BY <1>1
<1>4. QED
  BY <1>2, <1>3 DEF t

(* The sets of buffers a client's messages arrive in. *)
LEMMA WrittenFinite ==
  ASSUME TypeOK
  PROVE  /\ IsFiniteSet(Written) /\ Cardinality(Written) \in Nat /\ Written \subseteq Indexes
         /\ \A i : i \in Written <=> i # -1 /\ \E c \in Clients : arriving[c] = i
<1>1. /\ Written \subseteq Indexes
      /\ \A i : i \in Written <=> i # -1 /\ \E c \in Clients : arriving[c] = i
  BY DEF TypeOK, Written
<1>2. IsFiniteSet(Indexes)
  BY BuffersAssumption, FS_Interval DEF Indexes
<1>3. QED
  BY <1>1, <1>2, FS_Subset, FS_CardinalityType

LEMMA HandHolds ==
  /\ handler.at \in {"handle", "sending"} => InHand = {handler.index} /\ Cardinality(InHand) = 1
  /\ handler.at \notin {"handle", "sending"} => InHand = {} /\ Cardinality(InHand) = 0
BY FS_EmptySet, FS_Singleton DEF InHand

-----------------------------------------------------------------------------
(* Where the buffers are. *)
Accounted ==
  /\ Posted \cup Written \cup Completed \cup InHand = Indexes
  /\ Len(receives) + Cardinality(Written) + Len(completions) + Cardinality(InHand)
       = m_maxNumberMsgs

LEMMA PlacesSame ==
  ASSUME Accounted, Apart, UNCHANGED srq, InHand' = InHand
  PROVE  Accounted' /\ Apart'
<1>1. Posted' = Posted /\ Written' = Written /\ Completed' = Completed
  BY DEF srq, Posted, Written, Completed
<1>2. QED
  BY <1>1 DEF Accounted, Apart, srq

(* From the receive queue to the card. *)
LEMMA ArriveMoves ==
  ASSUME TypeOK, TypeOK', Arrivals, Accounted, Apart, NEW c \in Clients, Arrive(c)
  PROVE  Accounted' /\ Apart'
<1> DEFINE i == Head(receives)
<1>1. /\ arriving[c] = -1 /\ i \in Indexes /\ i # -1
      /\ Len(receives') = Len(receives) - 1 /\ Len(receives) \in Nat /\ Len(completions) \in Nat
  <2>1. receives # <<>> /\ receives' = Tail(receives) /\ receives \in Seq(Indexes)
    BY DEF Arrive, TypeOK
  <2>2. arriving[c] = -1 /\ Len(completions) \in Nat
    BY DEF Arrivals, TypeOK, Arrive
  <2>3. \A k \in Indexes : k # -1
    BY BuffersAssumption DEF Indexes
  <2>4. QED
    BY <2>1, <2>2, <2>3, TakeFirst
<1>2. /\ Posted = Posted' \cup {i} /\ i \notin Posted'
      /\ \A j, k \in DOMAIN receives' : receives'[j] = receives'[k] => j = k
  <2>1. receives # <<>> /\ receives' = Tail(receives) /\ receives \in Seq(Indexes)
    BY DEF Arrive, TypeOK
  <2>2. \A j, k \in DOMAIN receives : receives[j] = receives[k] => j = k
    BY DEF Apart
  <2>3. QED
    BY <2>1, <2>2, FirstTaken DEF Posted
<1>3. Completed' = Completed /\ InHand' = InHand /\ completions' = completions
  BY DEF Arrive, buffers, Completed, InHand
<1>4. \A d \in Clients : arriving'[d] = IF d = c THEN i ELSE arriving[d]
  BY DEF Arrive, TypeOK
<1> HIDE DEF i
<1>5. Written' = Written \cup {i} /\ i \notin Written
  <2>1. Written' = Written \cup {i}
    BY <1>1, <1>4, WrittenFinite DEF Written
  <2>2. i \notin Written
    BY <1>2 DEF Apart
  <2>3. QED
    BY <2>1, <2>2
<1>6. Accounted'
  <2>1. Cardinality(Written') = Cardinality(Written) + 1
    BY <1>5, WrittenFinite, FS_AddElement
  <2>2. Cardinality(Written) \in Nat /\ Cardinality(InHand) \in Nat
    BY WrittenFinite, HandHolds
  <2>3. Posted' \cup Written' \cup Completed' \cup InHand' = Indexes
    BY <1>2, <1>3, <1>5 DEF Accounted
  <2>4. QED
    BY <1>1, <1>3, <2>1, <2>2, <2>3 DEF Accounted
<1>7. Apart'
  <2>1. i \notin Completed /\ i \notin InHand
    BY <1>2 DEF Apart
  <2>2. \A d, e \in Clients : arriving'[d] # -1 /\ arriving'[d] = arriving'[e] => d = e
    <3>1. \A d \in Clients : arriving[d] # i
      BY <1>1, <1>5, WrittenFinite
    <3>2. QED
      BY <1>4, <3>1 DEF Apart
  <2>3. /\ Posted' \cap Written' = {} /\ Posted' \cap Completed' = {} /\ Posted' \cap InHand' = {}
        /\ Written' \cap Completed' = {} /\ Written' \cap InHand' = {}
        /\ Completed' \cap InHand' = {}
    BY <1>2, <1>3, <1>5, <2>1 DEF Apart
  <2>4. QED
    BY <1>2, <1>3, <2>2, <2>3 DEF Apart
<1>8. QED
  BY <1>6, <1>7

(* From the card to the completion queue. *)
LEMMA CompleteMoves ==
  ASSUME TypeOK, TypeOK', Arrivals, Accounted, Apart, NEW c \in Clients, Complete(c)
  PROVE  Accounted' /\ Apart'
<1> DEFINE i == arriving[c]
           wc == workCompletion(c)
<1>1. i # -1 /\ i \in Indexes /\ i \in Written /\ wc \in Completion /\ wc.index = i
  BY WrittenFinite DEF Arrivals, TypeOK, Complete, workCompletion, Completion
<1>2. Posted' = Posted /\ InHand' = InHand /\ receives' = receives
  BY DEF Complete, Posted, InHand
<1>3. \A d \in Clients : arriving'[d] = IF d = c THEN -1 ELSE arriving[d]
  BY DEF Complete, TypeOK
<1>4. /\ Len(completions') = Len(completions) + 1 /\ Len(completions) \in Nat
      /\ Len(receives) \in Nat
      /\ \A k \in DOMAIN completions : k \in DOMAIN completions' /\ completions'[k] = completions[k]
      /\ Len(completions) + 1 \in DOMAIN completions'
      /\ completions'[Len(completions) + 1] = wc
      /\ \A k \in DOMAIN completions' : k \in DOMAIN completions \/ k = Len(completions) + 1
  <2>1. completions' = Append(completions, wc) /\ completions \in Seq(Completion)
    BY DEF Complete, TypeOK
  <2>2. Len(receives) \in Nat
    BY DEF TypeOK
  <2>3. QED
    BY <1>1, <2>1, <2>2, AddLast
<1> HIDE DEF i, wc
<1>5. Completed' = Completed \cup {i} /\ i \notin Completed
  <2>1. i \notin Completed
    BY <1>1 DEF Apart
  <2>2. Completed' = Completed \cup {i}
    BY <1>1, <1>4 DEF Completed
  <2>3. QED
    BY <2>1, <2>2
<1>6. Written' = Written \ {i}
  <2>1. \A d \in Clients : arriving[d] = i => d = c
    BY <1>1 DEF Apart, i
  <2>2. arriving[c] = i
    BY DEF i
  <2>3. QED
    BY <1>1, <1>3, <2>1, <2>2, WrittenFinite DEF Written
<1>7. Accounted'
  <2>1. Cardinality(Written') = Cardinality(Written) - 1
    BY <1>1, <1>6, WrittenFinite, FS_RemoveElement
  <2>2. Cardinality(Written) \in Nat /\ Cardinality(InHand) \in Nat
    BY WrittenFinite, HandHolds
  <2>3. Posted' \cup Written' \cup Completed' \cup InHand' = Indexes
    BY <1>1, <1>2, <1>5, <1>6 DEF Accounted
  <2>4. QED
    BY <1>2, <1>4, <2>1, <2>2, <2>3 DEF Accounted
<1>8. Apart'
  <2>1. i \notin Posted /\ i \notin InHand
    BY <1>1 DEF Apart
  <2>2. \A d, e \in Clients : arriving'[d] # -1 /\ arriving'[d] = arriving'[e] => d = e
    BY <1>3 DEF Apart
  <2>3. \A j, k \in DOMAIN completions' : completions'[j].index = completions'[k].index => j = k
    <3>1. \A k \in DOMAIN completions : completions[k].index # i
      BY <1>5 DEF Completed
    <3>2. QED
      BY <1>1, <1>4, <3>1 DEF Apart
  <2>4. /\ Posted' \cap Written' = {} /\ Posted' \cap Completed' = {} /\ Posted' \cap InHand' = {}
        /\ Written' \cap Completed' = {} /\ Written' \cap InHand' = {}
        /\ Completed' \cap InHand' = {}
    BY <1>2, <1>5, <1>6, <2>1 DEF Apart
  <2>5. QED
    BY <1>2, <2>2, <2>3, <2>4 DEF Apart
<1>9. QED
  BY <1>7, <1>8

(* From the completion queue to the handler. *)
LEMMA PollMoves ==
  ASSUME TypeOK, TypeOK', Accounted, Apart, pollReceiveSRQ
  PROVE  /\ Accounted' /\ Apart'
         /\ \A k \in DOMAIN completions' :
              k + 1 \in DOMAIN completions /\ completions'[k] = completions[k + 1] /\ k + 1 # 1
         /\ \A j, k \in DOMAIN completions' : j + 1 = k + 1 => j = k
         /\ 1 \in DOMAIN completions /\ handler' = Handled(completions[1])
<1> DEFINE wc == completions[1]
           i  == wc.index
<1>1. /\ Len(completions') = Len(completions) - 1 /\ Len(completions) \in Nat
      /\ Len(receives) \in Nat
      /\ 1 \in DOMAIN completions /\ wc = Head(completions) /\ wc \in Completion
      /\ \A k \in DOMAIN completions' :
           k + 1 \in DOMAIN completions /\ completions'[k] = completions[k + 1] /\ k + 1 # 1
      /\ \A k \in DOMAIN completions :
           k = 1 \/ (k - 1 \in DOMAIN completions' /\ completions'[k - 1] = completions[k])
      /\ \A j, k \in DOMAIN completions' : j + 1 = k + 1 => j = k
  <2>1. completions # <<>> /\ completions' = Tail(completions) /\ completions \in Seq(Completion)
    BY DEF pollReceiveSRQ, TypeOK
  <2>2. Len(receives) \in Nat
    BY DEF TypeOK
  <2>3. QED
    BY <2>1, <2>2, TakeFirst
<1>2. /\ handler.at = "poll" /\ handler' = Handled(wc)
      /\ handler'.at = "handle" /\ handler'.index = i /\ handler'.from = wc.from
  BY <1>1 DEF pollReceiveSRQ, Handled
<1>3. Posted' = Posted /\ Written' = Written /\ receives' = receives /\ arriving' = arriving
  BY DEF pollReceiveSRQ, Posted, Written
<1>4. InHand = {} /\ Cardinality(InHand) = 0 /\ InHand' = {i} /\ Cardinality(InHand') = 1
  BY <1>2, HandHolds, FS_Singleton DEF InHand
<1> HIDE DEF wc
<1>5. Completed = Completed' \cup {i} /\ i \notin Completed'
  <2>1. \A k \in DOMAIN completions : completions[k].index = i => k = 1
    BY <1>1 DEF Apart, wc
  <2>2. i \notin Completed'
    BY <1>1, <2>1 DEF Completed
  <2>3. Completed = Completed' \cup {i}
    <3>1. \A x \in Completed : x \in Completed' \cup {i}
      BY <1>1 DEF Completed, wc
    <3>2. \A x \in Completed' \cup {i} : x \in Completed
      BY <1>1 DEF Completed, wc
    <3>3. QED
      BY <3>1, <3>2
  <2>4. QED
    BY <2>2, <2>3
<1>6. Accounted'
  <2>1. Cardinality(Written) \in Nat
    BY WrittenFinite
  <2>2. Posted' \cup Written' \cup Completed' \cup InHand' = Indexes
    BY <1>3, <1>4, <1>5 DEF Accounted
  <2>3. QED
    BY <1>1, <1>3, <1>4, <2>1, <2>2 DEF Accounted
<1>7. Apart'
  <2>1. i \notin Posted /\ i \notin Written
    BY <1>5 DEF Apart
  <2>2. \A j, k \in DOMAIN completions' : completions'[j].index = completions'[k].index => j = k
    BY <1>1 DEF Apart
  <2>3. /\ Posted' \cap Written' = {} /\ Posted' \cap Completed' = {} /\ Posted' \cap InHand' = {}
        /\ Written' \cap Completed' = {} /\ Written' \cap InHand' = {}
        /\ Completed' \cap InHand' = {}
    BY <1>3, <1>4, <1>5, <2>1 DEF Apart
  <2>4. QED
    BY <1>3, <2>2, <2>3 DEF Apart
<1>8. QED
  BY <1>1, <1>2, <1>6, <1>7 DEF wc

(* From the handler back to the receive queue. *)
LEMMA RepostMoves ==
  ASSUME TypeOK, TypeOK', Accounted, Apart, receiveSRQ
  PROVE  Accounted' /\ Apart'
<1> DEFINE i == handler.index
<1>1. InHand = {i} /\ Cardinality(InHand) = 1 /\ InHand' = {} /\ Cardinality(InHand') = 0
  <2>1. handler.at = "sending" /\ handler'.at = "loop"
    BY DEF receiveSRQ, TypeOK
  <2>2. QED
    BY <2>1, HandHolds, FS_EmptySet DEF InHand
<1>2. i \in Indexes /\ i \notin Posted /\ i \notin Written /\ i \notin Completed
  BY <1>1 DEF Apart, TypeOK
<1>3. Completed' = Completed /\ Written' = Written /\ arriving' = arriving
      /\ completions' = completions
  BY DEF receiveSRQ, Completed, Written
<1>4. /\ Len(receives') = Len(receives) + 1 /\ Len(receives) \in Nat /\ Len(completions) \in Nat
      /\ Posted' = Posted \cup {i}
      /\ \A j, k \in DOMAIN receives' : receives'[j] = receives'[k] => j = k
  <2>1. receives' = Append(receives, i) /\ receives \in Seq(Indexes) /\ Len(completions) \in Nat
    BY DEF receiveSRQ, Reposted, TypeOK
  <2>2. /\ \A j, k \in DOMAIN receives : receives[j] = receives[k] => j = k
        /\ i \notin {receives[k] : k \in DOMAIN receives}
    BY <1>2 DEF Apart, Posted
  <2> HIDE DEF i
  <2>3. QED
    BY <1>2, <2>1, <2>2, AddLast, LastAdded DEF Posted
<1> HIDE DEF i
<1>5. Accounted'
  <2>1. Cardinality(Written) \in Nat
    BY WrittenFinite
  <2>2. Posted' \cup Written' \cup Completed' \cup InHand' = Indexes
    BY <1>1, <1>3, <1>4 DEF Accounted
  <2>3. QED
    BY <1>1, <1>3, <1>4, <2>1, <2>2 DEF Accounted
<1>6. Apart'
  <2>1. /\ Posted' \cap Written' = {} /\ Posted' \cap Completed' = {} /\ Posted' \cap InHand' = {}
        /\ Written' \cap Completed' = {} /\ Written' \cap InHand' = {}
        /\ Completed' \cap InHand' = {}
    BY <1>1, <1>2, <1>3, <1>4 DEF Apart
  <2>2. QED
    BY <1>3, <1>4, <2>1 DEF Apart
<1>7. QED
  BY <1>5, <1>6

-----------------------------------------------------------------------------
(* What a step does to the buffers, and where it leaves the handler. *)
Moves ==
  \/ UNCHANGED srq /\ InHand' = InHand
  \/ \E c \in Clients : Arrive(c) \/ Complete(c)
  \/ pollReceiveSRQ \/ receiveSRQ

LEMMA StepsMove ==
  ASSUME TypeOK, Running, [Next]_vars
  PROVE  Moves
<1>1. ASSUME NEW c \in Clients, call(c) \/ Transport(c)
      PROVE  Moves
  BY <1>1 DEF Moves, call, Transport, ReceiverNotReady, InHand
<1>2. CASE \/ startHandler \/ stopHandler \/ InCall
           \/ run \/ CheckKilled \/ PollEnds \/ handleRDMARPC \/ Leave \/ Respond
  <2>1. UNCHANGED srq
    BY <1>2 DEF startHandler, stopHandler, InCall, HandlerStarted, HandlerJoined, run,
                CheckKilled, PollEnds, handleRDMARPC, Leave, Respond
  <2>2. InHand' = InHand
    <3>1. CASE handler' = handler
      BY <3>1 DEF InHand
    <3>2. CASE \E at \in {"start", "loop", "poll", "leave", "ended"} :
                 /\ handler' = [handler EXCEPT !.at = at]
                 /\ handler.at \notin {"handle", "sending"}
      <4>1. handler'.at \in {"start", "loop", "poll", "leave", "ended"}
        BY <3>2 DEF TypeOK
      <4>2. QED
        BY <3>2, <4>1 DEF InHand
    <3>3. CASE handleRDMARPC
      <4>1. handler.at = "handle" /\ handler'.at = "sending" /\ handler'.index = handler.index
        BY <3>3 DEF handleRDMARPC, TypeOK
      <4>2. QED
        BY <4>1 DEF InHand
    <3>4. CASE startHandler
      BY <3>2, <3>4 DEF startHandler, Running
    <3>5. CASE stopHandler \/ InCall \/ Respond
      BY <3>1, <3>5 DEF stopHandler, InCall, HandlerStarted, HandlerJoined, Respond
    <3>6. CASE run \/ CheckKilled \/ PollEnds \/ Leave
      BY <3>2, <3>6 DEF run, CheckKilled, PollEnds, Leave
    <3>7. QED
      BY <1>2, <3>3, <3>4, <3>5, <3>6
  <2>3. QED
    BY <2>1, <2>2 DEF Moves
<1>3. CASE pollReceiveSRQ \/ receiveSRQ
  BY <1>3 DEF Moves
<1>4. CASE UNCHANGED vars
  BY <1>4 DEF Moves, vars, InHand
<1>5. QED
  BY <1>1, <1>2, <1>3, <1>4 DEF Next, HandlerThread

LEMMA PlacesKept ==
  ASSUME TypeOK, TypeOK', Running, Arrivals, Accounted, Apart, [Next]_vars
  PROVE  Accounted' /\ Apart'
BY StepsMove, PlacesSame, ArriveMoves, CompleteMoves, PollMoves, RepostMoves DEF Moves

LEMMA TypesKept ==
  ASSUME TypeOK, Arrivals, [Next]_vars
  PROVE  TypeOK'
<1> DEFINE Places == {"none", "start", "loop", "poll", "handle", "sending", "leave", "ended"}
           Handler == [at : Places, from : Clients \cup {NoClient}, index : Indexes]
           States == {"idle", "sent", "arriving", "waiting", "broken"}
<1>0. \A at \in Places : [handler EXCEPT !.at = at] \in Handler
  BY DEF TypeOK
<1>1. ASSUME NEW c \in Clients, call(c)
      PROVE  TypeOK'
  <2>1. client' \in [Clients -> States] /\ calls' \in [Clients -> 0 .. MaxCalls]
    BY <1>1, BoundsAssumption DEF call, TypeOK
  <2>2. QED
    BY <1>1, <2>1 DEF call, TypeOK, srq, buffers, flags, control
<1>2. ASSUME NEW c \in Clients, Arrive(c)
      PROVE  TypeOK'
  <2>1. receives # <<>> /\ receives' = Tail(receives) /\ receives \in Seq(Indexes)
    BY <1>2 DEF Arrive, TypeOK
  <2>2. receives' \in Seq(Indexes) /\ Head(receives) \in Indexes
    BY <2>1, TakeFirst
  <2>3. arriving' \in [Clients -> Indexes \cup {-1}] /\ client' \in [Clients -> States]
    BY <1>2, <2>2 DEF Arrive, TypeOK
  <2>4. QED
    BY <1>2, <2>2, <2>3 DEF Arrive, TypeOK, buffers, flags, control
<1>3. ASSUME NEW c \in Clients, ReceiverNotReady(c)
      PROVE  TypeOK'
  <2>1. client' \in [Clients -> States]
    BY <1>3 DEF ReceiverNotReady, TypeOK
  <2>2. QED
    BY <1>3, <2>1 DEF ReceiverNotReady, TypeOK, srq, buffers, flags, control
<1>4. ASSUME NEW c \in Clients, Complete(c)
      PROVE  TypeOK'
  <2>1. arriving[c] \in Indexes /\ calls[c] \in 1 .. MaxCalls
    <3>1. arriving[c] # -1 /\ calls[c] > 0
      BY <1>4 DEF Complete, Arrivals
    <3>2. arriving[c] \in Indexes \cup {-1} /\ calls[c] \in 0 .. MaxCalls
      BY DEF TypeOK
    <3>3. QED
      BY <3>1, <3>2, BoundsAssumption
  <2>2. rpcBuffer' \in [Indexes -> Message]
    <3>1. <<c, calls[c]>> \in Message
      BY <2>1 DEF Message
    <3>2. QED
      BY <1>4, <3>1 DEF Complete, TypeOK
  <2>3. completions' \in Seq(Completion)
    <3>1. workCompletion(c) \in Completion
      BY <2>1 DEF workCompletion, Completion
    <3>2. QED
      BY <1>4, <3>1, AddLast DEF Complete, TypeOK
  <2>4. arriving' \in [Clients -> Indexes \cup {-1}] /\ client' \in [Clients -> States]
    BY <1>4 DEF Complete, TypeOK
  <2>5. QED
    BY <1>4, <2>2, <2>3, <2>4 DEF Complete, TypeOK, flags, control
<1>5. ASSUME startHandler \/ stopHandler \/ InCall
      PROVE  TypeOK'
  <2>1. handler' \in Handler
    <3>1. CASE startHandler
      BY <1>0, <3>1 DEF startHandler
    <3>2. CASE stopHandler \/ InCall
      BY <3>2 DEF stopHandler, InCall, HandlerStarted, HandlerJoined, TypeOK
    <3>3. QED
      BY <1>5, <3>1, <3>2
  <2>2. starts' \in 0 .. MaxStarts /\ app' \in {"idle", "starting", "joining"}
    BY <1>5, BoundsAssumption
       DEF startHandler, stopHandler, InCall, HandlerStarted, HandlerJoined, TypeOK
  <2>3. m_processing' \in BOOLEAN /\ m_poll' \in BOOLEAN /\ m_kill' \in BOOLEAN
    BY <1>5 DEF startHandler, stopHandler, InCall, HandlerStarted, HandlerJoined, TypeOK, flags
  <2>4. UNCHANGED <<srq, buffers, responses, rpcs>>
    BY <1>5 DEF startHandler, stopHandler, InCall, HandlerStarted, HandlerJoined
  <2>5. QED
    BY <2>1, <2>2, <2>3, <2>4 DEF TypeOK, srq, buffers, rpcs
<1>6. ASSUME run \/ CheckKilled \/ PollEnds \/ Leave
      PROVE  TypeOK'
  <2>1. handler' \in Handler
    BY <1>0, <1>6 DEF run, CheckKilled, PollEnds, Leave
  <2>2. m_processing' \in BOOLEAN /\ m_poll' \in BOOLEAN /\ m_kill' \in BOOLEAN
    BY <1>6 DEF run, CheckKilled, PollEnds, Leave, TypeOK, flags
  <2>3. UNCHANGED <<srq, buffers, responses, control, rpcs>>
    BY <1>6 DEF run, CheckKilled, PollEnds, Leave
  <2>4. QED
    BY <2>1, <2>2, <2>3 DEF TypeOK, srq, buffers, rpcs, control
<1>7. CASE pollReceiveSRQ
  <2>1. completions # <<>> /\ completions' = Tail(completions) /\ completions \in Seq(Completion)
    BY <1>7 DEF pollReceiveSRQ, TypeOK
  <2>2. completions' \in Seq(Completion) /\ Head(completions) \in Completion
    BY <2>1, TakeFirst
  <2>3. handler' \in Handler
    BY <1>7, <2>2 DEF pollReceiveSRQ, Handled, Completion
  <2>4. QED
    BY <1>7, <2>2, <2>3 DEF pollReceiveSRQ, TypeOK, flags, control, rpcs
<1>8. CASE handleRDMARPC
  <2>1. handler' \in Handler
    BY <1>0, <1>8 DEF handleRDMARPC
  <2>2. rspBuffer' \in Message /\ handler.from \in Clients
    BY <1>8 DEF handleRDMARPC, TypeOK
  <2>3. responses' \in Seq(Clients)
    BY <1>8, <2>2, AddLast DEF handleRDMARPC, TypeOK
  <2>4. QED
    BY <1>8, <2>1, <2>2, <2>3 DEF handleRDMARPC, TypeOK, srq, flags, control, rpcs
<1>9. CASE Respond
  <2>1. responses # <<>> /\ responses' = Tail(responses) /\ responses \in Seq(Clients)
    BY <1>9 DEF Respond, TypeOK
  <2>2. responses' \in Seq(Clients) /\ Head(responses) \in Clients
    BY <2>1, TakeFirst
  <2>3. client' \in [Clients -> States] /\ answer' \in [Clients -> Message]
    BY <1>9, <2>2 DEF Respond, TypeOK
  <2>4. QED
    BY <1>9, <2>2, <2>3 DEF Respond, TypeOK, srq, buffers, flags, control
<1>10. CASE receiveSRQ
  <2>1. handler' \in Handler /\ handler.index \in Indexes
    BY <1>0, <1>10 DEF receiveSRQ, TypeOK
  <2>2. receives' \in Seq(Indexes)
    BY <1>10, <2>1, AddLast DEF receiveSRQ, Reposted, TypeOK
  <2>3. QED
    BY <1>10, <2>1, <2>2 DEF receiveSRQ, TypeOK, buffers, flags, control, rpcs
<1>11. CASE UNCHANGED vars
  BY <1>11 DEF vars, TypeOK, srq, buffers, flags, control, rpcs
<1>12. QED
  BY <1>1, <1>2, <1>3, <1>4, <1>5, <1>6, <1>7, <1>8, <1>9, <1>10, <1>11
     DEF Next, Transport, HandlerThread

-----------------------------------------------------------------------------
(* What becomes of the messages. *)
Messages == Running /\ Arrivals /\ Polled /\ InWork /\ AnswersMatch

(* The handler starts, ends or looks for work. *)
LEMMA HandlerSteps ==
  ASSUME TypeOK, Messages,
         \/ startHandler \/ stopHandler \/ InCall
         \/ run \/ CheckKilled \/ PollEnds \/ Leave
  PROVE  Messages'
<1>1. UNCHANGED <<srq, buffers, responses, rpcs>>
  BY DEF startHandler, stopHandler, InCall, HandlerStarted, HandlerJoined, run, CheckKilled,
         PollEnds, Leave
<1>2. \/ UNCHANGED <<handler, m_processing>>
      \/ handler.at \notin {"handle", "sending"} /\ handler'.at \notin {"handle", "sending"}
  <2>1. CASE stopHandler \/ InCall
    BY <2>1 DEF stopHandler, InCall, HandlerStarted, HandlerJoined, flags
  <2>2. CASE startHandler \/ run \/ CheckKilled \/ PollEnds \/ Leave
    BY <2>2 DEF startHandler, run, CheckKilled, PollEnds, Leave, Messages, Running, TypeOK
  <2>3. QED
    BY <2>1, <2>2
<1>3. Running'
  <2>1. CASE stopHandler \/ InCall
    BY <2>1 DEF stopHandler, InCall, HandlerStarted, HandlerJoined, Messages, Running, flags
  <2>2. CASE startHandler \/ run \/ CheckKilled \/ PollEnds \/ Leave
    BY <2>2 DEF startHandler, run, CheckKilled, PollEnds, Leave, Messages, Running, TypeOK, flags
  <2>3. QED
    BY <2>1, <2>2
<1>4. \A c \in Clients, i \in Indexes : Asks(c, i)' <=> Asks(c, i)
  BY <1>1 DEF Asks, buffers, rpcs
<1>5. \A c : Unanswered(c)' <=> Unanswered(c)
  BY <1>1, <1>2 DEF Unanswered
<1>6. Arrivals' /\ AnswersMatch'
  BY <1>1 DEF srq, rpcs, Messages, Arrivals, AnswersMatch
<1>7. Polled'
  BY <1>1, <1>5 DEF srq, rpcs, buffers, Messages, Polled, Asks
<1>8. InWork'
  BY <1>1, <1>2 DEF buffers, rpcs, Messages, InWork, Asks
<1>9. QED
  BY <1>3, <1>6, <1>7, <1>8 DEF Messages

(* A client calls, its message arrives or finds no buffer: nobody else     *)
(* notices.                                                                *)
LEMMA ClientSteps ==
  ASSUME TypeOK, Messages, NEW c \in Clients, call(c) \/ Arrive(c) \/ ReceiverNotReady(c)
  PROVE  Messages'
<1>1. /\ UNCHANGED <<completions, buffers, responses, flags, handler, answer>>
      /\ client[c] # "waiting" /\ client'[c] # "idle" /\ calls'[c] > 0
      /\ \A d \in Clients : d # c => client'[d] = client[d] /\ calls'[d] = calls[d]
                                     /\ arriving'[d] = arriving[d]
      /\ arriving'[c] # -1 <=> client'[c] = "arriving"
  <2>1. CASE call(c)
    BY <2>1 DEF call, Messages, Arrivals, TypeOK, srq
  <2>2. CASE Arrive(c)
    <3>1. Head(receives) # -1
      <4>1. receives # <<>> /\ receives \in Seq(Indexes)
        BY <2>2 DEF Arrive, TypeOK
      <4>2. Head(receives) \in Indexes
        BY <4>1, TakeFirst
      <4>3. QED
        BY <4>2, BuffersAssumption DEF Indexes
    <3>2. QED
      BY <2>2, <3>1 DEF Arrive, Messages, Arrivals, TypeOK
  <2>3. CASE ReceiverNotReady(c)
    BY <2>3 DEF ReceiverNotReady, Messages, Arrivals, TypeOK, srq
  <2>4. QED
    BY <2>1, <2>2, <2>3
<1>2. \A d, i : Asks(d, i) => Asks(d, i)'
  BY <1>1 DEF Asks, buffers
<1>3. \A d : Unanswered(d)' <=> Unanswered(d)
  BY <1>1 DEF Unanswered
<1>4. Running' /\ Arrivals' /\ AnswersMatch'
  BY <1>1 DEF flags, Messages, Running, Arrivals, AnswersMatch
<1>5. Polled'
  BY <1>1, <1>2, <1>3 DEF Messages, Polled
<1>6. InWork'
  <2>1. ASSUME responses # <<>>
        PROVE  rspBuffer' = <<handler'.from, calls'[handler'.from]>>
    <3>1. Asks(handler.from, handler.index) /\ rspBuffer = <<handler.from, calls[handler.from]>>
      BY <2>1 DEF Messages, InWork
    <3>2. QED
      BY <1>1, <3>1 DEF Asks, buffers
  <2>2. QED
    BY <1>1, <1>2, <2>1 DEF Messages, InWork, buffers
<1>7. QED
  BY <1>4, <1>5, <1>6 DEF Messages

(* The card has written a message to a buffer that nobody else needs. *)
LEMMA MessageCompletes ==
  ASSUME TypeOK, Apart, Messages, NEW c \in Clients, Complete(c)
  PROVE  Messages'
<1>0. PICK i : i = arriving[c]
  OBVIOUS
<1> DEFINE wc == [from |-> c, index |-> i]
<1>1. /\ client[c] = "arriving" /\ i # -1 /\ i \in Indexes /\ i \notin Completed /\ i \notin InHand
      /\ i \in Written
  BY <1>0, WrittenFinite DEF Complete, Messages, Arrivals, Apart, TypeOK
<1>2. /\ UNCHANGED <<rspBuffer, responses, flags, handler, calls, answer>>
      /\ client'[c] = "waiting" /\ arriving'[c] = -1
      /\ \A d \in Clients : d # c => client'[d] = client[d] /\ arriving'[d] = arriving[d]
      /\ rpcBuffer'[i] = <<c, calls[c]>>
      /\ \A j \in Indexes : j # i => rpcBuffer'[j] = rpcBuffer[j]
  BY <1>0, <1>1 DEF Complete, TypeOK
<1>3. /\ \A k \in DOMAIN completions : k \in DOMAIN completions' /\ completions'[k] = completions[k]
      /\ completions'[Len(completions) + 1] = wc
      /\ \A k \in DOMAIN completions' : k \in DOMAIN completions \/ k = Len(completions) + 1
      /\ \A k \in DOMAIN completions : completions[k] \in Completion
  <2>1. completions' = Append(completions, wc) /\ completions \in Seq(Completion)
    BY <1>0 DEF Complete, workCompletion, TypeOK
  <2>2. wc \in Completion
    BY <1>1 DEF Completion
  <2>3. \A k \in DOMAIN completions : completions[k] \in Completion
    BY <2>1
  <2>4. QED
    BY <2>1, <2>2, <2>3, AddLast
<1>4. Asks(c, i)'
  BY <1>2 DEF Asks
<1>5. \A d \in Clients, j \in Indexes : Asks(d, j) /\ j # i => Asks(d, j)' /\ d # c
  BY <1>1, <1>2 DEF Asks
<1>6. \A d : Unanswered(d)' <=> Unanswered(d)
  BY <1>2 DEF Unanswered
<1>7. handler.at \in {"handle", "sending"} => handler.index \in Indexes /\ handler.index # i
  BY <1>1 DEF InHand, TypeOK
<1>8. ~ Unanswered(c)
  BY <1>1 DEF Unanswered, Messages, InWork, Asks
<1>9. \A k \in DOMAIN completions :
        /\ completions[k].from \in Clients /\ completions[k].index \in Indexes
        /\ completions[k].index # i /\ completions[k].from # c
        /\ Asks(completions[k].from, completions[k].index)'
  <2>1. \A k \in DOMAIN completions : completions[k].index # i
    BY <1>1 DEF Completed
  <2>2. QED
    BY <1>3, <1>5, <2>1 DEF Completion, Messages, Polled
<1>10. Polled'
  <2>1. ASSUME NEW k \in DOMAIN completions'
        PROVE  /\ Asks(completions[k].from, completions[k].index)'
               /\ ~ Unanswered(completions[k].from)'
    <3>1. PICK f, x : f = completions'[k].from /\ x = completions'[k].index
      OBVIOUS
    <3>2. Asks(f, x)' /\ ~ Unanswered(f)
      BY <1>3, <1>4, <1>8, <1>9, <3>1 DEF Messages, Polled
    <3>3. QED
      BY <1>6, <3>1, <3>2
  <2>2. \A k, l \in DOMAIN completions' : completions'[k].from = completions'[l].from => k = l
    BY <1>3, <1>9 DEF Messages, Polled
  <2>3. QED
    BY <2>1, <2>2 DEF Polled
<1>11. InWork'
  <2>1. ASSUME Asks(handler.from, handler.index), handler.at \in {"handle", "sending"}
        PROVE  Asks(handler.from, handler.index)'
    <3>1. PICK f, x : f = handler.from /\ x = handler.index
      OBVIOUS
    <3>2. Asks(f, x) /\ f \in Clients /\ x \in Indexes /\ x # i
      BY <1>7, <2>1, <3>1 DEF Asks
    <3>3. QED
      BY <1>2, <1>5, <3>1, <3>2
  <2>2. QED
    BY <1>2, <1>7, <2>1 DEF Messages, InWork
<1>12. Running' /\ Arrivals' /\ AnswersMatch'
  BY <1>1, <1>2 DEF flags, Messages, Running, Arrivals, AnswersMatch
<1>13. QED
  BY <1>10, <1>11, <1>12 DEF Messages

LEMMA MessagePolled ==
  ASSUME TypeOK, TypeOK', Accounted, Apart, Messages, pollReceiveSRQ
  PROVE  Messages'
<1>1. /\ handler.at = "poll" /\ UNCHANGED <<arriving, buffers, responses, flags, rpcs>>
  BY DEF pollReceiveSRQ, buffers
<1>2. PICK wc : wc = completions[1]
  OBVIOUS
<1>3. /\ \A k \in DOMAIN completions' :
           k + 1 \in DOMAIN completions /\ completions'[k] = completions[k + 1] /\ k + 1 # 1
      /\ \A j, k \in DOMAIN completions' : j + 1 = k + 1 => j = k
      /\ 1 \in DOMAIN completions
      /\ handler'.at = "handle" /\ handler'.from = wc.from /\ handler'.index = wc.index
  BY <1>2, PollMoves DEF Handled
<1>4. responses = <<>> /\ Asks(wc.from, wc.index)
  BY <1>1, <1>2, <1>3 DEF Messages, InWork, Polled
<1>5. \A d, j : Asks(d, j)' <=> Asks(d, j)
  BY <1>1 DEF Asks, buffers, rpcs
<1>6. \A d : Unanswered(d)' <=> d = wc.from
  BY <1>3 DEF Unanswered
<1>7. Polled'
  <2>1. ASSUME NEW k \in DOMAIN completions'
        PROVE  /\ Asks(completions[k].from, completions[k].index)'
               /\ ~ Unanswered(completions[k].from)'
    <3>1. PICK f, x : f = completions'[k].from /\ x = completions'[k].index
      OBVIOUS
    <3>2. Asks(f, x) /\ f # wc.from
      BY <1>2, <1>3, <3>1 DEF Messages, Polled
    <3>3. Asks(f, x)' /\ ~ Unanswered(f)'
      BY <1>5, <1>6, <3>2
    <3>4. QED
      BY <3>1, <3>3
  <2>2. \A k, l \in DOMAIN completions' : completions'[k].from = completions'[l].from => k = l
    BY <1>3 DEF Messages, Polled
  <2>3. QED
    BY <2>1, <2>2 DEF Polled
<1>8. InWork'
  <2>1. Asks(wc.from, wc.index)'
    BY <1>4, <1>5
  <2>2. QED
    BY <1>1, <1>3, <1>4, <2>1 DEF InWork
<1>9. Running' /\ Arrivals' /\ AnswersMatch'
  BY <1>1, <1>3 DEF flags, rpcs, Messages, Running, Arrivals, AnswersMatch
<1>10. QED
  BY <1>7, <1>8, <1>9 DEF Messages

LEMMA MessageHandled ==
  ASSUME TypeOK, Messages, handleRDMARPC
  PROVE  Messages'
<1>1. /\ handler.at = "handle" /\ handler'.at = "sending"
      /\ handler'.from = handler.from /\ handler'.index = handler.index
      /\ UNCHANGED <<srq, rpcBuffer, flags, rpcs>>
      /\ rspBuffer' = rpcBuffer[handler.index]
  BY DEF handleRDMARPC, TypeOK
<1>2. responses' = <<handler.from>> /\ responses' # <<>>
  <2>1. responses = <<>>
    BY <1>1 DEF Messages, InWork
  <2>2. QED
    BY <2>1 DEF handleRDMARPC
<1>3. Asks(handler.from, handler.index)
  BY <1>1 DEF Messages, InWork
<1>4. \A d, j : Asks(d, j)' <=> Asks(d, j)
  BY <1>1 DEF Asks, rpcs
<1>5. \A d : Unanswered(d)' <=> Unanswered(d)
  BY <1>1, <1>2 DEF Unanswered
<1>6. Polled'
  BY <1>1, <1>4, <1>5 DEF srq, Messages, Polled
<1>7. InWork'
  <2>1. PICK f, x : f = handler.from /\ x = handler.index
    OBVIOUS
  <2>2. Asks(f, x)'
    BY <1>3, <1>4, <2>1
  <2>3. rspBuffer' = <<f, calls'[f]>>
    BY <1>1, <1>3, <2>1 DEF Asks, rpcs
  <2>4. QED
    BY <1>1, <1>2, <2>1, <2>2, <2>3 DEF InWork
<1>8. Running' /\ Arrivals' /\ AnswersMatch'
  BY <1>1 DEF flags, srq, rpcs, Messages, Running, Arrivals, AnswersMatch
<1>9. QED
  BY <1>6, <1>7, <1>8 DEF Messages

LEMMA AnswerSent ==
  ASSUME TypeOK, Messages, Respond
  PROVE  Messages'
<1>0. PICK f : f = handler.from
  OBVIOUS
<1>1. /\ UNCHANGED <<srq, buffers, flags, handler, calls>> /\ handler.at = "sending"
      /\ Asks(f, handler.index) /\ rspBuffer = <<f, calls[f]>>
      /\ responses' = <<>> /\ Unanswered(f)
  <2>1. responses # <<>> /\ UNCHANGED <<srq, buffers, flags, handler, calls>>
    BY DEF Respond
  <2>2. /\ handler.at = "sending" /\ responses = <<f>>
        /\ Asks(f, handler.index) /\ rspBuffer = <<f, calls[f]>>
    BY <1>0, <2>1 DEF Messages, InWork
  <2>3. responses' = Tail(<<f>>)
    BY <2>2 DEF Respond
  <2>4. QED
    BY <1>0, <2>1, <2>2, <2>3 DEF Unanswered
<1>2. /\ f \in Clients /\ client[f] = "waiting" /\ client'[f] = "idle" /\ answer'[f] = <<f, calls[f]>>
      /\ \A d \in Clients : d # f => client'[d] = client[d] /\ answer'[d] = answer[d]
  <2>1. Head(responses) = f
    BY <1>0 DEF Respond, Messages, InWork
  <2>2. QED
    BY <1>1, <2>1 DEF Respond, Asks, TypeOK
<1>3. \A d, j : Asks(d, j) /\ d # f => Asks(d, j)'
  BY <1>1, <1>2 DEF Asks, buffers
<1>4. \A d : ~ Unanswered(d)'
  BY <1>1 DEF Unanswered
<1>5. Polled'
  BY <1>1, <1>3, <1>4 DEF srq, Messages, Polled
<1>6. InWork'
  <2>1. answer'[f] = rpcBuffer[handler.index]
    BY <1>1, <1>2 DEF Asks
  <2>2. QED
    BY <1>0, <1>1, <2>1 DEF InWork, buffers
<1>7. Running' /\ Arrivals' /\ AnswersMatch'
  BY <1>1, <1>2 DEF flags, srq, Messages, Running, Arrivals, AnswersMatch
<1>8. QED
  BY <1>5, <1>6, <1>7 DEF Messages

LEMMA BufferReposted ==
  ASSUME TypeOK, Messages, receiveSRQ
  PROVE  Messages'
<1>1. /\ handler.at = "sending" /\ responses = <<>> /\ handler'.at = "loop"
      /\ UNCHANGED <<arriving, completions, buffers, responses, flags, rpcs>>
  BY DEF receiveSRQ, SendReturns, TypeOK
<1>2. \A d, j : Asks(d, j)' <=> Asks(d, j)
  BY <1>1 DEF Asks, buffers, rpcs
<1>3. \A d : ~ Unanswered(d)'
  BY <1>1 DEF Unanswered
<1>4. Polled'
  BY <1>1, <1>2, <1>3 DEF Messages, Polled
<1>5. InWork'
  BY <1>1 DEF InWork
<1>6. Running' /\ Arrivals' /\ AnswersMatch'
  BY <1>1 DEF flags, rpcs, Messages, Running, Arrivals, AnswersMatch
<1>7. QED
  BY <1>4, <1>5, <1>6 DEF Messages

-----------------------------------------------------------------------------
(* The inductive invariant. *)
LEMMA InitHolds == Init => IInv
<1> SUFFICES ASSUME Init PROVE IInv
  OBVIOUS
<1>1. /\ Indexes = 0 .. (m_maxNumberMsgs - 1) /\ 0 \in Indexes
      /\ \A i \in 1 .. m_maxNumberMsgs : i - 1 \in Indexes
      /\ \A i \in Indexes : i + 1 \in 1 .. m_maxNumberMsgs /\ (i + 1) - 1 = i
      /\ \A i, j \in 1 .. m_maxNumberMsgs : i - 1 = j - 1 => i = j
      /\ <<>> \in Message
  BY BuffersAssumption DEF Indexes, Message
<1>2. /\ receives \in Seq(Indexes) /\ Len(receives) = m_maxNumberMsgs
      /\ DOMAIN receives = 1 .. m_maxNumberMsgs
      /\ \A i \in 1 .. m_maxNumberMsgs : receives[i] = i - 1
  <2>1. receives = [i \in 1 .. m_maxNumberMsgs |-> i - 1] /\ m_maxNumberMsgs \in Nat
    BY BuffersAssumption DEF Init, initMemory
  <2>2. receives \in [1 .. m_maxNumberMsgs -> Indexes]
    BY <1>1, <2>1
  <2>3. QED
    BY <2>1, <2>2
<1>3. TypeOK
  <2>1. /\ handler \in [at : {"none", "start", "loop", "poll", "handle", "sending", "leave", "ended"},
                       from : Clients \cup {NoClient}, index : Indexes]
        /\ app = "idle" /\ starts \in 0 .. MaxStarts
    BY <1>1, BoundsAssumption DEF Init
  <2>2. /\ arriving \in [Clients -> Indexes \cup {-1}]
        /\ rpcBuffer \in [Indexes -> Message] /\ rspBuffer \in Message
        /\ client \in [Clients -> {"idle", "sent", "arriving", "waiting", "broken"}]
        /\ calls \in [Clients -> 0 .. MaxCalls] /\ answer \in [Clients -> Message]
    BY <1>1, BoundsAssumption DEF Init
  <2>3. completions \in Seq(Completion) /\ responses \in Seq(Clients)
    <3>1. completions = <<>> /\ responses = <<>>
      BY DEF Init
    <3>2. \A S : <<>> \in Seq(S)
      OBVIOUS
    <3>3. QED
      BY <3>1, <3>2
  <2>4. m_processing \in BOOLEAN /\ m_poll \in BOOLEAN /\ m_kill \in BOOLEAN
    BY DEF Init
  <2>5. QED
    BY <1>2, <2>1, <2>2, <2>3, <2>4 DEF TypeOK
<1>4. Posted = Indexes
  <2>1. \A i \in Indexes : i \in Posted
    BY <1>1, <1>2 DEF Posted
  <2>2. \A i \in Posted : i \in Indexes
    BY <1>1, <1>2 DEF Posted
  <2>3. QED
    BY <2>1, <2>2
<1>5. Written = {} /\ Completed = {} /\ InHand = {} /\ completions = <<>>
  BY DEF Init, Written, Completed, InHand
<1>6. Accounted
  <2>1. Cardinality(Written) = 0 /\ Cardinality(InHand) = 0 /\ Len(completions) = 0
    BY <1>5, FS_EmptySet
  <2>2. QED
    BY <1>2, <1>4, <1>5, <2>1, BuffersAssumption DEF Accounted
<1>7. Apart
  <2>1. \A i, j \in DOMAIN receives : receives[i] = receives[j] => i = j
    BY <1>1, <1>2
  <2>2. QED
    BY <1>5, <2>1 DEF Apart, Init
<1>8. Messages
  BY DEF Init, Messages, Running, Arrivals, Polled, InWork, AnswersMatch
<1>9. QED
  BY <1>3, <1>6, <1>7, <1>8 DEF IInv, BuffersAccounted, Accounted, Messages

LEMMA MessagesKept ==
  ASSUME TypeOK, TypeOK', Accounted, Apart, Messages, [Next]_vars
  PROVE  Messages'
<1>1. ASSUME NEW c \in Clients, call(c) \/ Transport(c)
      PROVE  Messages'
  BY <1>1, ClientSteps, MessageCompletes DEF Transport
<1>2. CASE startHandler \/ stopHandler \/ InCall \/ Respond
  BY <1>2, HandlerSteps, AnswerSent
<1>3. CASE HandlerThread
  BY <1>3, HandlerSteps, MessagePolled, MessageHandled, BufferReposted DEF HandlerThread
<1>4. CASE UNCHANGED vars
  <2>1. UNCHANGED <<arriving, completions, rpcBuffer, rspBuffer, responses, m_processing,
                    handler, client, calls, answer>>
    BY <1>4 DEF vars, srq, buffers, flags, rpcs
  <2>2. QED
    BY <2>1 DEF Messages, Running, Arrivals, Polled, InWork, AnswersMatch, Asks, Unanswered
<1>5. QED
  BY <1>1, <1>2, <1>3, <1>4 DEF Next

LEMMA StepHolds ==
  ASSUME IInv, [Next]_vars
  PROVE  IInv'
<1>1. TypeOK /\ Accounted /\ Apart /\ Messages
  BY DEF IInv, BuffersAccounted, Accounted, Messages
<1>2. TypeOK'
  BY <1>1, TypesKept DEF Messages
<1>3. Accounted' /\ Apart'
  BY <1>1, <1>2, PlacesKept DEF Messages
<1>4. Messages'
  BY <1>1, <1>2, MessagesKept
<1>5. QED
  BY <1>2, <1>3, <1>4 DEF IInv, BuffersAccounted, Accounted, Messages

THEOREM Invariance == Spec => []IInv
BY InitHolds, StepHolds, PTL DEF Spec

(* No buffer is lost, and none is in two places: the card never writes to  *)
(* one that the handler or a completion still needs.                       *)
THEOREM BuffersAlwaysAccounted == Spec => []BuffersAccounted
<1>1. IInv => BuffersAccounted
  BY DEF IInv
<1>2. QED
  BY <1>1, Invariance, PTL

(* The handler is given the message its sender waits for an answer to, and *)
(* each client is answered with what it asked.                             *)
THEOREM MessagesAlwaysMatch == Spec => []MessagesMatch
<1>1. IInv => MessagesMatch
  BY ClientsAssumption DEF IInv, MessagesMatch, HandlesSendersMessage, InWork, Asks
<1>2. QED
  BY <1>1, Invariance, PTL

-----------------------------------------------------------------------------
(* Why a message finds no buffer. *)

(* The buffer i is with a message of d that is not answered. *)
Holds(d, i) ==
  \/ arriving[d] = i
  \/ \E k \in DOMAIN completions : completions[k].from = d /\ completions[k].index = i
  \/ Unanswered(d) /\ handler.index = i

(* A client keeps one buffer busy, and only while it waits for an answer. *)
LEMMA HoldsOne ==
  ASSUME IInv, NEW d \in Clients, NEW i \in Indexes, NEW j \in Indexes, Holds(d, i), Holds(d, j)
  PROVE  i = j
<1>1. i # -1 /\ j # -1
  BY BuffersAssumption DEF Indexes
<1>2. \A x \in Indexes : arriving[d] = x => client[d] = "arriving"
  BY BuffersAssumption DEF Indexes, IInv, Arrivals
<1>3. \A k \in DOMAIN completions :
        completions[k].from = d => client[d] = "waiting" /\ ~ Unanswered(d)
  BY DEF IInv, Polled, Asks
<1>4. Unanswered(d) => client[d] = "waiting"
  BY DEF Unanswered, IInv, InWork, Asks
<1>5. \A k, l \in DOMAIN completions :
        completions[k].from = d /\ completions[l].from = d => k = l
  BY DEF IInv, Polled
<1>6. QED
  BY <1>2, <1>3, <1>4, <1>5 DEF Holds

LEMMA BufferHeld ==
  ASSUME IInv, receives = <<>>, NEW c \in Clients, client[c] = "sent",
         ~ (handler.at = "sending" /\ responses = <<>>),
         NEW i \in Indexes
  PROVE  \E d \in Clients \ {c} : Holds(d, i)
<1>1. Posted = {}
  BY DEF Posted
<1>2. i \in Written \cup Completed \cup InHand
  BY <1>1 DEF IInv, BuffersAccounted
<1>3. CASE i \in Written
  <2>1. PICK d \in Clients : arriving[d] = i /\ i # -1
    BY <1>3 DEF Written
  <2>2. d # c
    BY <2>1 DEF IInv, Arrivals
  <2>3. QED
    BY <2>1, <2>2 DEF Holds
<1>4. CASE i \in Completed
  <2>1. PICK k \in DOMAIN completions : completions[k].index = i
    BY <1>4 DEF Completed
  <2>2. completions[k].from \in Clients \ {c}
    BY DEF IInv, Polled, Asks
  <2>3. QED
    BY <2>1, <2>2 DEF Holds
<1>5. CASE i \in InHand
  <2>1. i = handler.index /\ Unanswered(handler.from)
    BY <1>5 DEF InHand, Unanswered
  <2>2. handler.from \in Clients \ {c}
    BY <2>1 DEF Unanswered, IInv, InWork, Asks
  <2>3. QED
    BY <2>1, <2>2 DEF Holds
<1>6. QED
  BY <1>2, <1>3, <1>4, <1>5

(* With a buffer per client, one is free for who has none: unless it is    *)
(* with the handler, which has answered.                                   *)
LEMMA OneWindow ==
  ASSUME IInv, Cardinality(Clients) <= m_maxNumberMsgs, receives = <<>>,
         NEW c \in Clients, client[c] = "sent"
  PROVE  handler.at = "sending" /\ responses = <<>>
<1> SUFFICES ASSUME ~ (handler.at = "sending" /\ responses = <<>>) PROVE FALSE
  OBVIOUS
<1> DEFINE Others == Clients \ {c}
           holder == [i \in Indexes |-> CHOOSE d \in Others : Holds(d, i)]
<1>1. \A i \in Indexes : holder[i] \in Others /\ Holds(holder[i], i)
  BY BufferHeld
<1>2. IsFiniteSet(Indexes) /\ Cardinality(Indexes) = m_maxNumberMsgs
  BY BuffersAssumption, FS_Interval DEF Indexes
<1>3. IsFiniteSet(Others) /\ Cardinality(Others) < m_maxNumberMsgs
  <2>1. Cardinality(Clients) \in Nat
    BY ClientsAssumption, FS_CardinalityType
  <2>2. IsFiniteSet(Others) /\ Cardinality(Others) = Cardinality(Clients) - 1
    BY ClientsAssumption, FS_RemoveElement
  <2>3. QED
    BY <2>1, <2>2, BuffersAssumption
<1>4. holder \in [Indexes -> Others]
  BY <1>1
<1> HIDE DEF holder
<1>5. PICK i, j \in Indexes : i # j /\ holder[i] = holder[j]
  <2> HIDE DEF Others
  <2>1. QED
    BY <1>2, <1>3, <1>4, FS_PigeonHole
<1>6. QED
  BY <1>1, <1>5, HoldsOne

(* With a buffer per client, a message finds none posted only between an   *)
(* answer and the posting of its message's buffer.                         *)
THEOREM BreaksOnlyBeforeRepost ==
  ASSUME Cardinality(Clients) <= m_maxNumberMsgs
  PROVE  Spec => BreaksBeforeRepost
<1> DEFINE Breaks ==
      \A c \in Clients : client[c] # "broken" /\ client'[c] = "broken" =>
        /\ handler.at = "sending"
        /\ answer[handler.from] = rpcBuffer[handler.index]
<1>1. ASSUME IInv, [Next]_vars
      PROVE  Breaks
  <2> SUFFICES ASSUME NEW c \in Clients, client[c] # "broken", client'[c] = "broken"
               PROVE  /\ handler.at = "sending"
                      /\ answer[handler.from] = rpcBuffer[handler.index]
    OBVIOUS
  <2>1. receives = <<>> /\ client[c] = "sent"
    <3>1. client \in [Clients -> {"idle", "sent", "arriving", "waiting", "broken"}]
      BY <1>1 DEF IInv, BuffersAccounted, TypeOK
    <3>2. ASSUME NEW d \in Clients, call(d) \/ Transport(d)
          PROVE  receives = <<>> /\ client[c] = "sent"
      BY <3>1, <3>2 DEF call, Transport, Arrive, ReceiverNotReady, Complete
    <3>3. CASE Respond
      BY <3>1, <3>3 DEF Respond
    <3>4. CASE startHandler \/ stopHandler \/ InCall \/ HandlerThread \/ UNCHANGED vars
      BY <3>4 DEF startHandler, stopHandler, InCall, HandlerStarted, HandlerJoined, HandlerThread,
                  run, CheckKilled, pollReceiveSRQ, PollEnds, handleRDMARPC, receiveSRQ, Leave,
                  vars, rpcs
    <3>5. QED
      BY <1>1, <3>2, <3>3, <3>4 DEF Next
  <2>2. handler.at = "sending" /\ responses = <<>>
    BY <1>1, <2>1, OneWindow
  <2>3. QED
    BY <1>1, <2>2 DEF IInv, InWork
<1>2. QED
  BY <1>1, Invariance, PTL DEF Spec, BreaksBeforeRepost
=============================================================================
