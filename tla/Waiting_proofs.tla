---------------------------- MODULE Waiting_proofs ---------------------------
(***************************************************************************)
(* What one can rely on who has waited: for the completion of an operation *)
(* (SendQueue), and for the thread of a server to end (ProtoServer).       *)
(*                                                                         *)
(* A program polls for each of its requestReads (PollsReads): then the     *)
(* counter keeps places free, and a wait ends with the completion it waits *)
(* for.  The argument is that at any time at most one completion is due,   *)
(* that of the last request posted.  For a server it is m_running, which   *)
(* keeps the two threads apart until the server is started a second time,  *)
(* and stopServer, which joins the thread at any time.                     *)
(***************************************************************************)
EXTENDS SendQueue, ProtoServer, WellFoundedInduction, TLAPS

(* No completion of a failed request has been polled yet. *)
Sound == failedWR = 0 \/ polled < failedWR

Due == {w \in signaledWRs : polled < w}

(* Between calls none is due, and m_countWR counts the places in use ...   *)
NoneDue == Due = {} /\ posted - polled = m_countWR

(* ... and while one is waited for, or left to pollSend, it is the last.   *)
LastDue ==
  /\ Due = {posted}
  /\ polled < posted /\ posted - polled <= RDMA_MAX_WR
  /\ m_countWR = 0

Resting == waiting = "nothing" /\ reads = 0

OneDue ==
  Sound => /\ Resting => NoneDue
           /\ ~ Resting => LastDue

ReadsPolled ==
  /\ reads \in {0, 1}
  /\ waiting = "operation" => reads = 0
  /\ waiting = "pollSend" => reads = 1

PlacesLeft == Sound => result # "postFailed"

IInv == TypeOK /\ ReadsPolled /\ OneDue /\ PlacesLeft /\ SignaledMeansDone

-----------------------------------------------------------------------------
(* The first completion of a non-empty queue is one of its completions. *)
LEMMA FirstCompletion ==
  ASSUME TypeOK, Completions # {}
  PROVE  First(Completions) \in Completions
<1> DEFINE R == OpToRel(<, Nat)
<1>1. \A x, y \in Nat : x < y => <<x, y>> \in R
  BY DEF OpToRel
<1>2. IsWellFoundedOn(R, Nat)
  BY NatLessThanWellFounded
<1> HIDE DEF R
<1>3. Completions \subseteq Nat
  BY LimitAssumption DEF TypeOK, Completions
<1>4. PICK w \in Completions : \A v \in Completions : ~ (<<v, w>> \in R)
  BY <1>2, <1>3, WFMin
<1>5. \A v \in Completions : w <= v
  <2> TAKE v \in Completions
  <2>1. ~ (v < w)
    BY <1>1, <1>3, <1>4, Zenon
  <2>2. QED
    BY <1>3, <2>1
<1>6. QED
  BY <1>4, <1>5 DEF First

(* What is polled while nothing has failed is the completion that is due,  *)
(* that of the last request; what is polled later has failed.              *)
LEMMA PolledIsDue ==
  ASSUME IInv, ~ Resting, Completions # {}
  PROVE  LET w == First(Completions)
         IN  /\ w \in (polled + 1) .. executed
             /\ ~ Failed(w) => Sound /\ w = posted
<1> DEFINE w == First(Completions)
<1>1. w \in Completions
  BY FirstCompletion DEF IInv
<1>2. /\ w \in (polled + 1) .. executed
      /\ w \in signaledWRs \/ Failed(w)
  BY <1>1 DEF Completions
<1> HIDE DEF w
<1>3. ASSUME ~ Failed(w)
      PROVE  Sound /\ w = posted
  <2>1. Sound
    BY <1>2, <1>3, LimitAssumption DEF IInv, TypeOK, Failed, Sound
  <2>2. w \in Due
    BY <1>2, <1>3, LimitAssumption DEF IInv, TypeOK, Due
  <2>3. Due = {posted}
    BY <2>1 DEF IInv, OneDue, LastDue
  <2>4. QED
    BY <2>1, <2>2, <2>3
<1>4. QED
  BY <1>2, <1>3 DEF w

LEMMA InitInvariant == Init => IInv
<1> SUFFICES ASSUME Init PROVE IInv
  OBVIOUS
<1>1. TypeOK
  BY LimitAssumption DEF Init, TypeOK, Results
<1>2. ReadsPolled /\ PlacesLeft /\ SignaledMeansDone
  BY DEF Init, ReadsPolled, PlacesLeft, SignaledMeansDone
<1>3. OneDue
  BY DEF Init, OneDue, Resting, NoneDue, Due
<1>4. QED
  BY <1>1, <1>2, <1>3 DEF IInv

-----------------------------------------------------------------------------
(* The card's steps. *)
LEMMA CardKeepsInvariant ==
  ASSUME IInv, Execute \/ Fail
  PROVE  IInv'
<1>1. executed < posted /\ executed' = executed + 1
  BY DEF Execute, Fail
<1>2. UNCHANGED <<m_countWR, posted, polled, signaledWRs, waiting, reads, result>>
  BY DEF Execute, Fail
<1>3. failedWR' = failedWR \/ (failedWR = 0 /\ failedWR' = executed + 1)
  BY DEF Execute, Fail
<1>4. TypeOK'
  BY <1>1, <1>2, <1>3, LimitAssumption DEF IInv, TypeOK
<1>5. Sound' => Sound
  BY <1>2, <1>3, LimitAssumption DEF IInv, TypeOK, Sound
<1>6. OneDue' /\ ReadsPolled' /\ PlacesLeft'
  BY <1>2, <1>5 DEF IInv, OneDue, Resting, NoneDue, LastDue, Due, ReadsPolled, PlacesLeft
<1>7. result # "completed"
  BY <1>1, LimitAssumption DEF IInv, TypeOK, SignaledMeansDone
<1>8. QED
  BY <1>2, <1>4, <1>6, <1>7 DEF IInv, SignaledMeansDone

(* An operation posts between calls, when none is due. *)
LEMMA PostKeepsInvariant ==
  ASSUME IInv, NEW signaled \in BOOLEAN, NEW wait \in BOOLEAN,
         remoteAccess(signaled, wait), reads = 0,
         reads' = IF posted' > posted /\ ~ wait THEN 1 ELSE 0,
         ~ wait => signaled
  PROVE  IInv'
<1> USE LimitAssumption
<1>1. /\ waiting = "nothing" /\ posted < MaxPosts
      /\ m_countWR' = CountWR(signaled)
      /\ UNCHANGED <<executed, polled, failedWR>>
  BY DEF remoteAccess
<1>2. Resting
  BY <1>1 DEF Resting
<1>3. Sound' = Sound
  BY <1>1 DEF Sound
<1>4. m_countWR' \in 0 .. (RDMA_MAX_WR - 1)
  BY <1>1 DEF IInv, TypeOK, CountWR, checkSignaled
<1>5. CASE posted - polled < RDMA_MAX_WR
  <2>1. /\ posted' = posted + 1
        /\ signaledWRs' = IF checkSignaled(signaled)
                          THEN signaledWRs \cup {posted + 1} ELSE signaledWRs
        /\ waiting' = IF checkSignaled(signaled) /\ wait THEN "operation" ELSE "nothing"
        /\ result' = "ok"
    BY <1>5 DEF remoteAccess, PollsFor
  <2>2. reads' = IF wait THEN 0 ELSE 1
    BY <2>1 DEF IInv, TypeOK
  <2>3. TypeOK'
    BY <1>1, <1>4, <2>1, <2>2 DEF IInv, TypeOK, Results
  <2>4. ReadsPolled' /\ PlacesLeft' /\ SignaledMeansDone'
    BY <2>1, <2>2 DEF ReadsPolled, PlacesLeft, SignaledMeansDone
  <2>5. ASSUME Sound, checkSignaled(signaled)
        PROVE  ~ Resting' /\ LastDue'
    <3>1. Due' = Due \cup {posted + 1}
      BY <1>1, <2>1, <2>5 DEF IInv, TypeOK, Due
    <3>2. NoneDue
      BY <1>2, <2>5 DEF IInv, OneDue
    <3>3. QED
      BY <1>1, <1>5, <2>1, <2>2, <2>5, <3>1, <3>2
      DEF IInv, TypeOK, Resting, LastDue, NoneDue, CountWR
  <2>6. ASSUME Sound, ~ checkSignaled(signaled)
        PROVE  Resting' /\ NoneDue'
    <3>1. Due' = Due
      BY <1>1, <2>1, <2>6 DEF Due
    <3>2. NoneDue
      BY <1>2, <2>6 DEF IInv, OneDue
    <3>3. wait
      BY <2>6 DEF checkSignaled
    <3>4. QED
      BY <1>1, <2>1, <2>2, <2>6, <3>1, <3>2, <3>3
      DEF IInv, TypeOK, Resting, NoneDue, CountWR
  <2>7. OneDue'
    BY <1>3, <2>5, <2>6 DEF OneDue
  <2>8. QED
    BY <2>3, <2>4, <2>7 DEF IInv
<1>6. CASE ~ (posted - polled < RDMA_MAX_WR)
  <2>1. ~ Sound
    BY <1>2, <1>6 DEF IInv, TypeOK, OneDue, NoneDue
  <2>2. result' = "postFailed" /\ UNCHANGED <<posted, signaledWRs, waiting>>
    BY <1>6 DEF remoteAccess
  <2>3. reads' = 0
    BY <2>2 DEF IInv, TypeOK
  <2>4. TypeOK'
    BY <1>1, <1>4, <2>2, <2>3 DEF IInv, TypeOK, Results
  <2>5. QED
    BY <1>1, <1>3, <2>1, <2>2, <2>3, <2>4
    DEF IInv, ReadsPolled, OneDue, PlacesLeft, SignaledMeansDone
<1>7. QED
  BY <1>5, <1>6

(* What follows when a completion is polled and a call ends with it. *)
LEMMA PollKeepsInvariant ==
  ASSUME IInv, ~ Resting, NEW success \in {"ok", "completed"}, Poll(success),
         waiting' = "nothing", reads' = 0,
         UNCHANGED <<m_countWR, posted, executed, signaledWRs, failedWR>>
  PROVE  IInv'
<1> USE LimitAssumption
<1> DEFINE w == First(Completions)
<1>1. /\ w \in (polled + 1) .. executed
      /\ ~ Failed(w) => Sound /\ w = posted
  BY PolledIsDue DEF Poll
<1>2. /\ polled' = w
      /\ result' = IF Failed(w) THEN "completionError" ELSE success
  BY DEF Poll
<1> HIDE DEF w
<1>3. TypeOK'
  BY <1>1, <1>2 DEF IInv, TypeOK, Results
<1>4. Resting'
  BY DEF Resting
<1>5. CASE Failed(w)
  <2>1. ~ Sound'
    BY <1>1, <1>2, <1>5 DEF IInv, TypeOK, Failed, Sound
  <2>2. QED
    BY <1>2, <1>3, <1>5, <2>1
    DEF IInv, ReadsPolled, OneDue, PlacesLeft, SignaledMeansDone
<1>6. CASE ~ Failed(w)
  <2>1. Sound /\ w = posted
    BY <1>1, <1>6
  <2>2. LastDue
    BY <2>1 DEF IInv, OneDue
  <2>3. Due' = {}
    <3>1. \A v \in signaledWRs : ~ (posted < v)
      BY DEF IInv, TypeOK
    <3>2. QED
      BY <1>2, <2>1, <3>1 DEF Due
  <2>4. posted' - polled' = m_countWR'
    BY <1>2, <2>1, <2>2 DEF IInv, TypeOK, LastDue
  <2>5. ~ Failed(posted)'
    BY <1>6, <2>1 DEF Failed
  <2>6. QED
    BY <1>2, <1>3, <1>4, <1>6, <2>1, <2>3, <2>4, <2>5
    DEF IInv, ReadsPolled, OneDue, NoneDue, PlacesLeft, SignaledMeansDone
<1>7. QED
  BY <1>5, <1>6

LEMMA pollSendKeepsInvariant ==
  ASSUME IInv, NEW doPoll \in BOOLEAN, pollSend(doPoll)
  PROVE  IInv'
<1>1. /\ waiting = "nothing" /\ reads = 1 /\ ~ Resting
      /\ UNCHANGED <<m_countWR, posted, executed, signaledWRs, failedWR>>
  BY DEF IInv, ReadsPolled, pollSend, Resting
<1>2. CASE waiting' = "pollSend" /\ UNCHANGED <<polled, reads, result>>
  <2>1. TypeOK' /\ ReadsPolled' /\ PlacesLeft' /\ SignaledMeansDone'
    BY <1>1, <1>2 DEF IInv, TypeOK, ReadsPolled, PlacesLeft, Sound, SignaledMeansDone, Failed
  <2>2. OneDue'
    BY <1>1, <1>2 DEF IInv, OneDue, Sound, Resting, LastDue, Due
  <2>3. QED
    BY <2>1, <2>2 DEF IInv
<1>3. CASE Poll("ok") /\ reads' = reads - 1 /\ UNCHANGED waiting
  BY <1>1, <1>3, PollKeepsInvariant
<1>4. CASE result' = "pollFailed" /\ UNCHANGED <<polled, reads, waiting>>
  <2>1. TypeOK' /\ ReadsPolled' /\ PlacesLeft' /\ SignaledMeansDone'
    BY <1>1, <1>4 DEF IInv, TypeOK, Results, ReadsPolled, PlacesLeft, SignaledMeansDone
  <2>2. OneDue'
    BY <1>1, <1>4 DEF IInv, OneDue, Sound, Resting, LastDue, Due
  <2>3. QED
    BY <2>1, <2>2 DEF IInv
<1>5. QED
  BY <1>2, <1>3, <1>4 DEF pollSend

LEMMA NextKeepsInvariant ==
  ASSUME PollsReads, IInv, [Next]_vars
  PROVE  IInv'
<1>1. CASE Execute \/ Fail
  BY <1>1, CardKeepsInvariant
<1>2. ASSUME NEW signaled \in BOOLEAN, operation(signaled)
      PROVE  IInv'
  <2>1. remoteAccess(signaled, TRUE) /\ reads = 0 /\ reads' = 0
    BY <1>2 DEF operation
  <2>2. QED
    BY <2>1, PostKeepsInvariant
<1>3. CASE requestRead
  <2>1. remoteAccess(TRUE, FALSE) /\ reads = 0
    BY <1>3, Zenon DEF requestRead
  <2>2. reads' = IF posted' > posted THEN 0 + 1 ELSE 0
    BY <1>3, <2>1, Zenon DEF requestRead
  <2>3. reads' = IF posted' > posted /\ ~ FALSE THEN 1 ELSE 0
    BY <2>2
  <2>4. QED
    BY <2>1, <2>3, PostKeepsInvariant, Zenon
<1>4. ASSUME NEW doPoll \in BOOLEAN, pollSend(doPoll)
      PROVE  IInv'
  BY <1>4, pollSendKeepsInvariant
<1>5. CASE Completed
  <2>1. reads' = 0 /\ ~ Resting
    BY <1>5 DEF Completed, IInv, ReadsPolled, Resting
  <2>2. QED
    BY <1>5, <2>1, PollKeepsInvariant DEF Completed
<1>6. CASE SendPolled
  <2>1. reads' = 0 /\ ~ Resting
    BY <1>6 DEF SendPolled, IInv, ReadsPolled, Resting
  <2>2. QED
    BY <1>6, <2>1, PollKeepsInvariant DEF SendPolled
<1>7. CASE UNCHANGED vars
  BY <1>7 DEF vars, queue, IInv, TypeOK, ReadsPolled, OneDue, Sound, Resting, NoneDue,
              LastDue, Due, PlacesLeft, SignaledMeansDone, Failed
<1>8. QED
  BY <1>1, <1>2, <1>3, <1>4, <1>5, <1>6, <1>7 DEF Next

-----------------------------------------------------------------------------
(* At most one completion is due, and it is that of the last request. *)
THEOREM Invariance == PollsReads => (Spec => []IInv)
<1> SUFFICES ASSUME PollsReads PROVE Spec => []IInv
  OBVIOUS
<1>1. Init => IInv
  BY InitInvariant
<1>2. IInv /\ [Next]_vars => IInv'
  BY NextKeepsInvariant
<1>3. QED
  BY <1>1, <1>2, PTL DEF Spec

(* The state of the connection stays well formed; in particular m_countWR  *)
(* never passes the value checkSignaled compares it with.                  *)
THEOREM TypeCorrect == PollsReads => (Spec => []TypeOK)
<1>1. IInv => TypeOK
  BY DEF IInv
<1>2. QED
  BY <1>1, Invariance, PTL

(* ibv_post_send never runs out of places, for every RDMA_MAX_WR.  *)
THEOREM SendQueueSuffices == PollsReads => (Spec => []PostsSucceed)
<1>1. IInv => PostsSucceed
  BY DEF IInv, PlacesLeft, Sound, PostsSucceed
<1>2. QED
  BY <1>1, Invariance, PTL

(* An operation that polled has seen its own completion. *)
THEOREM WaitsForItsOwn == PollsReads => (Spec => []SignaledMeansDone)
<1>1. IInv => SignaledMeansDone
  BY DEF IInv
<1>2. QED
  BY <1>1, Invariance, PTL

-----------------------------------------------------------------------------
(* While the thread is on its way to bind, the application waits in        *)
(* startServer; from then on m_running is true until the thread's last     *)
(* step.                                                                   *)
Binding == thread = "bind" => app = "starting" /\ ~ m_running /\ ~ m_kill /\ socket = "new"

Running == m_running <=> thread \in {"loop", "receive", "handle", "leave"}

Open == thread \in {"loop", "receive", "handle"} => socket = "open"

Started1 ==
  /\ starts \in {0, 1}
  /\ thread = "none" <=> starts = 0
  /\ m_kill => starts = 1

ServerInv ==
  /\ starts \in Nat
  /\ starts <= 1 => Binding /\ Running /\ Open /\ Started1

(* When the application is between two calls, a deleted context is one     *)
(* that stopServer has deleted, and then it has joined the thread.         *)
Joined ==
  /\ app = "starting" => context = "open"
  /\ app = "idle" /\ context = "deleted" => ~ joinable

-----------------------------------------------------------------------------
LEMMA ServerKeepsInvariant ==
  ASSUME ServerInv, [ServerNext]_serverVars
  PROVE  ServerInv'
<1> USE BoundsAssumption DEF ServerInv, Binding, Running, Open, Started1,
                             flags, sockets, clients
<1>1. CASE Request
  BY <1>1 DEF Request
<1>2. CASE startServer
  BY <1>2 DEF startServer
<1>3. CASE stopServer
  BY <1>3 DEF stopServer
<1>4. CASE Destroy
  BY <1>4 DEF Destroy, MayDestroy
<1>5. CASE InCall
  BY <1>5 DEF InCall, Started, closeContext, ContextClosed, join
<1>6. CASE Bind \/ BindFails
  BY <1>6 DEF Bind, BindFails
<1>7. CASE CheckKilled \/ handle \/ Leave
  BY <1>7 DEF CheckKilled, handle, Leave
<1>8. CASE receive \/ ReceiveTerminated
  BY <1>8 DEF receive, ReceiveTerminated
<1>9. CASE UNCHANGED serverVars
  BY <1>9 DEF serverVars
<1>10. QED
  BY <1>1, <1>2, <1>3, <1>4, <1>5, <1>6, <1>7, <1>8, <1>9 DEF ServerNext, Application, ServerThread

LEMMA ServerKeepsJoined ==
  ASSUME Joined, [ServerNext]_serverVars
  PROVE  Joined'
<1> USE DEF Joined, flags, sockets, clients
<1>1. CASE Request
  BY <1>1 DEF Request
<1>2. CASE startServer
  BY <1>2 DEF startServer
<1>3. CASE stopServer
  BY <1>3 DEF stopServer
<1>4. CASE Destroy
  BY <1>4 DEF Destroy, MayDestroy
<1>5. CASE InCall
  BY <1>5 DEF InCall, Started, closeContext, ContextClosed, join
<1>6. CASE Bind \/ BindFails
  BY <1>6 DEF Bind, BindFails
<1>7. CASE CheckKilled \/ handle \/ Leave
  BY <1>7 DEF CheckKilled, handle, Leave
<1>8. CASE receive \/ ReceiveTerminated
  BY <1>8 DEF receive, ReceiveTerminated
<1>9. CASE UNCHANGED serverVars
  BY <1>9 DEF serverVars
<1>10. QED
  BY <1>1, <1>2, <1>3, <1>4, <1>5, <1>6, <1>7, <1>8, <1>9 DEF ServerNext, Application, ServerThread

LEMMA ServerKeepsTypes ==
  ASSUME ServerTypeOK, [ServerNext]_serverVars
  PROVE  ServerTypeOK'
<1> USE BoundsAssumption DEF ServerTypeOK, flags, sockets, clients
<1>1. CASE Request
  BY <1>1 DEF Request
<1>2. CASE startServer
  BY <1>2 DEF startServer
<1>3. CASE stopServer
  BY <1>3 DEF stopServer
<1>4. CASE Destroy
  BY <1>4 DEF Destroy, MayDestroy
<1>5. CASE InCall
  BY <1>5 DEF InCall, Started, closeContext, ContextClosed, join
<1>6. CASE Bind \/ BindFails
  BY <1>6 DEF Bind, BindFails
<1>7. CASE CheckKilled \/ handle \/ Leave
  BY <1>7 DEF CheckKilled, handle, Leave
<1>8. CASE receive \/ ReceiveTerminated
  <2>1. CASE receive
    <3>1. inbox' \in 0 .. sent' /\ sent' \in 0 .. MaxRequests /\ starts' \in 0 .. MaxStarts
      BY <2>1 DEF receive
    <3>2. QED
      BY <2>1, <3>1 DEF receive
  <2>2. CASE ReceiveTerminated
    BY <2>2 DEF ReceiveTerminated
  <2>3. QED
    BY <1>8, <2>1, <2>2
<1>9. CASE UNCHANGED serverVars
  BY <1>9 DEF serverVars
<1>10. QED
  BY <1>1, <1>2, <1>3, <1>4, <1>5, <1>6, <1>7, <1>8, <1>9 DEF ServerNext, Application, ServerThread

-----------------------------------------------------------------------------
(* The server thread never uses a closed or deleted socket, whatever       *)
(* fails, until the server is started again.                               *)
THEOREM SocketOutlivesThread == ServerSpec => []NoUseAfterDelete
<1>1. ServerInit => ServerInv
  BY DEF ServerInit, ServerInv, Binding, Running, Open, Started1
<1>2. ServerInv /\ [ServerNext]_serverVars => ServerInv'
  BY ServerKeepsInvariant
<1>3. ServerInit => ServerTypeOK
  <2> SUFFICES ASSUME ServerInit PROVE ServerTypeOK
    OBVIOUS
  <2>1. inbox \in 0 .. sent /\ sent \in 0 .. MaxRequests /\ starts \in 0 .. MaxStarts
    BY BoundsAssumption DEF ServerInit
  <2>2. QED
    BY <2>1, Zenon DEF ServerInit, ServerTypeOK
<1>4. ServerTypeOK /\ [ServerNext]_serverVars => ServerTypeOK'
  BY ServerKeepsTypes
<1>5. ServerInv /\ ServerTypeOK => NoUseAfterDelete
  BY DEF ServerInv, Binding, Open, NoUseAfterDelete
<1>6. QED
  BY <1>1, <1>2, <1>3, <1>4, <1>5, PTL DEF ServerSpec

(* A server that has been stopped is destroyed without ending the process, *)
(* whatever failed and however often it was started.                       *)
THEOREM ThreadIsJoined == ServerSpec => DestroyedJoined
<1>1. ServerInit => Joined
  BY DEF ServerInit, Joined
<1>2. Joined /\ [ServerNext]_serverVars => Joined'
  BY ServerKeepsJoined
<1>3. Joined => (Destroy /\ context = "deleted" => app' = "destroyed")
  BY DEF Joined, Destroy
<1>4. QED
  BY <1>1, <1>2, <1>3, PTL DEF ServerSpec, DestroyedJoined
=============================================================================
