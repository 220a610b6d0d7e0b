------------------------------ MODULE PerfPrograms ------------------------------
(***************************************************************************)
(* What the threads of a performance test do, as programs: sequences of    *)
(* instructions that stand for their loops unrolled.  PerfTest executes    *)
(* them.  The classes of tests differ in their programs.                   *)
(*                                                                         *)
(* A test T is a record: class, mode (the write mode), operations (those   *)
(* it was asked for), clients (the set of client processes), threads (of   *)
(* each), servers (the sequence m_rdma_addresses), slots (m_buffer_slots)  *)
(* and iterations (m_iterations_per_thread).  A worker thread is a pair of *)
(* its process and a number, a connection the pair of a client's worker    *)
(* and a server, and an end of it has a receive queue.                     *)
(*                                                                         *)
(* Instructions with an end work on its queue.  Those of a server's worker *)
(* have none: it works on the connection to the node it answers.  Windows  *)
(* are of one message here (RDMA_MAX_WR is 1); BandwidthPerfTest has the   *)
(* larger ones.                                                            *)
(***************************************************************************)
EXTENDS Integers, FiniteSets, SequencesExt

Do(name) == <<[do |-> name]>>
On(name, e) == <<[do |-> name, end |-> e]>>
Nth(name, e, i) == <<[do |-> name, end |-> e, i |-> i]>>
Launch(workers, op) == <<[do |-> "launch", workers |-> workers, op |-> op]>>
AllReady(workers) == <<[do |-> "allReady", workers |-> workers]>>
Prepare(op) == <<[do |-> "prepare", op |-> op]>>
Datagram(ends) == <<[do |-> "datagram", to |-> ends]>>

If(condition, program) == IF condition THEN program ELSE <<>>
Repeat(n, Body(_)) == FlattenSeq([i \in 1 .. n |-> Body(i)])
Iterate(T, Body(_)) == Repeat(T.iterations, LAMBDA i : Body(i - 1))

(* The deployment: a server has a worker for every worker of every client. *)
client_count(T) == Cardinality(T.clients)
ServerThreadCount(T) == client_count(T) * T.threads
ThreadsOf(T, c) == {c} \X (1 .. T.threads)
ServerThreadsOf(T, s) == {s} \X (1 .. ServerThreadCount(T))

AtClient(t, s) == <<<<t, s>>, "client">>
AtServer(t, s) == <<<<t, s>>, "server">>

(* A loop over the connections of a client's worker, ... *)
EachServer(T, t, Body(_)) ==
  Repeat(Len(T.servers), LAMBDA k : Body(AtClient(t, T.servers[k])))

(* ... and one over the connections of a server. *)
EachClient(T, s, Body(_)) ==
  LET nodes == SetToSeq(T.clients \X (1 .. T.threads))
  IN Repeat(Len(nodes), LAMBDA k : Body(AtServer(nodes[k], s)))

-----------------------------------------------------------------------------
(* The barriers of PerfTest.h.                                             *)

(* No sleep in the one at the end of a test. *)
GlobalBarrierClient(T, t, waitTime) ==
  EachServer(T, t, LAMBDA e : On("post", e)) \o If(waitTime, Do("sleep"))
    \o EachServer(T, t, LAMBDA e : On("message", e))
    \o EachServer(T, t, LAMBDA e : On("poll", e))

(* "gather" posts a receive for every connection. *)
GlobalBarrierServer(T, s, prepare) ==
  If(prepare, Do("gather"))
    \o EachClient(T, s, LAMBDA e : On("poll", e))
    \o EachClient(T, s, LAMBDA e : On("message", e))

GlobalBarrierServerPrepare == Do("post")

EndBarrierClient(T, t) == If(client_count(T) > 1, GlobalBarrierClient(T, t, FALSE))
EndBarrierServer(T, s, prepare) ==
  If(client_count(T) > 1, GlobalBarrierServer(T, s, prepare))

(* The phases of a test: the operations of its class it was asked for. *)
TwoSided == <<"WRITE", "READ", "SEND_RECEIVE">>
Atomics == <<"FETCH_ADD", "COMPARE_SWAP">>
hasTestOperation(T, op) == op \in T.operations
Phases(T, ops, Body(_)) ==
  Repeat(Len(ops), LAMBDA k : If(hasTestOperation(T, ops[k]), Body(ops[k])))

(* makeThreadsReady, and runThreads without the barrier in it. *)
ReadyThreads(workers, op) == Prepare(op) \o Launch(workers, op) \o AllReady(workers)
RunThreads(workers) == Do("notify") \o <<[do |-> "join", workers |-> workers]>>

(* setupTest at a client constructs its workers. *)
SetupClient(T, c, ClientThread(_, _)) ==
  Repeat(T.threads, LAMBDA k : ClientThread(T, <<c, k>>))

-----------------------------------------------------------------------------
(* The latency test.                                                       *)

(* The last writes tell the server's worker whom to answer. *)
LatencyClientThread(T, t) ==
  EachServer(T, t, LAMBDA e : On("connect", e))
    \o EachServer(T, t, LAMBDA e : On("identify", e))

(* Write a word that says where the answer goes, watch for it to come. *)
LatencyClientWriteNormal(T, t) ==
  Iterate(T, LAMBDA i :
    If(i % T.slots = 0, Do("reset"))
      \o EachServer(T, t, LAMBDA e : Nth("write", e, i) \o Nth("watch", e, i)))

LatencyClientWriteImmediate(T, t) ==
  Iterate(T, LAMBDA i : EachServer(T, t, LAMBDA e :
    On("post", e) \o On("message", e) \o On("poll", e)))

LatencyClientRead(T, t) == Iterate(T, LAMBDA i : EachServer(T, t, LAMBDA e : On("access", e)))

LatencyClientSendReceive(T, t) ==
  EachServer(T, t, LAMBDA e : On("post", e))
    \o Iterate(T, LAMBDA i : EachServer(T, t, LAMBDA e :
         On("message", e) \o On("poll", e) \o On("post", e)))

LatencyClientRun(T, t, op) ==
  GlobalBarrierClient(T, t, TRUE) \o Do("wait")
    \o CASE op = "WRITE" /\ T.mode = "normal"    -> LatencyClientWriteNormal(T, t)
         [] op = "WRITE" /\ T.mode = "immediate" -> LatencyClientWriteImmediate(T, t)
         [] op = "READ"                          -> LatencyClientRead(T, t)
         [] op = "SEND_RECEIVE"                  -> LatencyClientSendReceive(T, t)

LatencyServerWriteNormal(T) ==
  Iterate(T, LAMBDA i : <<[do |-> "await", i |-> i], [do |-> "return", i |-> i]>>)

(* Slip: the answer goes out before the next receive is posted. *)
LatencyServerAnswersFirst(T) ==
  Do("post") \o Repeat(T.iterations - 1, LAMBDA i : Do("poll") \o Do("message") \o Do("post"))
    \o Do("poll") \o Do("message")

(* The next receive is posted before the answer goes out. *)
LatencyServerWriteImmediate(T) ==
  Do("post") \o Repeat(T.iterations - 1, LAMBDA i : Do("poll") \o Do("post") \o Do("message"))
    \o Do("poll") \o Do("message")

LatencyServerSendReceive(T) ==
  Do("post") \o Iterate(T, LAMBDA i : Do("poll") \o Do("post") \o Do("message"))

LatencyServerRun(T, op) ==
  Do("wait") \o Do("respond")
    \o CASE op = "WRITE" /\ T.mode = "normal"    -> LatencyServerWriteNormal(T)
         [] op = "WRITE" /\ T.mode = "immediate" -> LatencyServerWriteImmediate(T)
         [] op = "READ"                          -> <<>>
         [] op = "SEND_RECEIVE"                  -> LatencyServerSendReceive(T)

LatencyServerMain(T, s) ==
  Do("startServer")
    \o Phases(T, TwoSided, LAMBDA op :
         ReadyThreads(ServerThreadsOf(T, s), op) \o GlobalBarrierServer(T, s, TRUE)
           \o RunThreads(ServerThreadsOf(T, s)))
    \o Do("disconnected")

LatencyClientMain(T, c) ==
  SetupClient(T, c, LatencyClientThread)
    \o Phases(T, TwoSided, LAMBDA op :
         ReadyThreads(ThreadsOf(T, c), op) \o Do("sleep") \o RunThreads(ThreadsOf(T, c)))

-----------------------------------------------------------------------------
(* The bandwidth test, and the operations-count test that is a copy of it. *)

BandwidthClientThread(T, t) == LatencyClientThread(T, t)
OperationsCountClientThread(T, t) == LatencyClientThread(T, t)

(* A message per round: a receive for its acknowledgement comes first. *)
WindowClient(T, t) ==
  Iterate(T, LAMBDA i : EachServer(T, t, LAMBDA e :
    On("post", e) \o On("message", e) \o On("poll", e)))

(* Every message is replaced, as long as more are to come, and             *)
(* acknowledged; a receive for the end barrier precedes the last           *)
(* acknowledgement.                                                        *)
WindowServer(T) ==
  Do("post")
    \o Repeat(T.iterations, LAMBDA i :
         Do("poll") \o If(i < T.iterations, Do("post"))
           \o If(i = T.iterations /\ client_count(T) > 1, GlobalBarrierServerPrepare)
           \o Do("message"))

(* Operations the server does nothing for; each is waited for, or          *)
(* overtaken by one that is.                                               *)
OneSided(T, t) == Iterate(T, LAMBDA i : EachServer(T, t, LAMBDA e : On("access", e)))

UsesWindow(T, op) == op = "SEND_RECEIVE" \/ (op = "WRITE" /\ T.mode = "immediate")

BandwidthClientRun(T, t, op) ==
  GlobalBarrierClient(T, t, TRUE) \o Do("wait")
    \o (IF UsesWindow(T, op) THEN WindowClient(T, t) ELSE OneSided(T, t))
    \o EndBarrierClient(T, t)

OperationsCountClientRun(T, t, op) ==
  GlobalBarrierClient(T, t, TRUE) \o Do("wait")
    \o (IF UsesWindow(T, op) THEN WindowClient(T, t) ELSE OneSided(T, t))
    \o EndBarrierClient(T, t)

BandwidthServerRun(T, op) ==
  Do("wait") \o Do("respond")
    \o (IF UsesWindow(T, op) THEN WindowServer(T)
        ELSE If(client_count(T) > 1, GlobalBarrierServerPrepare))

(* No receive for the end barrier of a WRITE without immediate data. *)
OperationsCountServerRun(T, op) ==
  Do("wait") \o Do("respond")
    \o (IF UsesWindow(T, op) THEN WindowServer(T)
        ELSE If(client_count(T) > 1 /\ op = "READ", GlobalBarrierServerPrepare))

(* The server's main thread ends a test of several clients with a barrier, *)
(* the receives for which its workers have posted.                         *)
BandwidthServerMain(T, s) ==
  Do("startServer")
    \o Phases(T, TwoSided, LAMBDA op :
         ReadyThreads(ServerThreadsOf(T, s), op) \o GlobalBarrierServer(T, s, TRUE)
           \o RunThreads(ServerThreadsOf(T, s)) \o EndBarrierServer(T, s, FALSE))
    \o Do("disconnected")

OperationsCountServerMain(T, s) ==
  Do("startServer") \o Do("allConnected")
    \o Phases(T, TwoSided, LAMBDA op :
         ReadyThreads(ServerThreadsOf(T, s), op) \o GlobalBarrierServer(T, s, TRUE)
           \o RunThreads(ServerThreadsOf(T, s)) \o EndBarrierServer(T, s, FALSE))
    \o Do("disconnected")

(* Reading begins at once. *)
BandwidthClientMain(T, c) ==
  SetupClient(T, c, BandwidthClientThread)
    \o Phases(T, TwoSided, LAMBDA op :
         ReadyThreads(ThreadsOf(T, c), op) \o If(op # "READ", Do("sleep"))
           \o RunThreads(ThreadsOf(T, c)))

OperationsCountClientMain(T, c) ==
  SetupClient(T, c, OperationsCountClientThread)
    \o Phases(T, TwoSided, LAMBDA op :
         ReadyThreads(ThreadsOf(T, c), op) \o If(op # "READ", Do("sleep"))
           \o RunThreads(ThreadsOf(T, c)))

-----------------------------------------------------------------------------
(* The tests of atomic operations.  The server has no workers: its main    *)
(* thread posts the receives of both barriers.                             *)

AtomicsBandwidthClientThread(T, t) == EachServer(T, t, LAMBDA e : On("connect", e))
AtomicsOperationsCountClientThread(T, t) == EachServer(T, t, LAMBDA e : On("connect", e))
AtomicsLatencyClientThread(T, t) == EachServer(T, t, LAMBDA e : On("connect", e))

AtomicsBandwidthClientRun(T, t) ==
  GlobalBarrierClient(T, t, TRUE) \o Do("wait") \o OneSided(T, t) \o EndBarrierClient(T, t)

AtomicsOperationsCountClientRun(T, t) ==
  GlobalBarrierClient(T, t, TRUE) \o Do("wait") \o OneSided(T, t) \o EndBarrierClient(T, t)

AtomicsLatencyClientRun(T, t) ==
  GlobalBarrierClient(T, t, TRUE) \o Do("wait") \o OneSided(T, t)

AtomicsBandwidthServerMain(T, s) ==
  Do("startServer")
    \o Phases(T, Atomics, LAMBDA op :
         GlobalBarrierServer(T, s, TRUE) \o EndBarrierServer(T, s, TRUE))
    \o Do("allConnected") \o Do("disconnected")

AtomicsOperationsCountServerMain(T, s) == AtomicsBandwidthServerMain(T, s)

AtomicsLatencyServerMain(T, s) ==
  Do("startServer") \o Phases(T, Atomics, LAMBDA op : GlobalBarrierServer(T, s, TRUE))
    \o Do("allConnected") \o Do("disconnected")

AtomicsClientMain(T, c, ClientThread(_, _)) ==
  SetupClient(T, c, ClientThread)
    \o Phases(T, Atomics, LAMBDA op :
         ReadyThreads(ThreadsOf(T, c), op) \o RunThreads(ThreadsOf(T, c)))

AtomicsBandwidthClientMain(T, c) == AtomicsClientMain(T, c, AtomicsBandwidthClientThread)
AtomicsOperationsCountClientMain(T, c) ==
  AtomicsClientMain(T, c, AtomicsOperationsCountClientThread)
AtomicsLatencyClientMain(T, c) == AtomicsClientMain(T, c, AtomicsLatencyClientThread)
=============================================================================
