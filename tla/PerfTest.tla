------------------------------- MODULE PerfTest -------------------------------
(***************************************************************************)
(* How a performance test runs: the main threads of client and server      *)
(* processes, their worker threads, the barriers between them, and the     *)
(* ping-pong of the latency test.                                          *)
(*                                                                         *)
(* Every thread executes its program from PerfPrograms or OldPerfPrograms. *)
(* An instruction that waits stands for the loop that polls.               *)
(*                                                                         *)
(* A message needs a receive that the other side has posted: rnr_retry is  *)
(* 0, so the connection breaks if there is none, and every retry on it     *)
(* fails too.  The model stops at the first such failure.  A datagram that *)
(* finds no receive is lost.  Connecting succeeds (it is in                *)
(* RDMAConnection), and what packets carry is left out, except for the     *)
(* words that the latency test waits for.  The model starts where the main *)
(* program has made the test.                                              *)
(***************************************************************************)
EXTENDS OldPerfPrograms

CONSTANTS
  Clients, Servers,  \* processes
  MaxThreads,        \* worker threads of a client process, at most
  Tests,             \* the tests, one of which runs
  MaxSlots           \* m_buffer_slots, at most

ASSUME CountAssumption ==
  /\ {MaxThreads, MaxSlots} \subseteq Nat \ {0}
  /\ IsFiniteSet(Clients) /\ IsFiniteSet(Servers)

Processes == Clients \cup Servers
Threads == Clients \X (1 .. MaxThreads)
ServerThreads == Servers \X (1 .. MaxThreads * Cardinality(Clients))
Workers == Threads \cup ServerThreads
Connections == Threads \X Servers
LinkEnds == Connections \X {"client", "server"}
Ends == LinkEnds \cup (Threads \X {"signals"}) \cup (ServerThreads \X {"group"})

ASSUME RolesAssumption ==
  /\ Clients \cap Servers = {}
  /\ Processes \cap Workers = {}

Classes ==
  {"Latency", "Bandwidth", "OperationsCount",
   "AtomicsLatency", "AtomicsBandwidth", "AtomicsOperationsCount",
   "Multicast", "MulticastLatency", "RemoteMemory", "FetchAndAdd"}

(* A test as main() plans it, or a user starts it: a client takes part, no *)
(* server is named twice, the automatic write mode has been resolved, and  *)
(* every thread has a part in the budget.                                  *)
Deployed(T) ==
  /\ T.class \in Classes
  /\ T.clients \subseteq Clients /\ T.clients # {}
  /\ T.servers \in Seq(Servers) /\ T.servers # <<>> /\ IsInjective(T.servers)
  /\ T.threads \in 1 .. MaxThreads /\ T.slots \in 1 .. MaxSlots
  /\ T.iterations \in Nat \ {0}
  /\ T.class = "Latency" /\ "WRITE" \in T.operations => T.mode \in {"normal", "immediate"}
  /\ T.class = "Multicast" => T.budget \in Nat /\ T.budget >= T.threads

ASSUME DeploymentAssumption == \A T \in Tests : Deployed(T)

VARIABLES
  test,      \* the test that runs
  operation, \* process -> the static testOperation
  signaled,  \* process -> the static flag of that name
  todo,      \* process or worker -> the instructions it has left
  m_ready,   \* worker -> its flag
  waiting,   \* worker -> its place in waitCv: "no", "asleep", "woken"
  started,   \* servers that can be connected to
  connected, \* server -> client threads that are connected and have
             \* memory there, in order
  gathered,  \* server -> those a receive was posted for in this barrier
  posted,    \* end -> receives posted and not consumed
  completed, \* ... and their completions that are not polled
  localMemory,       \* client thread -> cell -> the word there
  remoteMemory,      \* server thread -> slot of its remote part -> the word
  m_respond_conn_id, \* server thread -> the node it answers
  asked, answered, taken, \* connection -> questions put, answers given and taken
  fault      \* a message that found no receive

threads  == <<operation, signaled, m_ready, waiting>>
links    == <<started, connected, gathered>>
queues   == <<posted, completed>>
memories == <<localMemory, remoteMemory, m_respond_conn_id>>
history  == <<asked, answered, taken>>
vars == <<test, threads, todo, links, queues, memories, history, fault>>

Everybody == Processes \cup Workers
AtServers == Servers \cup ServerThreads
m_rdma_addresses == test.servers

Main(p) ==
  IF p \in test.clients THEN ClientMain(test, p)
  ELSE IF p \in ToSet(m_rdma_addresses) THEN ServerMain(test, p)
  ELSE <<>>

Run(w, op) == IF w \in ServerThreads THEN ServerRun(test, w, op) ELSE ClientRun(test, w, op)

-----------------------------------------------------------------------------
(* The word a client writes into slot i % BufferSlots of a server: twice   *)
(* the cell of its memory where it wants the answer, plus a flip that      *)
(* changes from one round through the slots to the next.                   *)

(* Slip: no flip. *)
NoFlip(i) == 1

flip(i) == 1 + ((i \div test.slots) % 2)
Slot(i) == i % test.slots

(* Slot 0 has the same cell for every connection. *)
receiveOffset(q, i) ==
  LET connIdx == CHOOSE k \in DOMAIN m_rdma_addresses : m_rdma_addresses[k] = q[2]
  IN Slot(i) * connIdx * 2
receiveRootOffsetIdx(q, i) == receiveOffset(q, i) * 2 + flip(i)

(* The server takes any word with the flip of its round, and answers where *)
(* it says.                                                                *)
IsQuestion(word, i) == word > 0 /\ word % 2 = flip(i) % 2
remoteOffset(word, i) == (word - flip(i)) \div 2

Cells == 0 .. 2 * MaxSlots * Cardinality(Servers)
Slots == 0 .. MaxSlots - 1

Init ==
  /\ test \in Tests
  /\ operation = [p \in Processes |-> "none"]
  /\ signaled = [p \in Processes |-> FALSE]
  /\ todo = [w \in Everybody |-> IF w \in Processes THEN Main(w) ELSE <<>>]
  /\ m_ready = [w \in Workers |-> FALSE]
  /\ waiting = [w \in Workers |-> "no"]
  /\ started = {}
  /\ connected = [s \in Servers |-> <<>>]
  /\ gathered = [s \in Servers |-> {}]
  /\ posted = [e \in Ends |-> 0]
  /\ completed = [e \in Ends |-> 0]
  /\ localMemory = [t \in Threads |-> [n \in Cells |-> 0]]
  /\ remoteMemory = [w \in ServerThreads |-> [n \in Slots |-> 0]]
  /\ m_respond_conn_id = [w \in ServerThreads |-> 0]
  /\ asked = [q \in Connections |-> 0]
  /\ answered = [q \in Connections |-> 0]
  /\ taken = [q \in Connections |-> 0]
  /\ fault = FALSE

-----------------------------------------------------------------------------
(* What the instructions do.                                               *)

At(w, name) == todo[w] # <<>> /\ Head(todo[w]).do = name
Step(w) == todo' = [todo EXCEPT ![w] = Tail(@)]

(* A server's worker has the connection to the node it answers. *)
NodeIDs == SetToSeq(Threads)
End(w) ==
  IF "end" \in DOMAIN Head(todo[w]) THEN Head(todo[w]).end
  ELSE <<<<NodeIDs[m_respond_conn_id[w]], w[1]>>, "server">>
Conn(w) == End(w)[1]
Other(w) == <<Conn(w), IF w \in AtServers THEN "client" ELSE "server">>

(* The remote part of a server's memory, in the order of the remoteAllocs: *)
(* which of its threads looks after the memory of a client thread.         *)
PartnerOf(q) == <<q[2], CHOOSE k \in DOMAIN connected[q[2]] : connected[q[2]][k] = q[1]>>

(* setupTest of a server, with the memory of its threads, then startServer. *)
StartServer(s) ==
  /\ At(s, "startServer")
  /\ started' = started \cup {s}
  /\ Step(s)
  /\ UNCHANGED <<test, threads, connected, gathered, queues, memories, history, fault>>

(* A client thread is constructed: connect, remoteAlloc ... *)
Connect(c) ==
  LET q == Conn(c)
  IN /\ At(c, "connect")
     /\ q[2] \in started
     /\ connected' = [connected EXCEPT ![q[2]] = Append(@, q[1])]
     /\ Step(c)
     /\ UNCHANGED <<test, threads, started, gathered, queues, memories, history, fault>>

(* ... and its node id written to the memory it has got. *)
WriteNodeID(c) ==
  LET q == Conn(c)
      id == CHOOSE n \in DOMAIN NodeIDs : NodeIDs[n] = q[1]
  IN /\ At(c, "identify")
     /\ remoteMemory' = [remoteMemory EXCEPT ![PartnerOf(q)][0] = id]
     /\ Step(c)
     /\ UNCHANGED <<test, threads, links, queues, localMemory, m_respond_conn_id,
                    history, fault>>

(* Slip: the flag of the last operation stays set. *)
PrepareSignaled(p) ==
  /\ At(p, "prepare")
  /\ operation' = [operation EXCEPT ![p] = Head(todo[p]).op]
  /\ Step(p)
  /\ UNCHANGED <<test, signaled, m_ready, waiting, links, queues, memories, history, fault>>

(* makeThreadsReady sets the static variables, ... *)
PrepareThreads(p) ==
  /\ At(p, "prepare")
  /\ operation' = [operation EXCEPT ![p] = Head(todo[p]).op]
  /\ signaled' = [signaled EXCEPT ![p] = FALSE]
  /\ Step(p)
  /\ UNCHANGED <<test, m_ready, waiting, links, queues, memories, history, fault>>

(* ... starts the threads, ... *)
LaunchThreads(p) ==
  LET new == Head(todo[p]).workers
      op == Head(todo[p]).op
  IN /\ At(p, "launch")
     /\ todo' = [w \in Everybody |->
          IF w = p THEN Tail(todo[p]) ELSE IF w \in new THEN Run(w, op) ELSE todo[w]]
     /\ UNCHANGED <<test, threads, links, queues, memories, history, fault>>

(* ... and waits for them.  What else a main thread waits for: its threads *)
(* to end, all clients to be connected, and to be gone.  No client ever    *)
(* says that it goes.  A server of the old tests runs until it is killed.  *)
Holds(w) ==
  LET do == Head(todo[w]).do
      server == IF w \in Servers THEN w ELSE w[1]
  IN CASE do = "allReady"     -> \A v \in Head(todo[w]).workers : m_ready[v]
       [] do = "join"         -> \A v \in Head(todo[w]).workers : todo[v] = <<>>
       [] do = "allConnected" -> Len(connected[server]) >= ServerThreadCount(test)
       [] do = "disconnected" -> connected[server] = <<>>
       [] do = "serve"        -> FALSE

Waits == {"allReady", "join", "allConnected", "disconnected", "serve"}

Proceed(w) ==
  /\ todo[w] # <<>> /\ Head(todo[w]).do \in Waits
  /\ Holds(w)
  /\ Step(w)
  /\ UNCHANGED <<test, threads, links, queues, memories, history, fault>>

OwnWorkers(p) == {w \in Workers : w[1] = p}

(* Slip: one thread is woken. *)
NotifyOne(p) ==
  /\ At(p, "notify")
  /\ signaled' = [signaled EXCEPT ![p] = TRUE]
  /\ \E v \in OwnWorkers(p) :
       /\ waiting[v] = "asleep"
       /\ waiting' = [waiting EXCEPT ![v] = "woken"]
  /\ Step(p)
  /\ UNCHANGED <<test, operation, m_ready, links, queues, memories, history, fault>>

(* notify_all and the flag, under the lock the threads test it under. *)
Notify(p) ==
  /\ At(p, "notify")
  /\ signaled' = [signaled EXCEPT ![p] = TRUE]
  /\ waiting' = [w \in Workers |->
       IF w \in OwnWorkers(p) /\ waiting[w] = "asleep" THEN "woken" ELSE waiting[w]]
  /\ Step(p)
  /\ UNCHANGED <<test, operation, m_ready, links, queues, memories, history, fault>>

(* A receive for every connection there is; again as long as there are     *)
(* fewer than expected.                                                    *)
Gather(s) ==
  LET new == ToSet(connected[s]) \ gathered[s]
  IN /\ At(s, "gather")
     /\ posted' = [e \in Ends |->
          IF e \in (new \X {s}) \X {"server"} THEN posted[e] + 1 ELSE posted[e]]
     /\ IF Len(connected[s]) >= ServerThreadCount(test)
        THEN gathered' = [gathered EXCEPT ![s] = {}] /\ Step(s)
        ELSE /\ new # {}
             /\ gathered' = [gathered EXCEPT ![s] = ToSet(connected[s])]
             /\ UNCHANGED todo
     /\ UNCHANGED <<test, threads, started, connected, completed, memories, history, fault>>

(* The local barrier: a thread that does not find the flag set sleeps. *)
Wait(w) ==
  /\ At(w, "wait") /\ waiting[w] = "no"
  /\ ~ signaled[w[1]]
  /\ m_ready' = [m_ready EXCEPT ![w] = TRUE]
  /\ waiting' = [waiting EXCEPT ![w] = "asleep"]
  /\ UNCHANGED <<test, operation, signaled, todo, links, queues, memories, history, fault>>

Go(w) ==
  /\ At(w, "wait")
  /\ waiting[w] = "woken" \/ (waiting[w] = "no" /\ signaled[w[1]])
  /\ m_ready' = [m_ready EXCEPT ![w] = FALSE]
  /\ waiting' = [waiting EXCEPT ![w] = "no"]
  /\ Step(w)
  /\ UNCHANGED <<test, operation, signaled, links, queues, memories, history, fault>>

(* Whom a server thread is to answer: read once, and cleared. *)
ReadNodeID(w) ==
  /\ At(w, "respond")
  /\ IF m_respond_conn_id[w] = 0
     THEN /\ m_respond_conn_id' = [m_respond_conn_id EXCEPT ![w] = remoteMemory[w][0]]
          /\ remoteMemory' = [remoteMemory EXCEPT ![w][0] = 0]
     ELSE UNCHANGED <<m_respond_conn_id, remoteMemory>>
  /\ Step(w)
  /\ UNCHANGED <<test, threads, links, queues, localMemory, history, fault>>

PostReceive(w) ==
  /\ At(w, "post")
  /\ posted' = [posted EXCEPT ![End(w)] = @ + 1]
  /\ Step(w)
  /\ UNCHANGED <<test, threads, links, completed, memories, history, fault>>

(* send and writeImm wait for their completion: the message has arrived. *)
SendMessage(w) ==
  LET q == Conn(w)
      to == Other(w)
  IN /\ At(w, "message")
     /\ IF posted[to] = 0
        THEN /\ fault' = TRUE
             /\ UNCHANGED <<queues, asked, answered>>
        ELSE /\ posted' = [posted EXCEPT ![to] = @ - 1]
             /\ completed' = [completed EXCEPT ![to] = @ + 1]
             /\ asked' = [asked EXCEPT ![q] = IF w \in AtServers THEN @ ELSE @ + 1]
             /\ answered' = [answered EXCEPT ![q] = IF w \in AtServers THEN @ + 1 ELSE @]
             /\ UNCHANGED fault
     /\ Step(w)
     /\ UNCHANGED <<test, threads, links, memories, taken>>

PollReceive(w) ==
  /\ At(w, "poll")
  /\ completed[End(w)] > 0
  /\ completed' = [completed EXCEPT ![End(w)] = @ - 1]
  /\ taken' = [q \in Connections |->
       IF End(w) = <<q, "client">> THEN taken[q] + 1 ELSE taken[q]]
  /\ Step(w)
  /\ UNCHANGED <<test, threads, links, posted, memories, asked, answered, fault>>

(* A datagram, to everybody in a group or to one node: it is lost where no *)
(* receive waits for it.                                                   *)
SendDatagram(w) ==
  LET to == {e \in Head(todo[w]).to : posted[e] > 0}
  IN /\ At(w, "datagram")
     /\ posted' = [e \in Ends |-> IF e \in to THEN posted[e] - 1 ELSE posted[e]]
     /\ completed' = [e \in Ends |-> IF e \in to THEN completed[e] + 1 ELSE completed[e]]
     /\ Step(w)
     /\ UNCHANGED <<test, threads, links, memories, history, fault>>

(* A one-sided operation involves nobody else. *)
AccessRemote(w) ==
  /\ At(w, "access")
  /\ Step(w)
  /\ UNCHANGED <<test, threads, links, queues, memories, history, fault>>

-----------------------------------------------------------------------------
(* The normal write mode of the latency test.                              *)

(* setMemory(0) at the begin of a round through the slots. *)
ResetMemory(t) ==
  /\ At(t, "reset")
  /\ localMemory' = [localMemory EXCEPT ![t] = [n \in Cells |-> 0]]
  /\ Step(t)
  /\ UNCHANGED <<test, threads, links, queues, remoteMemory, m_respond_conn_id,
                 history, fault>>

WriteQuestion(t) ==
  LET q == Conn(t)
      i == Head(todo[t]).i
  IN /\ At(t, "write")
     /\ remoteMemory' = [remoteMemory EXCEPT
          ![PartnerOf(q)][Slot(i)] = receiveRootOffsetIdx(q, i)]
     /\ asked' = [asked EXCEPT ![q] = @ + 1]
     /\ Step(t)
     /\ UNCHANGED <<test, threads, links, queues, localMemory, m_respond_conn_id,
                    answered, taken, fault>>

WatchAnswer(t) ==
  LET q == Conn(t)
      i == Head(todo[t]).i
  IN /\ At(t, "watch")
     /\ localMemory[t][receiveOffset(q, i)] = receiveRootOffsetIdx(q, i)
     /\ taken' = [taken EXCEPT ![q] = @ + 1]
     /\ Step(t)
     /\ UNCHANGED <<test, threads, links, queues, memories, asked, answered, fault>>

AwaitQuestion(w) ==
  LET i == Head(todo[w]).i
  IN /\ At(w, "await")
     /\ IsQuestion(remoteMemory[w][Slot(i)], i)
     /\ Step(w)
     /\ UNCHANGED <<test, threads, links, queues, memories, history, fault>>

(* The slot is written back as it is, to where it said. *)
ReturnAnswer(w) ==
  LET i == Head(todo[w]).i
      word == remoteMemory[w][Slot(i)]
  IN /\ At(w, "return")
     /\ localMemory' = [localMemory EXCEPT ![Conn(w)[1]][remoteOffset(word, i)] = word]
     /\ answered' = [answered EXCEPT ![Conn(w)] = @ + 1]
     /\ Step(w)
     /\ UNCHANGED <<test, threads, links, queues, remoteMemory, m_respond_conn_id,
                    asked, taken, fault>>

-----------------------------------------------------------------------------
WorkerOnly(w) ==
  \/ Wait(w) \/ Go(w) \/ ReadNodeID(w) \/ AccessRemote(w) \/ SendDatagram(w)
  \/ ResetMemory(w) \/ WriteQuestion(w) \/ WatchAnswer(w)
  \/ AwaitQuestion(w) \/ ReturnAnswer(w)

MainOnly(p) ==
  \/ StartServer(p) \/ Connect(p) \/ WriteNodeID(p)
  \/ PrepareThreads(p) \/ LaunchThreads(p) \/ Gather(p) \/ Notify(p)

Exchange(w) == PostReceive(w) \/ SendMessage(w) \/ PollReceive(w)

(* Someone who has to wait for somebody else. *)
Blocked(w) ==
  todo[w] # <<>> =>
    \/ Head(todo[w]).do \in Waits /\ ~ Holds(w)
    \/ At(w, "poll") /\ completed[End(w)] = 0
    \/ At(w, "gather") /\ Len(connected[w]) < ServerThreadCount(test)
                         /\ gathered[w] = ToSet(connected[w])
    \/ At(w, "wait") /\ waiting[w] = "asleep"
    \/ At(w, "await") /\
         ~ IsQuestion(remoteMemory[w][Slot(Head(todo[w]).i)], Head(todo[w]).i)

(* Timing: PERFORMANCE_TEST_SERVER_TIME_ADVANTAGE is longer than all that  *)
(* the servers can do until they have to wait for the clients; so is the   *)
(* time a user takes.                                                      *)
Sleep(w) ==
  /\ todo[w] # <<>> /\ Head(todo[w]).do \in {"sleep", "user"}
  /\ \A v \in AtServers : Blocked(v)
  /\ Step(w)
  /\ UNCHANGED <<test, threads, links, queues, memories, history, fault>>

WorkerStep(w) == WorkerOnly(w) \/ Exchange(w) \/ Proceed(w) \/ Sleep(w)
ProcessStep(p) == MainOnly(p) \/ Exchange(p) \/ Proceed(p) \/ Sleep(p)

Finished ==
  /\ \A w \in Clients \cup Workers : todo[w] = <<>>
  /\ \A s \in Servers : todo[s] = <<>> \/ At(s, "disconnected") \/ At(s, "serve")

Next ==
  /\ ~ fault
  /\ \/ \E w \in Workers : WorkerStep(w)
     \/ \E p \in Processes : ProcessStep(p)

Fairness ==
  /\ \A w \in Workers : WF_vars(~ fault /\ WorkerStep(w))
  /\ \A p \in Processes : WF_vars(~ fault /\ ProcessStep(p))

Spec == Init /\ [][Next]_vars /\ Fairness

-----------------------------------------------------------------------------
TypeOK ==
  /\ test \in Tests
  /\ operation \in [Processes -> {"none"} \cup ToSet(TwoSided \o Atomics)]
  /\ signaled \in [Processes -> BOOLEAN]
  /\ DOMAIN todo = Everybody
  /\ m_ready \in [Workers -> BOOLEAN]
  /\ waiting \in [Workers -> {"no", "asleep", "woken"}]
  /\ started \subseteq Servers
  /\ \A s \in Servers : /\ connected[s] \in Seq(Threads)
                        /\ IsInjective(connected[s])
                        /\ gathered[s] \subseteq ToSet(connected[s])
  /\ posted \in [Ends -> Nat] /\ completed \in [Ends -> Nat]
  /\ localMemory \in [Threads -> [Cells -> Nat]]
  /\ remoteMemory \in [ServerThreads -> [Slots -> Nat]]
  /\ m_respond_conn_id \in [ServerThreads -> {0} \cup DOMAIN NodeIDs]
  /\ {asked, answered, taken} \subseteq [Connections -> Nat]
  /\ fault \in BOOLEAN

(* A worker that is past the local barrier. *)
Working(w) == todo[w] # <<>> /\ \A k \in DOMAIN todo[w] : todo[w][k].do # "wait"

(* The clock is right: nobody works before the main thread of its process  *)
(* has started it, that is, has woken the threads, or after it has seen    *)
(* them end.                                                               *)
StartedTogether == \A w \in Workers : Working(w) => At(w[1], "join")

(* In the normal mode of the latency test, a server named after another:   *)
(* its answer at slot 0 is expected in the cell of the first server's, and *)
(* is the same word (LatencyPerfTest.cc:98-102).                           *)
SharesCell(q) ==
  /\ test.class = "Latency" /\ test.mode = "normal" /\ "WRITE" \in test.operations
  /\ q[2] # Head(m_rdma_addresses)

(* Every answer is the answer to its question: a server answers a question *)
(* once, and a client goes on when the server it asked has answered, not   *)
(* because of an answer it has seen before or of another server's.  Where  *)
(* it shares the first server's cell it may take that one's answer for its *)
(* own, and then it is ahead of the server by that one question.           *)
AnswersInTurn ==
  \A q \in Connections : /\ taken[q] <= answered[q] + (IF SharesCell(q) THEN 1 ELSE 0)
                          /\ answered[q] <= asked[q]
                          /\ asked[q] <= taken[q] + 1

(* Whoever works, at either end, works on the same operation, ...          *)
SameOperation ==
  \A v, w \in Workers : Working(v) /\ Working(w) => operation[v[1]] = operation[w[1]]

(* ... and every message finds a receive, those of the barriers and of the *)
(* tests, whatever receives an operation has left over.                    *)
MessagesExpected == ~ fault

(* So client and server processes stay in step: neither is an operation    *)
(* ahead of the other, nor sends what the other does not expect yet.       *)
EndsInStep == TypeOK /\ SameOperation /\ MessagesExpected

(* All operations of the test run to their end. *)
TestRuns == <>Finished
=============================================================================
