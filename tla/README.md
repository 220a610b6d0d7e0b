# Verification project for rdma-manager

rdma-manager is a C++ library for RDMA over InfiniBand: nodes register with a sequencer, connect queue
pairs to each other, allocate memory on remote nodes, read, write and send over the queue pairs, and call
remote procedures; a suite of performance tests comes with it. This directory models the parts that have
control flow of their own in TLA+, checks them with TLC on small instances and proves the most important
results with TLAPS for all instances. `src/...` below is the root of the repository.

## 1. The system

| Part (source) | State | Operations | Talks to |
|---|---|---|---|
| Buffer allocator (`src/memory/BaseMemory.*`) | `m_rdmaMem`, the list of free and used regions in address order; `m_usedRdmaMem`, offset -> record | `alloc`/`internalAlloc` (first fit), `free`, `mergeFreeMem`, all under `m_lockMem` | called by the application (`localAlloc`/`localFree`) and by the server thread (`requestMemoryResource`/`releaseMemoryResource`) for remote nodes |
| Node id sequencer (`src/rdma/NodeIDSequencer.*`) | `m_entries`, `m_ipPortToNodeIDMapping`, `m_nextNodeID` | one `handle` for three kinds of request | request/reply with every node |
| Connecting, client side (`src/rdma/RDMAClient.h`) | `m_connections`, `m_NodeIDsQPs`, `m_ownNodeID`, the sockets of `ProtoClient` | `connect`, `requestNodeID`, `remoteAlloc`/`remoteFree` | sequencer, server thread of the peer, own server thread through `m_connLock` |
| Connecting, server side (`src/rdma/RDMAServer.h`) | as `RDMAClient`, which it derives from | `startServer`, `handle` -> `connectQueue`, `requestMemoryResource`, `releaseMemoryResource`, SRQ activation | clients, own application thread |
| Queue pairs and operations (`src/rdma/BaseRDMA.*`, `ReliableRDMA.*`) | `m_qps`, `m_rconns`, `m_connected`, `m_qpNum2connID`, `m_srqs`, `m_countWR` | `initQP*`, `connectQP`, `disconnectQP`, `write`, `read`, `requestRead`, `send`, `receive*`, atomics, polls, destructor | the network card |
| Datagrams and multicast (`src/rdma/UnreliableRDMA.*`) | one UD queue pair, address handles, `m_udpMcastConns`, `m_sendMCastCount` | as above, and `joinMCastGroup`, `leaveMCastGroup`, `sendMCast` | the network card, the subnet manager |
| Server life cycle (`src/proto/*`, `src/thread/Thread.*`) | `m_running`, `m_kill`, the ZeroMQ socket and context, `m_thread` | `startServer`, `run`, `stopServer`, destructor | the application's thread and the server's |
| Remote procedure calls (`src/RPC/*`) | message buffers, a shared receive queue, `m_processing`, `m_kill`, `m_poll` | `startHandler`, `stopHandler`, `run`, `handleRDMARPC` | clients through the card, the thread that stops it |
| Performance tests (`perftest/*`, `perftest_old/*`) | windows and credits, `testOperation`, `signaled`, `m_ready` and `waitCv` of the threads, receives left over between operations, cells polled for words | `main`, `setupTest`, `runTest`, `run` of all threads, both global barriers, `getTestResults` | threads of a process through condition variables, the other end through the card |
| Memory back ends and stubs, messages, configuration and logging, `zmq.hpp` | - | wrappers, record types, constants | - |

What makes the system hard: two servers that connect to each other run `connect` on one thread and
`connectQueue` on another, at both ends, over shared vectors that are locked only in part; a verbs call may
throw in between; the card completes work asynchronously, and one unclaimed completion shifts all later
ones; a sender must know when the receiver has posted a receive, since the connection breaks otherwise
(`rnr_retry` is 0); a queue pair's number comes back after it was destroyed, and several queue pairs share
a completion queue; a server is stopped by closing a socket another thread is using; and the allocator's
free list is searched and merged by arithmetic on running sums. PROJECT.json lists each hazard at its line.

## 2. Modules

| Module | What it models | Built on |
|---|---|---|
| `BaseMemory` | the allocator; `held` is the history of what callers were given and have not given back | - |
| `MemoryRegions` | what an allocator promises: bytes of a buffer that nobody else has, and no failure when there is a fitting hole | - |
| `MCBaseMemory` | `BaseMemory` with the refinement mapping to `MemoryRegions` | both |
| `BaseMemory_proofs` | lemmas about the list, theorems about the allocator | `BaseMemory`, `MemoryRegions` |
| `NodeIDSequencer` | state and handlers of the sequencer, as operators the nodes' steps use | - |
| `RDMAConnection` | ids, connect and connectQueue of any set of servers and clients, with their server threads | `NodeIDSequencer` |
| `MCRDMAConnection`, `RDMAConnection_proofs` | small deployments; theorems about ids, links and what `connect` returns | `RDMAConnection` |
| `Endpoints` | the life of the connections of `ReliableRDMA` and `UnreliableRDMA` objects: queue pairs, shared receive queues, address handles, receives, destruction | - |
| `MCEndpoints`, `Endpoints_proofs` | a small deployment; theorems about every deployment | `Endpoints` |
| `SendQueue` | the send side of one reliable connection | - |
| `Multicast`, `Multicast_proofs` | the multicast half of `UnreliableRDMA`, and theorems about it | `SendQueue` (the send side of each group implements it) |
| `ProtoServer` | the life of a server and its thread | - |
| `Waiting_proofs` | theorems about the two, both small: that a wait ends with what it waits for | `SendQueue`, `ProtoServer` |
| `RPCHandler`, `RPCHandler_proofs` | the RPC handler thread, the shared receive queue, the clients and the card, and theorems about them | - |
| `BandwidthPerfTest`, `BandwidthPerfTest_proofs` | the windows and credits of the bandwidth and operations-count tests, with their barriers, and theorems about them | - |
| `PerfPrograms`, `OldPerfPrograms` | what every thread of every class of test does, as sequences of instructions | - |
| `PerfTest`, `PerfTest_proofs` | the threads, condition variables, processes and cards that execute these programs, and theorems about every deployment of a test | `OldPerfPrograms` |
| `MainPerfTest` | the tests `main()` makes of its flags | - |
| `PerfResults` | what each test makes of the measured times | - |
| `MCPerfTest` | small deployments, planned by `MainPerfTest` from flags | the four above |

How they correspond to the code:

* **BaseMemory.** One action per call, since each runs under `m_lockMem`. `Alloc` is first fit with the split of
  the region (`CutFront`); `free` keeps the code's scan as it is: the list is walked while a running sum of
  *free* sizes is compared with the offset (`StopsAt`, `InsertionPoints`), then merged with both neighbours
  (`mergeFreeMem`). `FreeUnknown` frees an offset that nothing is recorded for, which the code does not
  refuse: `operator[]` inserts a record of nulls and links it in; `MaxNulls` bounds how often. The history `stale` says that
  it has happened: from then on an allocation may fail that would have fitted, and null regions stand between
  others, so `RegionsSpec` and `FreeListCoalesced` speak of the time before.
* **NodeIDSequencer and RDMAConnection.** A node is at one place of `connect` (`app`), a server thread serves
  at most one request (`serving`), and the steps are the stretches between a lock, an exchange and a race:
  lookup, mark (under `m_connLock`) with sending the request, the two halves of `connectQueue`, installing
  the answer. `setQP` includes the lost update of two unsynchronised `resize`s. `failures` counts calls
  that throw, from the lookup on: the lookup's exchange; `initQP`, also after `ibv_create_qp` has made the queue pair, which
  then nobody lists; the exchange with the server, before the server has acted on the request or after; `connectQP` at either
  of its two transitions; and destroying the queue pair when the server refused. `lost` is the history of the queue pairs such calls
  leave behind. Not in the model: a failing exchange in `requestNodeID`, and the completion queues of an `initQP` that failed before
  it had a queue pair (`Endpoints` counts these).
  A queue pair is known by owner, peer and the
  function that made it. A server thread is not interrupted between receiving a request and locking
  `m_connLock`; `LockFree` keeps `connect` out of `connectQueue`.
* **Endpoints.** One action per call of an object, and the card's part of it. `kind` says whether the objects are
  reliable (a queue pair per id) or not (one queue pair `udqp`, an address handle per id). The early returns of the two
  `connectQP`s are kept as they are, inverted test included; so is that `disconnectQP` leaves the id in `m_connected`.
  `destroyCQ` leaves a queue that others use (EBUSY), and a destroyed queue pair takes its completions with it (`Remaining`).
  `FreeNumbers` lets the card give the number of a destroyed queue pair out again. Calls may fail: `InitFails` leaves a queue pair
  that no vector has (a stray, in state RESET, since `modifyQPToInit` threw), or only completion queues (`lost`);
  `ConnectFails` leaves a queue pair at INIT, or at RTR, from where the card does not take it again; `DestroyThrows` is a destructor that
  cannot destroy a shared receive queue which a stray still uses. `disconnectQP` destroys the completion queue of a shared receive
  queue with its last queue pair, and nothing keeps later calls from using it: `status` then is "undefined", and the model stops.
  `pollReceiveSRQ` may return a completion without writing the id, when `doPoll` is cleared before it looks again: `reported` is the
  caller's variable with what was written into it last. Assumed of the caller, because RDMAServer and RDMAClient do so: an id stands for one object
  (`Partner`), `initQP` is called for an id without a queue pair, `connectQP` comes right after `setRemoteConnData`. Not modelled:
  failing constructors, a failing `ibv_create_ah`, whose result the code does not look at (`UnreliableRDMA.cc:172`), and the
  failing calls of a destructor, which end the program.
* **SendQueue.** `m_countWR` decides which requests ask for a completion (`checkSignaled`);
  `remoteAccess` posts and polls; the card executes in order. The occupied slots of the send queue are freed
  by a completion of a later request, as the verbs specification has it.
* **Multicast.** Joining takes a key, then sets up the queue pair, then records the connection; `JoinFails` is an
  exception anywhere in between, before or after the subnet manager made the queue pair a member. `members` is
  the subnet manager's view. Leaving, the destructor (which may throw, `DestroyFails`), sending, receiving and polling are
  one action per call, and sending waits in a second one (`Completed`). Each group's counter and queue map to
  `SendQueue` with no reads and no failures.
* **ProtoServer.** The application's thread and the server thread step by step: the busy wait of `startServer`,
  `stop` then `closeContext` then `join`, the receive that ends with ETERM, the destructor.
* **RPCHandler.** The card takes the oldest buffer posted, completions of different senders may overtake each other,
  the handler answers before it posts the buffer again. This is `RPCVoidHandlerThread`, with answers that are signaled, as the
  tests send them; the unsignaled ones of `RPCPerf.h:101` are not modelled.
* **BandwidthPerfTest.** A client thread goes round its connections (`BeginRound`, `Send`, `EndSending`, `PollAck`,
  `EndRound`) with the code's copies of the counters; a server thread posts, polls, posts again and acknowledges;
  the main thread of a server holds the barriers. A receive queue has `RDMA_MAX_WR` places, and a message
  that finds no receive breaks the connection. The first failure (`fault`) ends the run, as the exception ends the
  process. Two sleeps are guards, `Slept` and `Start`: that they are long enough is assumed.
* **PerfPrograms, OldPerfPrograms, PerfTest.** A thread's program is the unrolled loop nest of the code: its
  instructions are the library's calls, the waits on `waitCv`, the assignments to the static members, the
  sleeps. There is one operator per function that contributes instructions. `PerfTest` executes the first instruction of
  any worker or main thread that can go on. `m_ready`, `waiting` and the locks of the condition variable are as in the
  code; receives and completions are counted per queue; the cells that the latency test polls for words in are
  memory. Windows are of one message, since `BandwidthPerfTest` has the wider ones. A sleep ends when what it waits for
  is the case (`Sleep`): that the code's sleeps are long enough is assumed, and where a test has no sleep, the
  two processes really are unsynchronised. The model starts after `main()` has made the test; the old multicast
  clients, which a person starts when the server is up, are started then. A failure ends the run (`fault`).
* **MainPerfTest, PerfResults.** Functions of the flags and of the times. Rates and means are fractions, a time is a number.

## 3. Runs

| Run | Question | Bounds |
|---|---|---|
| `memory` | five concurrent callers, all orders of alloc and free, and of freeing offsets that nothing is recorded for: blocks disjoint, no byte lost, the list sorted, a held block can be freed; until the first such free the list implements `MemoryRegions`, and free space is always merged | a buffer of 8, sizes 1-3: enough for three holes at once, a merge on either side and on both, and an exact fit; two frees of what is not in use |
| `connect` | two servers connect to each other, twice each; or a client connects to both of two servers, one of which connects to the other: ids identify nodes, one link comes out and both ends use it, no other queue pair is left but what a failed call lost, the link stays, every call returns | one retry; one failing call, an exchange or a verbs call |
| `connect_retry` | *violation:* connect returns true after a connect that failed | one client, two calls, no failing call: the server is not found |
| `endpoints` | a server with a shared receive queue and two clients, reliable or not, make, connect, disconnect and destroy, and exchange messages, and a call may fail: connected ids are usable, an id that is written with a message is its sender's, a queue pair has its completion queue until the code uses a shared one that is gone, destruction leaves nothing but what failed calls kept from the vectors | three numbers and four initialisations, failed ones included, so that numbers come back; one failing call; two address handles; one receive at a time |
| `endpoints_shared_again` | *violation:* a queue pair is made on a completion queue that is gone | the same objects, three initialisations, no failing call |
| `send_queue` | all mixes of operations, every `requestRead` polled for: the queue never overflows, waits end with their own completion | a queue of 3, nine posts: the counter wraps several times |
| `multicast` | joins, leaves, sends, receives and a destruction in any order: keys name their groups, membership is recorded, every group's sends implement `SendQueue` | one node, which hears its own groups; two groups, three joins, queues of 2, three posts, one failure. Nodes only meet in who hears a message |
| `server` | a server is started twice, used, stopped, destroyed, with a taken port and garbled messages | two requests, two starts |
| `server_stop_busy` | *violation:* `stopServer` hangs when the thread handles a request | one request, one start |
| `rpc_calls` | clients, handler and the thread that stops it: buffers accounted for, nobody gets another's message or answer, calls are answered | two clients, two buffers, two calls each, two starts |
| `perf_window` | clients and server exchange messages under the window: credits are conserved, every message and acknowledgement finds a receive, clients end together, all end | two clients, one server, queues of 5 (packs of 2), seven messages: the window closes and reopens, and the last pack is not full |
| `perf_tests` | every class of test in the deployments `main()` plans: threads work only between being started and being seen to end, answers belong to questions, both ends are on the same operation and every message finds its receive, all operations run to their end; and three assumptions: client and server plan the same tests, results lie between the extremes | two threads of a client; or two servers, for every class, the latency test in both of its write modes; or two clients; two slots, loops of two to five, so that slots are used again |

What the bounds leave out: a third server (the tie-break is pairwise), longer histories of the allocator than the
callers produce (the proofs have no such bound), more than two RPC clients, and more than one shared receive queue.

Deadlock checking is off where a bounded system may stop: applications make a bounded number of calls and
nothing obliges them to go on.

**Fairness.** A thread inside a library call or a server loop runs on, and the card executes what it was given: weak
fairness of those steps. Applications are never obliged to call. `connect` also assumes that
servers are started and, as `README.md:37` asks ("first start the server and afterwards the client"), that a server that
connects has been started (`StartFirst`). `perf_window` and `perf_tests` let every thread and the network run on, in one
run that nobody interrupts. No run needs strong fairness: a thread that waits for a lock, a flag or a completion only
waits for what stays once it is there.

**Exceptions the properties make, and why.** `QueuePairsMatch` and `BothEndsConnect` except a server that connects while it
serves another node (`MayRace`): `setQP` may lose its entry (section 4). `ControlReturns` of `server` excepts a thread that
starts and ends within one poll interval of `startServer`, and a stop that does not find the thread waiting is
the violation. `QueuePairsMatch` and `NothingLeaks` except the queue pairs that failed calls left behind, at most one for
each (`lost`, `Strays`). `CompletionQueuesStay` holds until the code makes a queue pair on a shared completion queue that is gone, or polls
it, which is the violation. `AnswersInTurn` lets the wait for a later server of a latency test in normal mode be
one answer ahead (`SharesCell`; section 4). In `TestRuns` a server has finished when it waits for its clients to disconnect, or for more datagrams.

## 4. What the violations show

Each is the smallest instance of a disagreement between the code and what the repository says of it; PROJECT.json
quotes the line.

* `connect_retry`: after a lookup that gave up, the next `connect` finds the socket and returns true with id 0.
* `server_stop_busy`: the thread leaves its loop without closing the socket `closeContext` waits for.
* `endpoints_shared_again`: disconnecting the last queue pair of a shared receive queue destroys the completion queue the two share
  (`ReliableRDMA.cc:134`), because at that moment no queue pair uses it. The shared receive queue stays, and the next
  queue pair is made on the completion queue that is gone (`ReliableRDMA.cc:970`). A poll of the shared queue reads it too.

Met while modelling, without a run of their own. In the library:

* `free` of an offset that is not in use links a null record into the list and returns normally (`BaseMemory.cc:273`). A
  request of 0 bytes shares its offset with the next block, and freeing it frees that block's record
  (`BaseMemory.cc:211`; with `0 \in Sizes` `BlocksDisjoint` fails).
* `connect` updates the vectors of queue pairs without `m_connLock` (`RDMAClient.h:328`) while `connectQueue` does the same
  under it: an entry may be lost. The loser of the tie-break, and a client whose server failed, are told `true` before
  (or without) a usable link, since every `ErrorMessage` counts as "other server already connected" (`RDMAClient.h:333`).
* `ReliableRDMA::connectQP` does nothing for an id that was disconnected (`ReliableRDMA.cc:116`): its new queue pair stays
  in INIT, while the response says success. `UnreliableRDMA::connectQP` returns for ids that were disconnected and goes on for
  connected ones (`UnreliableRDMA.cc:160`), whose old address handle is lost; the destructor destroys none.
* When `modifyQPToInit` throws, the queue pair that `ibv_create_qp` has made is in nobody's vector (`ReliableRDMA.cc:68`): it stays, with
  its completion queues, until the process ends. One made for a shared receive queue keeps that from being destroyed, and the
  destructor throws.
* A `pollReceive` of a shared queue whose `doPoll` is cleared after it took a completion returns true and does not write the id
  (`ReliableRDMA.cc:762`). The handler of `RPCVoidHandlerThread` takes the overload that always does; the old one
  hands its handler an id that was never set (`RPCVoidHandlerThread.h:167`).
* Polls do not look at which request completed, so a signaled operation after a
  `requestRead` that nobody polled for returns early (`ReliableRDMA.h:327`). Polls that should return at once, such as
  `pollReceiveBatch`, throw when there is nothing, and the datagram `pollReceive` writes `*imm` when there was none.
* `startServer` waits for ever when the thread starts and ends within one poll interval (`ProtoServer.cc:33`);
  `m_kill` is never reset, so a second start ends at once (`Thread.cc:44`).
* The old RPC handler matches completions with buffers by order (`RPCVoidHandlerThread.h:170`).

In the performance tests:

* The loop of a sending client tests a copy of a counter that it does not update (`BandwidthPerfTest.cc:129`, also `:187`), so a round
  that begins at the start of a pack posts a receive for every message, and one for the pack is needed. Those left over stay: a
  queue of 4096 overflows after `4096 + 2048 * 2048 + 2` messages on a connection, about 4.2 million. The default is 500 000.
  (`perf_window` with a queue of 4 and ten messages shows it.)
* The operations-count test of WRITE with several clients holds an end barrier for which no receive is left, and the end
  barriers of READ and the atomics race with the servers; a latency test with several clients and more than one operation has
  no end barrier at all. `perf_tests` therefore asks two clients for one operation of a latency or bandwidth test. A barrier
  message that failed is sent again and again on the queue pair the failure has broken (`PerfTest.h:77`).
* In the latency test's normal mode, slot 0 has one cell and one word for all servers (`LatencyPerfTest.cc:98`): the wait for a later
  server's answer ends on the first one's, and its time is not measured. With two slots the next question goes to another cell and the test runs on;
  with one, the client may overwrite a question before the server has read it, and both wait for ever. The sums of its times
  start from uninitialised memory (`LatencyPerfTest.cc:33`). On the console the median rate is that of the shortest time.
  The columns of the atomics count's file are not those of its heading (`AtomicsOperationsCountPerfTest.cc:297`, `:309`).
* Servers wait for their clients to disconnect (`MainPerfTest.cc:187`), but the disconnecting in `~RDMAClient` is commented out
  (`RDMAClient.h:94`). An empty name of a write mode makes `main()` loop for ever (`MainPerfTest.cc:361`).
* `waitCv.wait` has no predicate (`BandwidthPerfTest.cc:86`): a thread that wakes up spuriously starts without the others.
* The old multicast server starts in its constructor, before it has posted receives; all of `perftest_old/` is commented out
  of the build.

## 5. What is proved

All results hold for every value of the constants that satisfies the named assumptions.

* **BaseMemory** (buffer of any size, any set of sizes; `RealSizes`: 0 is not one of them).
  `IInv` says that the list is sorted with gaps exactly where blocks are held (the list and `held` are related by
  disjointness and coverage), that every held block has its record, and that null records sit where
  they do no harm. It is needed because the scan of `free` uses a sum of free sizes, which says where to insert
  only when the list is sorted and disjoint; the lemmas about lists say what insertion and merging
  preserve. From `IInv`: `TypeCorrect`, `OneOwner` (`BlocksDisjoint`), `Conservation` (`NoByteLost`), `SortedList`
  (`FreeListOrdered`), `HeldBlocksCanBeFreed` (`FreeingHeldSucceeds`), and, until an offset that is not in use is freed
  (`stale`), `Coalesced` and `ImplementsRegions`: every step of the list maps to a step of `MemoryRegions`.
* **Endpoints** (any objects, ids, numbers and bounds; `EndpointAssumption`: there is a number for each object, and a shared
  queue's name is no number). The invariant relates the objects' vectors to the card from both sides: the card has exactly the
  queue pairs recorded by live objects, each for one id (`PairsRecorded`, `RecordsPaired`), and strays, which with the queues left alone are no more than calls
  failed (`StraysCounted`); it has the completion queues that these or an unused shared receive queue need and no others,
  until a shared one is used that is gone (`QueuesUsed`, `SharedQueuesUsed`); an id counts as connected exactly when its
  queue pair was brought up all the way (`ReliableConnected`), or has an address
  handle of its own that leads to its partner (`DatagramsConnected`). Each half alone is not inductive: that destroying one queue pair
  spares the others needs that no two ids share a number, and that a shared completion queue is there needs the exact set of its
  users. From it `TypeCorrect`, `ConnectedStaysUsable`, `CompletionQueuesAlwaysStay`, `NothingEverLeaks`.
  A second invariant, `Attribution`, is about both ends of a reliable connection: `m_qpNum2connID` leads from a number back to
  the id that has it (`Named`); queue pairs that are connected to each other belong to partners, although numbers come back
  (`Mutual`); and every completion that was not polled came from the partner of its queue pair, or is the failure of an
  operation of its own (`Arrived`); and what a caller's variable holds was right when it was written (`ReportsRight`). A number that is given out again is harmless because destroying a queue pair removes its
  completions and no live queue pair stays connected to it by name. From it `MessagesAlwaysAttributed`
  (`MessagesAttributed`): the id a poll writes is that of the object whose message it took. It says nothing of a poll that writes none.
* **SendQueue** (any `RDMA_MAX_WR`; `PollsReads`: nobody leaves a completion behind). The invariant: at most one
  completion is due, that of the last request, and the occupied slots are bounded by the counter. From it
  `SendQueueSuffices` (no post finds the queue full) and `WaitsForItsOwn`.
* **ProtoServer.** `SocketOutlivesThread`: until a thread has been started twice, the server thread only uses an open
  socket; the invariant ties `m_running`, the thread's place and the socket together. `ThreadIsJoined`: a server that
  was stopped has joined its thread, however often it was started.
* **RDMAConnection** (any nodes, any programs, any bounds). `IDsAlwaysIdentify` (`IDsIdentify`): the sequencer's
  counter, entries and the ids of the nodes stay in step under every interleaving and failure.
  `QueuePairsAlwaysMatch` (`QueuePairsMatch`), `ClientsEndLinked` (`ClientIsLinked`) and `LinksAlwaysStay` (`LinksStay`) assume
  that no node dials its own address (`NoSelfDials`): its `connect` and its `connectQueue` would each put a queue pair in the
  slot of its own id, and only one of them stays. `ConnectInv` follows a connection through both ends: what the client marked
  and sent, what the server set up for it, what the answer says, and what `m_qps` holds under the other's id; what a failing call lost is one
  queue pair at most, so `QueuePairsMatch` bounds all that is left over by `failures`, exchanges that throw included. The argument: of
  two nodes that dial each other only the one with the smaller id serves the other's request (`NotBoth`), so no slot that is
  in use is written again, and the unsynchronised `resize` can lose an entry only where `MayRace` says. That a link stays
  then needs no more than that no step but a failing one takes a queue pair out of its slot, and that only of its own call.
* **RPCHandler** (any clients, buffers, calls and starts). `IInv` follows a buffer through the places it can be in (posted,
  written by the card, completed, in the handler's hand), each buffer in one place and there once (`Apart`), and a
  message from its client to the answer: each completion is of a client that waits for it, one per client (`Polled`), and the
  handler holds the message of the client it answers (`InWork`). From it `BuffersAlwaysAccounted` (`BuffersAccounted`) and
  `MessagesAlwaysMatch` (`MessagesMatch`). `BreaksOnlyBeforeRepost` (`BreaksBeforeRepost`) assumes as many buffers as
  clients: when a client's message finds no receive, all buffers are held, each for another client, unless the handler
  has answered a client and not yet posted its buffer again; so by counting, the latter is the case.
* **Multicast** (any nodes and groups, any number of joins and failures). `KeysStay` (`KeysNameGroups`) and
  `MembershipKept` (`MembershipRecorded`). The invariant adds that the next key is beyond the vector, so that a new
  connection overwrites none, and that a member's group is that of its connection, so that leaving removes it.
  `ImplementsSendQueue` (`SendsImplementSendQueue`) is the refinement: every step of a node is a step of the `SendQueue`
  of one group and a stutter of all the others (`QueuesInv`: every connection has a counter, joining adds
  counters and changes none, and the bound on posts bounds each queue). With `SendQueueSuffices` and `WaitsForItsOwn` a multicast
  post finds room in its queue, and a wait ends with the completion it waits for.

* **BandwidthPerfTest** (any clients, servers, window and number of messages). A connection is in one of three phases. Before the
  loop (`NotBegun`) only the first barrier's message, answer and receives exist. Under way, the client's window, the
  server's `totalBudget` and `budgetR`, and the queues add up: what was sent was received or is under way
  (`CreditsConserved` is one of these sums), a receive is posted or in use for every message the server has yet to see, and the
  server acknowledges a part of a pack only when nothing is left. In the end (`Ended`) all is zero but for the second
  barrier. No sum is inductive alone: that `EndSending` adds to the window and not beyond it needs the server's count, and that the
  server's last acknowledgement leaves no credit needs the client's. A step is shown to
  disturb one connection only (`OneConnection`) and to leave it in its phase or take it to the next. From this
  `CountsAgree`: `CreditsAlwaysConserved` (`CreditsConserved`), `MessagesAlwaysReceived` (`MessagesAreReceived`)
  and `AllEndTogether` (`EndTogether`). They also hold of long runs, where the client's receive queue overflows.
  `ReceivesAlwaysPosted` (`ReceivesArePosted`) is about the others: it assumes `RunIsShort`, at most
  `RDMA_MAX_WR + ackMsgPacking * (ackMsgPacking - 1)` messages, which the default run of 500 000 with a queue of 4096 is. Its
  invariant (`Rounds`) follows the place in the pack at which the rounds of a client begin: the first round posts a receive
  with every message; each later one sends a pack or more and moves the place by one, so none begins at the first place, and
  none posts a receive, before all is sent. That the receives of the first round are enough is the inequality `EnoughLeft`: each
  stands for a full pack of what is not acknowledged or not sent, and only the last acknowledgement may be one of less. The
  bound is sufficient; in the instances tried (queues of 4 to 6) the first run that fails has `ackMsgPacking + 2` messages
  more, and with queues of up to 3, whose packs are of one message, none of up to 60 messages did.

* **PerfTest** (any clients, servers, threads, slots and set of tests). `RolesAssumption`: a process is a client or a server, and no
  process is a worker. `DeploymentAssumption`: every test is `Deployed`, that is, one of the ten classes with a client, servers
  that are named once, an iteration and, in the latency test, a write mode that was resolved, as `main()` leaves it.
  Threads run programs, so the proof is about programs first. Three rules say in which order instructions come (`Before`,
  `After`, `Between`); concatenation, choice and loops preserve them. A loop unrolled is a `FlattenSeq`, and that it consists of its
  rounds would take induction over their number, which the provers cannot do with an operator: instead the set of lengths that
  are counterexamples is shown to have no first member (`FlattenRounds`). Each program of `PerfPrograms` and
  `OldPerfPrograms` is then shown to keep to the rules of its kind. What has run of a program need not be remembered:
  the rules hold of every rest of it, and all that a rest says of the past is what is due next (`Due`).
  `TogetherInv` is inductive: everybody keeps to the rules; who has anything left to do belongs to the process, was started, and will be
  waited for before it is started again; who sleeps is woken by `notify` only; and no thread is started while `signaled` is
  still set, which is why `makeThreadsReady` must reset it. From it `StartTogether` (`StartedTogether`).
  `TurnsInv` adds up a connection: a question asked is answered, lies completed at the server, or was polled
  by a thread of the server that owes an answer (`Owing`, a set of threads: main threads for the barriers and workers for
  the tests share the connection), and an answer lies with the client or was taken. A worker of a server owes the node it read from its
  memory, and reads that only when it owes nothing. From it `TakeTurnsInMessages` (`AnswersInTurn`) for all tests that
  exchange messages, where it holds without the exception for later servers (`EachInTurn`).
  `SupplyInv` adds the receives of the clients: posted and answered together are as many as were asked, and one more whenever
  the next thing a client does on the connection is to ask (`SendsFirst`), because it posts before it asks. With `TurnsInv`, an
  answer that is owed has a receive: `AnswersAlwaysFindReceives`, one half of `MessagesExpected`. It speaks of answers to a
  client that is there: which node a worker of a server answers it reads from its memory, and that a client has written its id
  there by then rests on the barriers of the servers and their time advantage.

Only model-checked:

* Everything about liveness, since it needs fairness, which is out of the prover's reach.
* `AnswersInTurn` in the normal write mode of the latency test, which passes words: there it rests on `receiveRootOffsetIdx` and
  `flip` telling the words of one round from those of the last. Slot 0 has the same cell for every server, and the property
  excepts what comes of it: a later server's answer may be taken one round early, never two.
* `EndsInStep`, which is not true of every deployment: with two clients and several operations nothing keeps the faster client from
  beginning the next operation while a server is still in the last, as section 4 says of the end barriers; and that a client's
  messages find a receive (answers do, by the theorem above) rests on the servers' time advantage. The condition that nothing has
  failed yet is no restriction: the run ends with the first failure, and so no such answer is it.

## 6. Not modelled

* Payloads, addresses, keys and the wording of messages; the attributes of queue pairs; registration of memory with the card;
  NUMA and CUDA copies and the memory stubs; logging, configuration, counters; the writing of result files.
* `RPCVoidHandlerThreadOld`, `RPCHandlerThread`, `MulticastOrderTest`, and `SwMulticastPerf` and `RemoteScanPerf`, which even the
  list of the old tests leaves out.
* Hazards without a property: a failing exchange of `requestNodeID` with the sequencer (`RDMAClient.h:394`, the pattern of
  `connect_retry`); peers that die, and timeouts,
  of which the code sets none that take effect (`RDMAClient.h:81`); `activateSRQ` while the server thread connects
  (`RDMAServer.h:153`): `Endpoints` has the shared queues as calls of one thread, `RDMAConnection` the threads without them.
* Concurrent use of one connection by several threads, which the library leaves to its caller; spurious wake-ups.

## 7. What is left

1. Proofs: the words of the latency test's normal mode.
2. Shared receive queues in `RDMAConnection`, and an abstract `Link` that it implements.
