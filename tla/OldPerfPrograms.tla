----------------------------- MODULE OldPerfPrograms -----------------------------
(***************************************************************************)
(* The programs of the tests in perftest_old/ that CMakeLists.txt there    *)
(* names (RPCPerf is in RPCHandler).  Two use reliable connections and     *)
(* nothing but one-sided operations; two send datagrams to a multicast     *)
(* group, and the servers answer with datagrams to each client.            *)
(*                                                                         *)
(* The queue of a worker that receives datagrams is one for all senders.   *)
(***************************************************************************)
EXTENDS PerfPrograms

(* The queue for a worker's datagrams, and for those of its group. *)
Signals(t) == <<t, "signals">>
Group(w) == <<w, "group">>

(* RDMA_MAX_WR, the budget of all client threads together. *)
ThreadBudget(T) == IF T.class = "MulticastLatency" THEN 1 ELSE T.budget \div T.threads
ServerBudget(T) == ThreadBudget(T) * T.threads
Rounds(T) == T.iterations \div ThreadBudget(T)

(* A server's one worker in a multicast test. *)
MulticastWorker(s) == <<s, 1>>
EveryServer(T) == {MulticastWorker(T.servers[k]) : k \in DOMAIN T.servers}

Times(n, program) == Repeat(n, LAMBDA i : program)

-----------------------------------------------------------------------------
(* MulticastPerf, and MulticastPerfLat, which casts one message a round.   *)

MCClientPerfThread(T, t) == EachServer(T, t, LAMBDA e : On("connect", e))

MCClientPerfRun(T, t) ==
  LET signals == Times(Len(T.servers), On("post", Signals(t)))
      answers == Times(Len(T.servers), On("poll", Signals(t)))
      cast == Datagram({Group(w) : w \in EveryServer(T)})
  IN Do("wait") \o signals
       \o Times(Rounds(T), Times(ThreadBudget(T), cast) \o answers \o signals)

MCClientPerfLatRun(T, t) ==
  LET signals == Times(Len(T.servers), On("post", Signals(t)))
      answers == Times(Len(T.servers), On("poll", Signals(t)))
      cast == Datagram({Group(w) : w \in EveryServer(T)})
  IN Do("wait") \o signals \o Times(Rounds(T), cast \o answers \o signals)

(* All receives of a round are posted again before the clients are told to *)
(* go on.                                                                  *)
MCServerPerfRun(T, w) ==
  LET receives == Times(ServerBudget(T), On("post", Group(w)))
      polls == Times(ServerBudget(T), On("poll", Group(w)))
      signal == EachClient(T, w[1], LAMBDA e : Datagram({Signals(e[1][1])}))
  IN receives \o Do("allConnected") \o Times(Rounds(T), polls \o receives \o signal)

MCServerPerfLatRun(T, w) == MCServerPerfRun(T, w)

(* The constructor of the worker starts the server and joins the group. *)
MulticastServerMain(T, s) ==
  Do("startServer") \o Launch({MulticastWorker(s)}, "none")
    \o <<[do |-> "join", workers |-> {MulticastWorker(s)}]>>

(* A worker is not waited for before the next is constructed.  The clients *)
(* are run by hand when the servers are up.                                *)
MulticastClientMain(T, c) ==
  Do("user")
    \o Repeat(T.threads, LAMBDA k : MCClientPerfThread(T, <<c, k>>) \o Launch({<<c, k>>}, "none"))
    \o RunThreads(ThreadsOf(T, c))

MulticastLatServerMain(T, s) == MulticastServerMain(T, s)
MulticastLatClientMain(T, c) == MulticastClientMain(T, c)

-----------------------------------------------------------------------------
(* RemoteMemoryPerf and FetchAndAddPerf.  A user starts the workers when   *)
(* they are there; the servers run until they are killed.                  *)

RemoteMemoryPerfThread(T, t) == EachServer(T, t, LAMBDA e : On("connect", e))
FetchAndAddPerfThread(T, t) == On("connect", AtClient(t, T.servers[1]))

(* One server after the other. *)
RemoteMemoryPerfRun(T, t) ==
  Do("wait") \o Iterate(T, LAMBDA i :
    On("access", AtClient(t, T.servers[1 + (i % Len(T.servers))])))

FetchAndAddPerfRun(T, t) ==
  Do("wait") \o Iterate(T, LAMBDA i : On("access", AtClient(t, T.servers[1])))

OldServerMain(T, s) == Do("startServer") \o Do("serve")

RemoteMemoryClientMain(T, c) ==
  Repeat(T.threads, LAMBDA k :
      RemoteMemoryPerfThread(T, <<c, k>>) \o Launch({<<c, k>>}, "none"))
    \o Do("user") \o RunThreads(ThreadsOf(T, c))

FetchAndAddClientMain(T, c) ==
  Repeat(T.threads, LAMBDA k :
      FetchAndAddPerfThread(T, <<c, k>>) \o Launch({<<c, k>>}, "none")
        \o AllReady({<<c, k>>}))
    \o Do("user") \o RunThreads(ThreadsOf(T, c))

-----------------------------------------------------------------------------
(* Who runs what.                                                          *)

ClientRun(T, t, op) ==
  CASE T.class = "Latency"                -> LatencyClientRun(T, t, op)
    [] T.class = "Bandwidth"              -> BandwidthClientRun(T, t, op)
    [] T.class = "OperationsCount"        -> OperationsCountClientRun(T, t, op)
    [] T.class = "AtomicsBandwidth"       -> AtomicsBandwidthClientRun(T, t)
    [] T.class = "AtomicsOperationsCount" -> AtomicsOperationsCountClientRun(T, t)
    [] T.class = "AtomicsLatency"         -> AtomicsLatencyClientRun(T, t)
    [] T.class = "Multicast"              -> MCClientPerfRun(T, t)
    [] T.class = "MulticastLatency"       -> MCClientPerfLatRun(T, t)
    [] T.class = "RemoteMemory"           -> RemoteMemoryPerfRun(T, t)
    [] T.class = "FetchAndAdd"            -> FetchAndAddPerfRun(T, t)

ServerRun(T, w, op) ==
  CASE T.class = "Latency"          -> LatencyServerRun(T, op)
    [] T.class = "Bandwidth"        -> BandwidthServerRun(T, op)
    [] T.class = "OperationsCount"  -> OperationsCountServerRun(T, op)
    [] T.class = "Multicast"        -> MCServerPerfRun(T, w)
    [] T.class = "MulticastLatency" -> MCServerPerfLatRun(T, w)

ClientMain(T, c) ==
  CASE T.class = "Latency"                -> LatencyClientMain(T, c)
    [] T.class = "Bandwidth"              -> BandwidthClientMain(T, c)
    [] T.class = "OperationsCount"        -> OperationsCountClientMain(T, c)
    [] T.class = "AtomicsBandwidth"       -> AtomicsBandwidthClientMain(T, c)
    [] T.class = "AtomicsOperationsCount" -> AtomicsOperationsCountClientMain(T, c)
    [] T.class = "AtomicsLatency"         -> AtomicsLatencyClientMain(T, c)
    [] T.class = "Multicast"              -> MulticastClientMain(T, c)
    [] T.class = "MulticastLatency"       -> MulticastLatClientMain(T, c)
    [] T.class = "RemoteMemory"           -> RemoteMemoryClientMain(T, c)
    [] T.class = "FetchAndAdd"            -> FetchAndAddClientMain(T, c)

ServerMain(T, s) ==
  CASE T.class = "Latency"                -> LatencyServerMain(T, s)
    [] T.class = "Bandwidth"              -> BandwidthServerMain(T, s)
    [] T.class = "OperationsCount"        -> OperationsCountServerMain(T, s)
    [] T.class = "AtomicsBandwidth"       -> AtomicsBandwidthServerMain(T, s)
    [] T.class = "AtomicsOperationsCount" -> AtomicsOperationsCountServerMain(T, s)
    [] T.class = "AtomicsLatency"         -> AtomicsLatencyServerMain(T, s)
    [] T.class = "Multicast"              -> MulticastServerMain(T, s)
    [] T.class = "MulticastLatency"       -> MulticastLatServerMain(T, s)
    [] T.class \in {"RemoteMemory", "FetchAndAdd"} -> OldServerMain(T, s)
=============================================================================
