------------------------------- MODULE MCPerfTest -------------------------------
(* Small deployments of the performance tests, as main() plans them. *)
EXTENDS PerfTest, TLC

M == INSTANCE MainPerfTest
R == INSTANCE PerfResults

CONSTANTS c1, c2, s1, s2

ASSUME {c1, c2} = Clients /\ {s1, s2} = Servers

(* Two threads (of two slots) of one client, whose words take two rounds   *)
(* through the slots and a half.                                           *)
Flags ==
  [server |-> FALSE, clients |-> {c1}, addresses |-> <<s1>>, test |-> <<>>,
   memtype |-> <<M!MAIN>>, remote_memtype |-> <<>>, packetsize |-> <<1>>,
   bufferslots |-> <<2>>, threads |-> <<2>>, iterations |-> <<10>>, transfersize |-> <<4>>,
   writemode |-> <<"normal", "immediate">>, maxtransfersize |-> 24, maxiterations |-> 50,
   gpudirect_minimum |-> 2]

Named(class, op) == [class |-> class, op |-> op]

(* Everything, of which the atomics are named by their operations. *)
OneClient ==
  [Flags EXCEPT !.test = <<Named("Latency", "all"), Named("Bandwidth", "all"),
     Named("OperationsCount", "all"), Named("Bandwidth", "FETCH_ADD"),
     Named("Bandwidth", "COMPARE_SWAP"), Named("Latency", "FETCH_ADD"),
     Named("AtomicsOperationsCount", "all")>>]

(* One thread of one client that knows two servers.  (With one slot, the   *)
(* normal mode of the latency test hangs: the client goes on because of    *)
(* the first server's answer and overwrites its question to the second.)   *)
TwoServers ==
  {[Flags EXCEPT !.addresses = <<s1, s2>>, !.threads = <<1>>, !.iterations = <<3>>,
                 !.transfersize = <<2>>, !.writemode = <<"immediate">>, !.test = tests] :
     tests \in {<<Named("Latency", "all")>>,
                <<Named("Bandwidth", "all"), Named("OperationsCount", "all")>>,
                <<Named("Bandwidth", "FETCH_ADD"), Named("Latency", "COMPARE_SWAP"),
                  Named("AtomicsOperationsCount", "all")>>}}
  \cup
  {[Flags EXCEPT !.addresses = <<s1, s2>>, !.threads = <<1>>, !.iterations = <<5>>,
                 !.writemode = <<"normal">>, !.test = <<Named("Latency", "all")>>]}

(* Two clients.  No barrier keeps the one that is faster by more than the  *)
(* servers' advantage from beginning the next operation of a latency test, *)
(* and reading starts without a sleep.                                     *)
TwoClients ==
  {[Flags EXCEPT !.clients = {c1, c2}, !.threads = <<1>>, !.iterations = <<5>>,
                 !.test = <<Named("Latency", op)>>] : op \in {"WRITE", "SEND_RECEIVE"}}
  \cup
  {[Flags EXCEPT !.clients = {c1, c2}, !.threads = <<1>>, !.transfersize = <<2>>,
                 !.writemode = <<"auto">>, !.test = <<Named("Bandwidth", op)>>] :
     op \in {"WRITE", "SEND_RECEIVE"}}

Planned == UNION {ToSet(M!Plan(f)) : f \in {OneClient} \cup TwoServers \cup TwoClients}

(* The old tests have no plan; the budget of a multicast test is 4. *)
OldTest(class, n, servers, iterations) ==
  [class |-> class, mode |-> "none", operations |-> {}, clients |-> {c1}, threads |-> n,
   servers |-> servers, slots |-> 1, iterations |-> iterations, budget |-> 4]

OldTests ==
  {OldTest("Multicast", 2, <<s1>>, 4), OldTest("Multicast", 1, <<s1, s2>>, 8),
   OldTest("MulticastLatency", 2, <<s1, s2>>, 2), OldTest("RemoteMemory", 2, <<s1, s2>>, 3),
   OldTest("FetchAndAdd", 2, <<s1>>, 2)}

Deployments == Planned \cup OldTests

(* A client and a server with the same flags, except that each names its   *)
(* own memory first, plan the same tests.                                  *)
Swapped(f) == [f EXCEPT !.server = ~ @, !.memtype = f.remote_memtype, !.remote_memtype = f.memtype]

ASSUME PlansAgree ==
  \A local, remote \in {<<m>> : m \in {M!MAIN, 0}} \cup {<<M!MAIN, 0>>, <<0, 1>>} :
    LET f == [OneClient EXCEPT !.memtype = local, !.remote_memtype = remote,
                               !.packetsize = <<1, 2, 3>>, !.maxtransfersize = 4]
    IN Len(local) = Len(remote) => M!Plan(f) = M!Plan(Swapped(f))

(* What the results of a test say of up to three threads: the median is one, *)
(* between the extremes, and no mean rate is beyond the extreme ones.  Both  *)
(* ends of the range come from times, whose order the rates reverse.         *)
AtMost(x, y) == x[1] * y[2] <= y[1] * x[2]
Between(r, k) == AtMost(r.min, r[k]) /\ AtMost(r[k], r.max)
Samples(n, most) == UNION {[1 .. k -> 1 .. most] : k \in 1 .. n}

ASSUME ResultsOrdered ==
  \A s \in Samples(3, 4) :
    LET T == OldTest("Bandwidth", Len(s), <<s1, s2>>, 2)
        results == R!BandwidthResults([T EXCEPT !.operations = {"READ"}], 3,
                                      [READ |-> 5], [READ |-> s])["READ"]
        Half(P(_)) == 2 * Cardinality({k \in DOMAIN s : P(s[k])}) >= Len(s)
    IN /\ \A k \in {"avg", "median"} : Between(results.rates, k) /\ Between(results.seconds, k)
       /\ Half(LAMBDA x : x <= results.seconds.median[1])
       /\ Half(LAMBDA x : x >= results.seconds.median[1])

(* The same for the latency of two threads at two servers, if the memory of *)
(* the times was zero.                                                      *)
ASSUME LatenciesOrdered ==
  \A a, b \in [1 .. 2 -> Samples(2, 2) \cap [1 .. 2 -> 1 .. 2]] :
    LET T == [OldTest("Latency", 2, <<s1, s2>>, 2) EXCEPT !.operations = {"WRITE"}]
        m == <<R!Measured(T, <<0, 0>>, a), R!Measured(T, <<0, 0>>, b)>>
        r == R!LatencyResults(T, [WRITE |-> m])["WRITE"]
    IN r.min <= r.median /\ r.median <= r.max
         /\ AtMost(<<r.min, 1>>, r.avg) /\ AtMost(r.avg, <<r.max, 1>>)
=============================================================================
