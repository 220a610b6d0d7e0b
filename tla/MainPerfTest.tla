------------------------------ MODULE MainPerfTest ------------------------------
(***************************************************************************)
(* Which tests a process of the performance tool runs, and with which      *)
(* parameters: what main() makes of its flags.  Clients and servers plan   *)
(* on their own and have to come to the same.                              *)
(*                                                                         *)
(* Flags f is a record: server (or client), clients (the processes),       *)
(* addresses, test (a sequence of parsed names: a class and an operation,  *)
(* or "all"), and sequences memtype, remote_memtype, packetsize,           *)
(* bufferslots, threads, iterations, transfersize and writemode, and       *)
(* maxtransfersize, maxiterations and the smallest packet of GPUDirect.    *)
(***************************************************************************)
EXTENDS Integers, SequencesExt

MAIN == -3     \* MEMORY_TYPE::MAIN, GPUs are larger
Unknown == -404

(* (uint64_t)((long double)n / d + 0.5) *)
Rounded(n, d) == (2 * n + d) \div (2 * d)
AtLeastOne(n) == IF n = 0 THEN 1 ELSE n

Each(s, Body(_)) == FlattenSeq([k \in 1 .. Len(s) |-> Body(s[k])])

AllOperations == {"WRITE", "READ", "SEND_RECEIVE", "FETCH_ADD", "COMPARE_SWAP"}
AtomicsOf == [Bandwidth |-> "AtomicsBandwidth", Latency |-> "AtomicsLatency",
              OperationsCount |-> "AtomicsOperationsCount"]

(* An atomic operation makes an atomics test of the test. *)
ClassOf(name) ==
  IF name.op \in {"FETCH_ADD", "COMPARE_SWAP"} THEN AtomicsOf[name.class] ELSE name.class

(* The tests, in the order they are named first, and what each is to do:   *)
(* all that any of its names says.                                         *)
tests(f) ==
  FoldLeft(LAMBDA classes, name :
             IF ClassOf(name) \in ToSet(classes) THEN classes ELSE Append(classes, ClassOf(name)),
           <<>>, f.test)
testOperations(f, class) ==
  UNION {IF name.op = "all" THEN AllOperations ELSE {name.op} :
           name \in {n \in ToSet(f.test) : ClassOf(n) = class}}

(* The automatic mode is the default of the class. *)
WriteMode(class, mode) ==
  IF mode # "auto" THEN mode ELSE IF class = "Latency" THEN "immediate" ELSE "normal"

(* The pairs of memory types, the remote ones repeated. *)
MemoryTypes(f) ==
  LET remote == IF f.remote_memtype = <<>> THEN <<Unknown>> ELSE f.remote_memtype
  IN [k \in 1 .. Len(f.memtype) |->
        [local |-> f.memtype[k], remote |-> remote[1 + ((k - 1) % Len(remote))]]]

(* A GPU of the clients does not take small packets. *)
checkInvalidTestParams(f, memory, packet_size) ==
  /\ (IF f.server THEN memory.remote ELSE memory.local) > MAIN
  /\ packet_size < f.gpudirect_minimum

TestOf(f, class, threads, slots, mode, iterations) ==
  [class |-> class, mode |-> WriteMode(class, mode), operations |-> testOperations(f, class),
   clients |-> f.clients, threads |-> threads, servers |-> f.addresses, slots |-> slots,
   iterations |-> iterations]

(* Bandwidth and operations-count tests transfer a given number of bytes. *)
TransferIterations(f, transfersize, packet_size, threads) ==
  LET n == Rounded(transfersize, packet_size)
      limited == IF f.maxiterations > 0 /\ n > f.maxiterations THEN f.maxiterations ELSE n
  IN AtLeastOne(Rounded(limited, threads))

TransferTests(f, class, memory, threads, slots) ==
  Each(f.transfersize, LAMBDA size : Each(f.writemode, LAMBDA mode : Each(f.packetsize, LAMBDA packet :
    IF checkInvalidTestParams(f, memory, packet) THEN <<>>
    ELSE <<TestOf(f, class, threads, slots, mode, TransferIterations(f, size, packet, threads))>>)))

AtomicsTests(f, class, threads, slots) ==
  Each(f.iterations, LAMBDA n : <<TestOf(f, class, threads, slots, "auto", AtLeastOne(n \div threads))>>)

(* The iterations of a latency test are limited by what it may transfer.   *)
(* The limit that a packet size brings stays for the sizes after it.       *)
LatencyTests(f, memory, threads, slots) ==
  LET Limited(n, now, packet) ==
        LET maxiters == Rounded(f.maxtransfersize, packet)
        IN IF f.maxtransfersize > 0 /\ n > maxiters THEN AtLeastOne(maxiters \div threads) ELSE now
      Configurations == Each(f.writemode, LAMBDA mode : Each(f.packetsize, LAMBDA packet :
                          <<[mode |-> mode, packet |-> packet]>>))
      Step(n, sofar, c) ==
        LET now == Limited(n, sofar.iterations, c.packet)
        IN [iterations |-> now,
            tests |-> IF checkInvalidTestParams(f, memory, c.packet) THEN sofar.tests
                      ELSE Append(sofar.tests, TestOf(f, "Latency", threads, slots, c.mode, now))]
  IN Each(f.iterations, LAMBDA n :
       FoldLeft(LAMBDA sofar, c : Step(n, sofar, c),
                [iterations |-> AtLeastOne(n \div threads), tests |-> <<>>], Configurations).tests)

Plan(f) ==
  Each(tests(f), LAMBDA class : Each(MemoryTypes(f), LAMBDA memory :
    Each(f.threads, LAMBDA threads : Each(f.bufferslots, LAMBDA slots :
      CASE class \in {"Bandwidth", "OperationsCount"} -> TransferTests(f, class, memory, threads, slots)
        [] class = "Latency"                          -> LatencyTests(f, memory, threads, slots)
        [] OTHER                                      -> AtomicsTests(f, class, threads, slots)))))
=============================================================================
