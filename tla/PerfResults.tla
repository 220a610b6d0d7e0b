------------------------------ MODULE PerfResults ------------------------------
(***************************************************************************)
(* What getTestResults of each test makes of the times its client threads  *)
(* have measured.  A time is a number of nanoseconds, a rate and an        *)
(* average are fractions <<n, d>>.  Units, the rounding to the digits that *)
(* are printed, and the layout of the file and of the console are left     *)
(* out.                                                                    *)
(*                                                                         *)
(* T is a test as in PerfPrograms.  times[op] is the sequence of what the  *)
(* threads measured, elapsed[op] what the main thread did.                 *)
(***************************************************************************)
EXTENDS Integers, SequencesExt, FiniteSetsExt, TLC

ATOMICS_SIZE == 8

Total(s) == FoldLeft(LAMBDA a, b : a + b, 0, s)
Ascending(s) == SortSeq(s, LAMBDA a, b : a < b)

(* Of an even number of values, the larger one of the two in the middle. *)
MedianOf(s) == Ascending(s)[1 + (Len(s) \div 2)]

Asked(T, ops) == {op \in ops : op \in T.operations}
TwoSidedOps == {"WRITE", "READ", "SEND_RECEIVE"}
AtomicOps == {"FETCH_ADD", "COMPARE_SWAP"}

-----------------------------------------------------------------------------
(* Bandwidth and operations count: one time per thread and operation.      *)

Summary(elapsed, s) ==
  [elapsed |-> <<elapsed, 1>>, min |-> <<Min(ToSet(s)), 1>>, max |-> <<Max(ToSet(s)), 1>>,
   avg |-> <<Total(s), Len(s)>>, median |-> <<MedianOf(s), 1>>]

(* The rate that a time stands for. *)
Per(amount, time) == <<amount * time[2], time[1]>>

(* The longest time gives the smallest rate. *)
Rates(amount, t) ==
  [elapsed |-> Per(amount, t.elapsed), min |-> Per(amount, t.max), max |-> Per(amount, t.min),
   avg |-> Per(amount, t.avg), median |-> Per(amount, t.median)]

(* On the console the median rate is the one of the shortest time. *)
ConsoleRates(amount, t) == [Rates(amount, t) EXCEPT !.median = Per(amount, t.min)]

(* "rates" and "seconds" are the columns of the file, by their headings.    *)
Report(amount, elapsed, s) ==
  LET t == Summary(elapsed, s)
  IN [rates |-> Rates(amount, t), seconds |-> t,
      console |-> ConsoleRates(amount, t), consoleSeconds |-> t]

(* The headings of these columns are in another order than the columns.    *)
Misplaced(r) == [elapsed |-> r.elapsed, avg |-> r.min, median |-> r.max, min |-> r.avg,
                 max |-> r.median]

iters(T) == T.threads * T.iterations * Len(T.servers)

BandwidthResults(T, packet_size, elapsed, times) ==
  [op \in Asked(T, TwoSidedOps) |-> Report(iters(T) * packet_size, elapsed[op], times[op])]

OperationsCountResults(T, elapsed, times) ==
  [op \in Asked(T, TwoSidedOps) |-> Report(iters(T), elapsed[op], times[op])]

AtomicsBandwidthResults(T, elapsed, times) ==
  [op \in Asked(T, AtomicOps) |-> Report(iters(T) * ATOMICS_SIZE, elapsed[op], times[op])]

(* The console shows operations, too, that the test was not asked for; the *)
(* file those it was.                                                      *)
AtomicsOperationsCountResults(T, elapsed, times) ==
  LET Of(op) == Report(iters(T), elapsed[op], times[op])
  IN [op \in AtomicOps |->
        IF op # "FETCH_ADD" THEN Of(op)
        ELSE [Of(op) EXCEPT !.rates = Misplaced(@), !.seconds = Misplaced(@)]]

-----------------------------------------------------------------------------
(* Latency: each thread measures every iteration at every server.          *)

(* What a thread keeps of the times: m_arr is added to, so that the mean   *)
(* of an iteration contains whatever memory held that was not initialised. *)
Measured(T, found, s) ==
  [min |-> Min(UNION {ToSet(s[i]) : i \in DOMAIN s}),
   max |-> Max(UNION {ToSet(s[i]) : i \in DOMAIN s}),
   sum |-> Total([i \in DOMAIN s |-> Total(s[i])]),
   arr |-> [i \in DOMAIN s |-> (found[i] + Total(s[i])) \div Len(T.servers)]]

(* One operation whose measurements m the threads have. *)
LatencySummary(T, m) ==
  [min |-> Min({m[k].min : k \in DOMAIN m}), max |-> Max({m[k].max : k \in DOMAIN m}),
   avg |-> <<Total([k \in DOMAIN m |-> m[k].sum]), iters(T)>>,
   median |-> MedianOf([k \in DOMAIN m |-> MedianOf(m[k].arr)])]

LatencyResults(T, measured) ==
  [op \in Asked(T, TwoSidedOps) |-> LatencySummary(T, measured[op])]

(* Each server's time takes the place of the last one's. *)
AtomicsMeasured(T, s) ==
  [Measured(T, [i \in DOMAIN s |-> 0], s) EXCEPT !.arr = [i \in DOMAIN s |-> Last(s[i])]]

AtomicsLatencyResults(T, measured) ==
  [op \in Asked(T, AtomicOps) |-> LatencySummary(T, measured[op])]
=============================================================================
