--------------------------- MODULE LatencyTracker ---------------------------
(***************************************************************************)
(* LatencyTracker (latency_tracker.h): the samples of each latency, their  *)
(* running aggregates and the percentiles, which sort the samples in       *)
(* place.  A tracker is a record of the members; a command carries the     *)
(* five stamps of order.h.  Times are small: the sums do not reach 2^63.   *)
(***************************************************************************)
EXTENDS Integers, SequencesExt, FiniteSetsExt

CONSTANT MaxTime  \* numeric_limits<int64_t>::max()

Vectors == {"e2e", "queue", "match", "network"}

Fresh ==
  [e2e |-> <<>>, queue |-> <<>>, match |-> <<>>, network |-> <<>>,
   totalCount |-> 0, minE2E |-> MaxTime, maxE2E |-> 0, sumE2E |-> 0,
   timeNetwork |-> 0, timeQueue |-> 0, timeOrderbook |-> 0]

Latency(cmd) ==
  [network |-> cmd.push - cmd.recv,
   queue   |-> cmd.pop - cmd.push,
   match   |-> cmd.complete - cmd.start,
   e2e     |-> cmd.complete - cmd.recv]

\* FAULT for Extremes: "else if" between the two tests.
ExtremesElseIf(t, e2e) ==
  IF e2e < t.minE2E THEN <<e2e, t.maxE2E>>
  ELSE <<t.minE2E, Max({e2e, t.maxE2E})>>

Extremes(t, e2e) == <<Min({e2e, t.minE2E}), Max({e2e, t.maxE2E})>>

Record(t, cmd) ==
  LET l == Latency(cmd)
      extremes == Extremes(t, l.e2e)
  IN  [t EXCEPT !.e2e = Append(@, l.e2e),
                !.queue = Append(@, l.queue),
                !.match = Append(@, l.match),
                !.network = Append(@, l.network),
                !.totalCount = @ + 1,
                !.minE2E = extremes[1],
                !.maxE2E = extremes[2],
                !.sumE2E = @ + l.e2e,
                !.timeNetwork = @ + l.network,
                !.timeQueue = @ + l.queue,
                !.timeOrderbook = @ + l.match]

\* std::sort: a rearrangement in which no sample follows a greater one.
Sorted(samples) ==
  LET D == DOMAIN samples
      order == CHOOSE p \in Bijection(D, D) :
                 \A i, j \in D : i < j => samples[p[i]] <= samples[p[j]]
  IN  [i \in D |-> samples[order[i]]]

\* Sorting some of the vectors in place.
Sorting(t, names) ==
  [f \in DOMAIN t |-> IF f \in names THEN Sorted(t[f]) ELSE t[f]]

\* The value percentile returns, for p hundredths: nearest rank.
Percentile(samples, p) ==
  LET n == Len(samples)
  IN  IF n = 0 THEN 0
      ELSE Sorted(samples)[Min({(p * n + 99) \div 100, n})]

GetAvgE2E(t) == IF t.totalCount > 0 THEN t.sumE2E \div t.totalCount ELSE 0

\* printStats: every vector is sorted, unless there is nothing to report.
PrintStats(t) == IF t.totalCount = 0 THEN t ELSE Sorting(t, Vectors)

\* The accessors of the benchmark's report: getP50E2E, getP95E2E, getP99E2E.
ReadPercentiles(t) == Sorting(t, {"e2e"})
=============================================================================
