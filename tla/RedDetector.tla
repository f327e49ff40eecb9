----------------------------- MODULE RedDetector -----------------------------
(***************************************************************************)
(* The detectors of errors, latency and silence (services/anomaly.py,      *)
(* evaluate_red) on the windows of one service.  A window has the number   *)
(* of requests, the error rate in thousandths and the p95 latency in ms;   *)
(* medians are carried times 2 and deviations times 4, so that all         *)
(* comparisons are exact.  How large a firing z-score is is left out.      *)
(***************************************************************************)
EXTENDS Integers, Sequences, FiniteSets, FiniteSetsExt, Functions

CONSTANTS MinBuckets,      \* RED_MIN_BASELINE_BUCKETS
          MinRequests,     \* RED_MIN_REQUESTS
          MinExpected,     \* SILENCE_MIN_EXPECTED
          NoLatency        \* p95_ms is None

Quiet == [requests |-> 0, rate |-> 0, p95 |-> NoLatency]

\* The values of some minutes are a function on those minutes.
Total(values) == SumFunction(values)
Count(values) == Cardinality(DOMAIN values)

\* Mutation: the mean.
TwiceMean(values) == (2 * Total(values)) \div Count(values)

\* The k-th value in ascending order.
Ranked(values, k) ==
  CHOOSE x \in Range(values) :
    /\ Cardinality({i \in DOMAIN values : values[i] < x}) < k
    /\ k <= Cardinality({i \in DOMAIN values : values[i] <= x})

\* Twice the median.
TwiceMedian(values) ==
  LET mid == Count(values) \div 2
  IN  IF Count(values) % 2 = 1 THEN 2 * Ranked(values, mid + 1)
      ELSE Ranked(values, mid) + Ranked(values, mid + 1)

\* Four times the median of the distances from the median.
FourMAD(values) ==
  LET centre == TwiceMedian(values)
  IN  TwiceMedian([i \in DOMAIN values |->
                     Max({2 * values[i] - centre, centre - 2 * values[i]})])

\* z >= 3 for a value x over a history with that spread, given times 40000;
\* 1.4826 * MAD is the robust deviation.
Deviates(x, values, spread) == (2 * x - TwiceMedian(values)) * 20000 >= 3 * spread
Robust(values) == FourMAD(values) * 14826

\* The minutes that had traffic, and those with a latency.
Busy(history) == {i \in DOMAIN history : history[i].requests > 0}
Timed(history) == {i \in DOMAIN history : history[i].p95 # NoLatency}

\* The minutes since the service first appeared, the quiet ones among them too.
History(minutes) ==
  IF Busy(minutes) = {} THEN <<>> ELSE SubSeq(minutes, Min(Busy(minutes)), Len(minutes))

\* Expected in the current window of two minutes.
Silent(current, history) ==
  /\ current.requests = 0
  /\ 2 * Total([i \in DOMAIN history |-> history[i].requests]) >= MinExpected * Len(history)

\* At least 10% of errors, and 10 points above normal; the spread at least 2%.
ErrorsRise(current, history) ==
  LET rates == [i \in Busy(history) |-> history[i].rate]
  IN  /\ Count(rates) >= MinBuckets
      /\ Deviates(current.rate, rates, Max({Robust(rates), 20 * 40000}))
      /\ current.rate >= 100
      /\ 2 * current.rate - TwiceMedian(rates) >= 200

\* At least twice the normal p95, and 100 ms above it; the spread at least a
\* tenth of normal, and 5 ms.
LatencyRises(current, history) ==
  LET times == [i \in Timed(history) |-> history[i].p95]
      twice == TwiceMedian(times)
  IN  /\ current.p95 # NoLatency
      /\ Count(times) >= MinBuckets
      /\ Deviates(current.p95, times, Max({Robust(times), twice * 2000, 5 * 40000}))
      /\ current.p95 >= twice
      /\ 2 * current.p95 - twice >= 200

\* The metrics that fire.  A service that is silent, or has too few requests,
\* gets no other verdict; one that is still learning gets none.
EvaluateRed(current, history) ==
  IF Len(history) < MinBuckets THEN {}
  ELSE IF Silent(current, history) THEN {"span.service_silent"}
  ELSE IF current.requests < MinRequests THEN {}
  ELSE {m \in {"span.error_rate", "span.latency_p95"} :
          IF m = "span.error_rate" THEN ErrorsRise(current, history)
          ELSE LatencyRises(current, history)}

================================================================================
