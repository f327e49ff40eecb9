---------------------------- MODULE MCRedDetector ----------------------------
(* Minutes of one service's traffic go by; the last MaxMinutes of them are    *)
(* the baseline, and every current window of a small set is judged on it.     *)
EXTENDS RedDetector

CONSTANT MaxMinutes   \* RED_BASELINE_MINUTES

VARIABLE minutes

Window(requests, rate, p95) == [requests |-> requests, rate |-> rate, p95 |-> p95]

\* A quiet minute, a normal one, a slow start and an outage.
Minutes == {Quiet, Window(10, 0, 100), Window(4, 250, 900), Window(1, 1000, 20)}

\* Around the thresholds: requests, +10 points, z = 3, twice and +100 ms.
Currents ==
  {Quiet} \cup [requests : {4, 5}, rate : {0, 90, 110, 340, 400}, p95 : {100, 190, 250, 1100}]

MinutesInit == minutes = <<>>

MinutePasses ==
  \E w \in Minutes :
    minutes' = Append(IF Len(minutes) < MaxMinutes THEN minutes ELSE Tail(minutes), w)

\* The history of the service is gone from the database (retention).
Forgotten == minutes # <<>> /\ minutes' = <<>>

MinutesNext == MinutePasses \/ Forgotten

MinutesSpec == MinutesInit /\ [][MinutesNext]_minutes

----------------------------------------------------------------------------
\* The minutes that are like w, and the history in which all with traffic are.
Alike(history, w) == {i \in DOMAIN history : history[i] = w}
Typical(history, w) ==
  [i \in DOMAIN history |-> IF history[i].requests > 0 THEN w ELSE history[i]]

\* "one bad minute (e.g. a container restart) can't drag the baseline up the
\* way a mean/stddev would" (anomaly.py): whenever more than half of the minutes
\* with traffic are alike, the current errors and latency are judged as if all
\* of them were, whatever the others are and wherever they lie.
MinorityIgnored ==
  LET history == History(minutes)
  IN  \A w \in Minutes \ {Quiet} :
        2 * Cardinality(Alike(history, w)) > Cardinality(Busy(history)) =>
          \A current \in Currents \ {Quiet} :
            EvaluateRed(current, history) = EvaluateRed(current, Typical(history, w))

================================================================================
