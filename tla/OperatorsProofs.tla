---------------------------- MODULE OperatorsProofs ----------------------------
(***************************************************************************)
(* Proofs about the modules that compute a result and keep no state, along *)
(* the inputs that MCOperators puts in; the results behind them hold for   *)
(* any input.                                                              *)
(*                                                                         *)
(* RedDetector.  The k-th smallest of some values is settled by counting:  *)
(* what more than half of them are is neither too low nor too high to be   *)
(* the middle one, and nothing else is.  So it is the median, the          *)
(* deviations from it have the median 0, and the verdict depends on the    *)
(* others through their number alone.                                      *)
(*                                                                         *)
(* IncidentRules.  See IncidentRulesProofs.                                *)
(*                                                                         *)
(* SpanBatch.  The community modules fold over sets of positions; each of  *)
(* the three folds is unfolded to a run, one row after the other, on which *)
(* the rest is by counting up the rows:                                    *)
(*   - the sum of two runs is the run over both, as Added is associative,  *)
(*     so a cut does not show in the services table;                       *)
(*   - the lookup finds each span of the batch by its id, and no other, as *)
(*     an id is used for one span and its copies (IdsInv);                 *)
(*   - so an edge after m rows is the number, errors and times of the      *)
(*     calls among them, and of the whole batch in the end;                *)
(*   - the calls within one side of a cut are, shifted to it, the calls of *)
(*     the batch sent from there; the others are lost.                     *)
(***************************************************************************)
EXTENDS MCRedDetector, MCIncidentRules, MCSpanBatch, MCProtoCodec,
        IncidentRulesProofs, SequenceTheorems

--------------------------------------------------------------------------------
(* RedDetector: medians.                                                       *)

LEMMA CountingParts ==
  ASSUME NEW D, IsFiniteSet(D), NEW S \in SUBSET D, NEW T \in SUBSET D
  PROVE  /\ Cardinality(D) \in Nat /\ Cardinality(S) \in Nat /\ Cardinality(T) \in Nat
         /\ S \subseteq T => Cardinality(S) <= Cardinality(T)
         /\ S \cap T = {} => Cardinality(S) <= Cardinality(D) - Cardinality(T)
<1>1. IsFiniteSet(S) /\ IsFiniteSet(T) /\ IsFiniteSet(D \ T)
  BY FS_Subset
<1>2. Cardinality(D) \in Nat /\ Cardinality(S) \in Nat /\ Cardinality(T) \in Nat
  BY <1>1, FS_CardinalityType
<1>3. S \subseteq T => Cardinality(S) <= Cardinality(T)
  BY <1>1, FS_Subset
<1>4. ASSUME S \cap T = {} PROVE Cardinality(S) <= Cardinality(D) - Cardinality(T)
  <2>1. Cardinality(D \ T) = Cardinality(D) - Cardinality(D \cap T)
    BY FS_Difference
  <2>2. D \cap T = T /\ S \subseteq D \ T
    BY <1>4
  <2>3. Cardinality(S) <= Cardinality(D \ T)
    BY <1>1, <2>2, FS_Subset
  <2> QED
    BY <2>1, <2>2, <2>3
<1> QED
  BY <1>2, <1>3, <1>4

\* x is the k-th value: fewer than k lie below it, k or more not above it.
IsRanked(values, k, x) ==
  /\ Cardinality({i \in DOMAIN values : values[i] < x}) < k
  /\ k <= Cardinality({i \in DOMAIN values : values[i] <= x})

LEMMA RankedIsOne ==
  ASSUME NEW D, IsFiniteSet(D), NEW values \in [D -> Int], NEW k \in Nat,
         NEW x \in Int, NEW y \in Int, IsRanked(values, k, x), IsRanked(values, k, y)
  PROVE  ~(x < y)
<1> SUFFICES ASSUME x < y PROVE FALSE
  OBVIOUS
<1> DEFINE S == {i \in D : values[i] <= x}
           T == {i \in D : values[i] < y}
<1>1. S \subseteq T
  OBVIOUS
<1>2. Cardinality(S) <= Cardinality(T) /\ Cardinality(S) \in Nat /\ Cardinality(T) \in Nat
  <2>1. S \in SUBSET D /\ T \in SUBSET D
    OBVIOUS
  <2> HIDE DEF S, T
  <2> QED
    BY <1>1, <2>1, CountingParts
<1>3. k <= Cardinality(S) /\ Cardinality(T) < k
  BY DEF IsRanked
<1> HIDE DEF S, T
<1> QED
  BY <1>2, <1>3

\* What a subset S of the values is counts, from either end, for every place
\* that S must cover.
LEMMA RankedOfMany ==
  ASSUME NEW D, IsFiniteSet(D), NEW values \in [D -> Int], NEW x \in Int,
         NEW S \in SUBSET D, S # {}, \A i \in S : values[i] = x,
         NEW k \in Nat, k <= Cardinality(S), Cardinality(D) - Cardinality(S) < k
  PROVE  Ranked(values, k) = x
<1> DEFINE Low == {i \in D : values[i] < x}
           UpTo == {i \in D : values[i] <= x}
<1>1. IsRanked(values, k, x)
  <2>1. Low \cap S = {} /\ S \subseteq UpTo /\ Low \in SUBSET D /\ UpTo \in SUBSET D
    OBVIOUS
  <2>2. DOMAIN values = D
    OBVIOUS
  <2> HIDE DEF Low, UpTo
  <2>3. Cardinality(Low) <= Cardinality(D) - Cardinality(S)
    BY <2>1, CountingParts
  <2>4. Cardinality(S) <= Cardinality(UpTo)
    BY <2>1, CountingParts
  <2>5. /\ Cardinality(Low) \in Nat /\ Cardinality(UpTo) \in Nat
        /\ Cardinality(S) \in Nat /\ Cardinality(D) \in Nat
    BY <2>1, CountingParts
  <2>6. Cardinality(Low) < k /\ k <= Cardinality(UpTo)
    BY <2>3, <2>4, <2>5
  <2> QED
    BY <2>2, <2>6 DEF IsRanked, Low, UpTo
<1>2. x \in Range(values)
  BY DEF Range
<1>3. ASSUME NEW y \in Range(values), IsRanked(values, k, y) PROVE y = x
  <2>1. y \in Int
    BY DEF Range
  <2>2. ~(x < y) /\ ~(y < x)
    BY <1>1, <1>3, <2>1, RankedIsOne
  <2> QED
    BY <2>1, <2>2
<1>4. Ranked(values, k) = CHOOSE y \in Range(values) : IsRanked(values, k, y)
  BY DEF Ranked, IsRanked
<1> QED
  BY <1>1, <1>2, <1>3, <1>4

\* The median of values more than half of which are x.
LEMMA MedianOfMany ==
  ASSUME NEW D, IsFiniteSet(D), NEW values \in [D -> Int], NEW x \in Int,
         NEW S \in SUBSET D, \A i \in S : values[i] = x,
         2 * Cardinality(S) > Cardinality(D)
  PROVE  TwiceMedian(values) = 2 * x
<1> DEFINE n == Cardinality(D)
           s == Cardinality(S)
           mid == n \div 2
<1>1. n \in Nat /\ s \in Nat /\ s <= n
  BY CountingParts
<1>3. Count(values) = n
  BY DEF Count
<1> HIDE DEF n, s
<1>4. 2 * s > n
  BY DEF n, s
<1>2. S # {}
  BY <1>1, <1>4, FS_EmptySet DEF s
<1>5. mid \in Nat /\ (n = 2 * mid \/ n = 2 * mid + 1) /\ (n % 2 = 1 <=> n = 2 * mid + 1)
  BY <1>1
<1>6. ASSUME NEW k \in Nat, k <= s, n - s < k PROVE Ranked(values, k) = x
  BY <1>2, <1>6, RankedOfMany DEF n, s
<1> HIDE DEF mid
<1>7. mid + 1 <= s /\ n - s < mid + 1
  BY <1>1, <1>4, <1>5
<1>8. Ranked(values, mid + 1) = x
  BY <1>1, <1>5, <1>6, <1>7
<1>9. n # 2 * mid + 1 => Ranked(values, mid) = x
  <2>1. n # 2 * mid + 1 => mid <= s /\ n - s < mid
    BY <1>1, <1>4, <1>5
  <2> QED
    BY <1>5, <1>6, <2>1
<1>10. TwiceMedian(values) = IF n % 2 = 1 THEN 2 * Ranked(values, mid + 1)
                             ELSE Ranked(values, mid) + Ranked(values, mid + 1)
  BY <1>3 DEF TwiceMedian, mid
<1> QED
  BY <1>5, <1>8, <1>9, <1>10

LEMMA MaxOfTwo ==
  ASSUME NEW a \in Int, NEW b \in Int
  PROVE  Max({a, b}) \in {a, b} /\ Max({a, b}) >= a /\ Max({a, b}) >= b
<1>1. \E x \in {a, b} : \A y \in {a, b} : x >= y
  <2>1. CASE a >= b
    BY <2>1
  <2>2. CASE b >= a
    BY <2>2
  <2> QED
    BY <2>1, <2>2
<1>2. Max({a, b}) \in {a, b} /\ \A y \in {a, b} : Max({a, b}) >= y
  BY <1>1 DEF Max
<1> QED
  BY <1>2

\* The deviations from a median that more than half of the values share.
LEMMA DeviationOfMany ==
  ASSUME NEW D, IsFiniteSet(D), NEW values \in [D -> Int], NEW x \in Int,
         NEW S \in SUBSET D, \A i \in S : values[i] = x,
         2 * Cardinality(S) > Cardinality(D)
  PROVE  FourMAD(values) = 0
<1> DEFINE Distance(i) == Max({2 * values[i] - 2 * x, 2 * x - 2 * values[i]})
           distances == [i \in D |-> Distance(i)]
<1>1. TwiceMedian(values) = 2 * x
  BY MedianOfMany
<1>2. FourMAD(values) = TwiceMedian(distances)
  BY <1>1 DEF FourMAD
<1>3. ASSUME NEW i \in D PROVE Distance(i) \in Int /\ (values[i] = x => Distance(i) = 0)
  <2>1. 2 * values[i] - 2 * x \in Int /\ 2 * x - 2 * values[i] \in Int
    OBVIOUS
  <2>2. Distance(i) \in {2 * values[i] - 2 * x, 2 * x - 2 * values[i]}
    BY <2>1, MaxOfTwo
  <2> HIDE DEF Distance
  <2> QED
    BY <2>1, <2>2
<1>4. distances \in [D -> Int] /\ \A i \in S : distances[i] = 0
  BY <1>3
<1> HIDE DEF distances
<1>5. TwiceMedian(distances) = 2 * 0
  BY <1>4, MedianOfMany
<1> QED
  BY <1>2, <1>5

--------------------------------------------------------------------------------
(* RedDetector: verdicts.                                                      *)

\* A minute has a latency exactly if it has requests, since p95_ms is computed
\* from their spans.
Measured ==
  {v \in [requests : Nat, rate : Int, p95 : Int \cup {NoLatency}] :
     v.requests > 0 <=> v.p95 # NoLatency}

LEMMA HistoryParts ==
  ASSUME NEW h \in Seq(Measured)
  PROVE  /\ DOMAIN h = 1..Len(h) /\ IsFiniteSet(DOMAIN h) /\ Len(h) \in Nat
         /\ \A i \in DOMAIN h : h[i] \in Measured
         /\ Timed(h) = Busy(h)
         /\ IsFiniteSet(Busy(h))
         /\ [i \in Busy(h) |-> h[i].rate] \in [Busy(h) -> Int]
         /\ [i \in Busy(h) |-> h[i].p95] \in [Busy(h) -> Int]
<1>1. DOMAIN h = 1..Len(h) /\ Len(h) \in Nat /\ \A i \in DOMAIN h : h[i] \in Measured
  BY LenProperties, ElementOfSeq
<1>2. IsFiniteSet(DOMAIN h)
  BY <1>1, FS_Interval
<1>3. IsFiniteSet(Busy(h))
  BY <1>2, FS_Subset DEF Busy
<1>4. Timed(h) = Busy(h)
  BY <1>1 DEF Timed, Busy, Measured
<1>5. ASSUME NEW i \in Busy(h) PROVE h[i].rate \in Int /\ h[i].p95 \in Int
  BY <1>1 DEF Busy, Measured
<1> QED
  BY <1>1, <1>2, <1>3, <1>4, <1>5

\* What a detector takes from a history in which more than half of the minutes
\* with traffic are w.
LEMMA MajoritySettles ==
  ASSUME NEW h \in Seq(Measured), NEW w \in Measured, w.requests > 0,
         NEW S \in SUBSET Busy(h), \A i \in S : h[i] = w,
         2 * Cardinality(S) > Cardinality(Busy(h)),
         NEW field \in {"rate", "p95"}
  PROVE  LET values == [i \in Busy(h) |-> h[i][field]]
         IN  /\ TwiceMedian(values) = 2 * w[field]
             /\ FourMAD(values) = 0
<1> DEFINE D == Busy(h)
           values == [i \in D |-> h[i][field]]
<1>1. IsFiniteSet(D) /\ values \in [D -> Int]
  <2>1. CASE field = "rate"
    BY <2>1, HistoryParts
  <2>2. CASE field = "p95"
    BY <2>2, HistoryParts
  <2> QED
    BY <2>1, <2>2
<1>2. w[field] \in Int
  BY DEF Measured
<1>3. S \in SUBSET D /\ 2 * Cardinality(S) > Cardinality(D) /\ \A i \in S : values[i] = w[field]
  OBVIOUS
<1> HIDE DEF D, values
<1>4. TwiceMedian(values) = 2 * w[field] /\ FourMAD(values) = 0
  BY <1>1, <1>2, <1>3, MedianOfMany, DeviationOfMany
<1> QED
  BY <1>4 DEF values, D

\* For any history and any current window with requests: if more than half of the
\* minutes with traffic are alike, the verdict is the one on a history in which
\* all of them are (anomaly.py, evaluate_red: "one bad minute can't drag the
\* baseline up").
THEOREM MinorityNeverCounts ==
  ASSUME NEW h \in Seq(Measured), NEW w \in Measured, w.requests > 0,
         2 * Cardinality(Alike(h, w)) > Cardinality(Busy(h)),
         NEW current, current.requests # 0
  PROVE  EvaluateRed(current, h) = EvaluateRed(current, Typical(h, w))
<1> DEFINE t == Typical(h, w)
           D == Busy(h)
           S == Alike(h, w)
<1>1. t \in Seq(Measured) /\ Len(t) = Len(h) /\ DOMAIN t = DOMAIN h
  <2>1. \A i \in 1..Len(h) : t[i] \in Measured
    BY HistoryParts DEF Typical
  <2>2. t = [i \in 1..Len(h) |-> t[i]]
    BY HistoryParts DEF Typical
  <2>3. Len(h) \in Nat
    BY HistoryParts
  <2> HIDE DEF t
  <2> QED
    BY <2>1, <2>2, <2>3, HistoryParts
<1>2. Busy(t) = D /\ \A i \in D : t[i] = w
  BY <1>1 DEF Typical, Busy
<1>3. S \in SUBSET D /\ \A i \in S : h[i] = w
  BY DEF Alike, Busy
<1>4. 2 * Cardinality(D) > Cardinality(D)
  <2>1. IsFiniteSet(D)
    BY HistoryParts
  <2> HIDE DEF D, S
  <2>2. Cardinality(D) \in Nat /\ Cardinality(S) \in Nat /\ Cardinality(S) <= Cardinality(D)
    BY <1>3, <2>1, CountingParts
  <2> QED
    BY <2>2 DEF D, S
<1>5. \A v : Silent(current, v) = FALSE
  BY DEF Silent
<1> DEFINE Values(v, field) == [i \in D |-> v[i][field]]
<1>6. ASSUME NEW field \in {"rate", "p95"}
      PROVE  /\ TwiceMedian(Values(h, field)) = TwiceMedian(Values(t, field))
             /\ FourMAD(Values(h, field)) = FourMAD(Values(t, field))
             /\ Count(Values(h, field)) = Count(Values(t, field))
  <2>1. /\ TwiceMedian(Values(h, field)) = 2 * w[field]
        /\ FourMAD(Values(h, field)) = 0
    BY <1>3, MajoritySettles
  <2>2. /\ TwiceMedian(Values(t, field)) = 2 * w[field]
        /\ FourMAD(Values(t, field)) = 0
    <3> HIDE DEF t
    <3> QED
      BY <1>1, <1>2, <1>4, MajoritySettles
  <2>3. Count(Values(h, field)) = Count(Values(t, field))
    BY DEF Count
  <2> QED
    BY <2>1, <2>2, <2>3
<1>7. Timed(h) = D /\ Timed(t) = D
  BY <1>1, <1>2, HistoryParts
<1> HIDE DEF t, D
<1>8. ErrorsRise(current, h) <=> ErrorsRise(current, t)
  <2> DEFINE a == [i \in Busy(h) |-> h[i].rate]
             b == [i \in Busy(t) |-> t[i].rate]
             Rise(n, median, mad) ==
               /\ n >= MinBuckets
               /\ (2 * current.rate - median) * 20000 >= 3 * Max({mad * 14826, 20 * 40000})
               /\ current.rate >= 100
               /\ 2 * current.rate - median >= 200
  <2>1. a = Values(h, "rate") /\ b = Values(t, "rate")
    BY <1>2 DEF D
  <2>2. TwiceMedian(a) = TwiceMedian(b) /\ FourMAD(a) = FourMAD(b) /\ Count(a) = Count(b)
    BY <1>6, <2>1
  <2>3. /\ ErrorsRise(current, h) <=> Rise(Count(a), TwiceMedian(a), FourMAD(a))
        /\ ErrorsRise(current, t) <=> Rise(Count(b), TwiceMedian(b), FourMAD(b))
    BY DEF ErrorsRise, Deviates, Robust
  <2> HIDE DEF a, b, Rise
  <2> QED
    BY <2>2, <2>3
<1>9. LatencyRises(current, h) <=> LatencyRises(current, t)
  <2> DEFINE a == [i \in Timed(h) |-> h[i].p95]
             b == [i \in Timed(t) |-> t[i].p95]
             Rise(n, median, mad) ==
               /\ current.p95 # NoLatency
               /\ n >= MinBuckets
               /\ (2 * current.p95 - median) * 20000
                    >= 3 * Max({mad * 14826, median * 2000, 5 * 40000})
               /\ current.p95 >= median
               /\ 2 * current.p95 - median >= 200
  <2>1. a = Values(h, "p95") /\ b = Values(t, "p95")
    BY <1>7
  <2>2. TwiceMedian(a) = TwiceMedian(b) /\ FourMAD(a) = FourMAD(b) /\ Count(a) = Count(b)
    BY <1>6, <2>1
  <2>3. /\ LatencyRises(current, h) <=> Rise(Count(a), TwiceMedian(a), FourMAD(a))
        /\ LatencyRises(current, t) <=> Rise(Count(b), TwiceMedian(b), FourMAD(b))
    BY DEF LatencyRises, Deviates, Robust
  <2> HIDE DEF a, b, Rise
  <2> QED
    BY <2>2, <2>3
<1> QED
  BY <1>1, <1>5, <1>8, <1>9 DEF EvaluateRed, t

--------------------------------------------------------------------------------
(* RedDetector: the minutes that go by.                                        *)

\* None is not a number.
NoLatencyIsNone == NoLatency \notin Int

MinutesInv == minutes \in Seq(Minutes)

LEMMA MinutesMeasured == ASSUME NoLatencyIsNone PROVE Minutes \subseteq Measured
BY DEF Minutes, Measured, Window, Quiet, NoLatencyIsNone

LEMMA LeastOfSome ==
  ASSUME NEW T \in SUBSET Nat, T # {}
  PROVE  Min(T) \in T
<1> DEFINE Less == OpToRel(<, Nat)
<1>1. \A x, y \in Nat : x < y => <<x, y>> \in Less
  BY DEF OpToRel
<1>2. IsWellFoundedOn(Less, Nat)
  BY NatLessThanWellFounded
<1> HIDE DEF Less
<1>3. PICK x \in T : \A y \in T : ~(<<y, x>> \in Less)
  BY <1>2, WFMin
<1>4. ASSUME NEW y \in T PROVE x <= y
  <2>1. ~(y < x)
    BY <1>1, <1>3
  <2> QED
    BY <2>1
<1> QED
  BY <1>4 DEF Min

LEMMA HistoryOfMinutes == MinutesInv => History(minutes) \in Seq(Minutes)
<1> SUFFICES ASSUME MinutesInv PROVE History(minutes) \in Seq(Minutes)
  OBVIOUS
<1> DEFINE n == Len(minutes)
           busy == Busy(minutes)
<1>1. n \in Nat /\ DOMAIN minutes = 1..n /\ \A i \in 1..n : minutes[i] \in Minutes
  BY LenProperties, ElementOfSeq DEF MinutesInv
<1>2. busy \subseteq 1..n
  BY <1>1 DEF Busy
<1> HIDE DEF n, busy
<1>3. CASE busy = {}
  BY <1>3 DEF History, busy
<1>4. CASE busy # {}
  <2>1. Min(busy) \in 1..n
    <3>1. busy \in SUBSET Nat
      BY <1>1, <1>2
    <3>2. Min(busy) \in busy
      BY <1>4, <3>1, LeastOfSome
    <3> QED
      BY <1>2, <3>2
  <2>2. \A i \in Min(busy)..n : minutes[i] \in Minutes
    BY <1>1, <2>1
  <2>3. SubSeq(minutes, Min(busy), n) \in Seq(Minutes)
    BY <1>1, <2>1, <2>2, SubSeqProperties
  <2> QED
    BY <1>4, <2>3 DEF History, busy, n
<1> QED
  BY <1>3, <1>4

LEMMA MinutesHolds == ASSUME MaxMinutes \in Nat \ {0} PROVE MinutesSpec => []MinutesInv
<1>1. MinutesInit => MinutesInv
  BY DEF MinutesInit, MinutesInv
<1>2. MinutesInv /\ [MinutesNext]_minutes => MinutesInv'
  <2> SUFFICES ASSUME MinutesInv, [MinutesNext]_minutes PROVE MinutesInv'
    OBVIOUS
  <2>1. CASE MinutePasses
    <3>1. PICK w \in Minutes :
            minutes' = Append(IF Len(minutes) < MaxMinutes THEN minutes ELSE Tail(minutes), w)
      BY <2>1 DEF MinutePasses
    <3>2. minutes \in Seq(Minutes)
      BY DEF MinutesInv
    <3>3. ~(Len(minutes) < MaxMinutes) => minutes # <<>> /\ Tail(minutes) \in Seq(Minutes)
      BY <3>2, EmptySeq, HeadTailProperties
    <3> QED
      BY <3>1, <3>2, <3>3, AppendProperties DEF MinutesInv
  <2>2. CASE Forgotten
    BY <2>2 DEF Forgotten, MinutesInv
  <2>3. CASE UNCHANGED minutes
    BY <2>3 DEF MinutesInv
  <2> QED
    BY <2>1, <2>2, <2>3 DEF MinutesNext
<1> QED
  BY <1>1, <1>2, PTL DEF MinutesSpec

\* In every run of minutes, a minority of bad ones never changes a verdict
\* (anomaly.py, evaluate_red).
THEOREM MinorityIgnoredHolds ==
  ASSUME NoLatencyIsNone, MaxMinutes \in Nat \ {0}
  PROVE  MinutesSpec => []MinorityIgnored
<1>1. MinutesInv => MinorityIgnored
  <2> SUFFICES ASSUME MinutesInv PROVE MinorityIgnored
    OBVIOUS
  <2>1. minutes \in Seq(Minutes)
    BY DEF MinutesInv
  <2> DEFINE h == History(minutes)
  <2>2. h \in Seq(Measured)
    <3>1. h \in Seq(Minutes)
      BY HistoryOfMinutes
    <3> QED
      BY <3>1, MinutesMeasured
  <2>3. \A w \in Minutes \ {Quiet} : w \in Measured /\ w.requests > 0
    BY MinutesMeasured DEF Minutes, Window
  <2>4. \A current \in Currents \ {Quiet} : current.requests # 0
    BY DEF Currents
  <2> HIDE DEF h
  <2>5. \A w \in Minutes \ {Quiet} :
          2 * Cardinality(Alike(h, w)) > Cardinality(Busy(h)) =>
            \A current \in Currents \ {Quiet} :
              EvaluateRed(current, h) = EvaluateRed(current, Typical(h, w))
    BY <2>2, <2>3, <2>4, MinorityNeverCounts
  <2> QED
    BY <2>5 DEF MinorityIgnored, h
<1> QED
  BY <1>1, MinutesHolds, PTL

--------------------------------------------------------------------------------
(* IncidentRules: the anomalies that come and go.                              *)

SeenInv == seen \in SUBSET Anomalies /\ OneZ(seen)

LEMMA SeenHolds == RulesSpec => []SeenInv
<1>1. RulesInit => SeenInv
  BY DEF RulesInit, SeenInv, OneZ
<1>2. SeenInv /\ [RulesNext]_seen => SeenInv'
  <2> SUFFICES ASSUME SeenInv, [RulesNext]_seen PROVE SeenInv'
    OBVIOUS
  <2>1. CASE Appears
    BY <2>1 DEF Appears, SeenInv
  <2>2. CASE Clears
    BY <2>2 DEF Clears, SeenInv, OneZ
  <2>3. CASE Worsens
    BY <2>3 DEF Worsens, SeenInv, OneZ
  <2>4. CASE UNCHANGED seen
    BY <2>4 DEF SeenInv
  <2> QED
    BY <2>1, <2>2, <2>3, <2>4 DEF RulesNext
<1> QED
  BY <1>1, <1>2, PTL DEF RulesSpec

\* However many anomalies of a service come and grow, its severity never falls by
\* that (incident.py, evaluate_rules).
THEOREM WorseNeverMilderHolds == RulesSpec => WorseNeverMilder
<1> DEFINE Rank(as) == SeverityRank(SeverityOf(EvaluateRules(as)))
<1>1. ASSUME SeenInv, SeenInv', Appears \/ Worsens PROVE Rank(seen) <= Rank(seen')
  <2>1. \A c \in seen \cup seen' : c.z \in Int
    BY <1>1 DEF SeenInv, Anomalies
  <2>2. AsBad(seen, seen')
    <3>1. \A c \in seen : Abs(c.z) \in Int
      BY <2>1 DEF Abs
    <3>2. CASE Appears
      <4>1. seen \subseteq seen'
        BY <3>2 DEF Appears
      <4> QED
        BY <3>1, <4>1 DEF AsBad, SeveralAnomalies
    <3>3. CASE Worsens
      <4>1. PICK a \in seen, b \in Anomalies :
              /\ a.metric = b.metric /\ a.slot = b.slot /\ Abs(a.z) < Abs(b.z)
              /\ seen' = (seen \ {a}) \cup {b}
        BY <3>3 DEF Worsens
      <4>2. Abs(a.z) \in Int /\ Abs(b.z) \in Int
        BY <2>1, <3>1, <4>1 DEF Abs
      <4>3. b # a /\ b \notin seen
        BY <1>1, <4>1, <4>2 DEF SeenInv, OneZ
      <4>4. ASSUME NEW c \in seen
            PROVE  \E d \in seen' : c.metric = d.metric /\ Abs(c.z) <= Abs(d.z)
        BY <3>1, <4>1, <4>2
      <4>5. SeveralAnomalies(seen) => SeveralAnomalies(seen')
        BY <4>1, <4>3 DEF SeveralAnomalies
      <4> QED
        BY <4>4, <4>5 DEF AsBad
    <3> QED
      BY <1>1, <3>2, <3>3
  <2> QED
    BY <2>1, <2>2, AsBadAsSevere
<1>2. SeenInv /\ SeenInv' /\ [RulesNext]_seen
        => [Appears \/ Worsens => Rank(seen) <= Rank(seen')]_seen
  BY <1>1
<1> QED
  BY <1>2, SeenHolds, PTL DEF RulesSpec, WorseNeverMilder

--------------------------------------------------------------------------------
(* SpanBatch: counting up.                                                     *)

\* What holds of 0, and of a number if of the one before it, holds up to n.
LEMMA CountingUp ==
  ASSUME NEW n \in Nat, NEW P, 0 \in P, \A i \in 1..n : i - 1 \in P => i \in P
  PROVE  0..n \subseteq P
<1> DEFINE Less == OpToRel(<, Nat)
           Missing == (0..n) \ P
<1> SUFFICES ASSUME Missing # {} PROVE FALSE
  OBVIOUS
<1>1. \A x, y \in Nat : x < y => <<x, y>> \in Less
  BY DEF OpToRel
<1>2. IsWellFoundedOn(Less, Nat)
  BY NatLessThanWellFounded
<1>3. Missing \subseteq Nat
  OBVIOUS
<1> HIDE DEF Less, Missing
<1>4. PICK x \in Missing : \A y \in Missing : ~(<<y, x>> \in Less)
  BY <1>2, <1>3, WFMin
<1>5. x \in 1..n /\ x - 1 \in 0..n
  BY <1>4 DEF Missing
<1>6. x - 1 \notin Missing
  <2>1. x \in Nat /\ x - 1 \in Nat /\ x - 1 < x
    BY <1>5
  <2>2. <<x - 1, x>> \in Less
    BY <1>1, <2>1
  <2> QED
    BY <1>4, <2>2
<1> QED
  BY <1>4, <1>5, <1>6 DEF Missing

LEMMA GreatestUpTo ==
  ASSUME NEW n \in Nat, NEW s \in SUBSET (1..n), n \in s
  PROVE  Max(s) = n
<1>1. \A y \in s : n >= y
  OBVIOUS
<1> DEFINE x == Max(s)
<1>2. x \in s /\ x >= n
  BY <1>1 DEF Max
<1> HIDE DEF x
<1>3. x \in 1..n
  BY <1>2
<1> QED
  BY <1>2, <1>3 DEF x

--------------------------------------------------------------------------------
(* SpanBatch: one pass over the rows.  The folds are what is left after the    *)
(* last row, having started with nothing and taken one row after the other.    *)

\* The three passes; the pass over the calls knows the names that were found.
\* The codec passes over the entries it reads, knowing the fields of the message,
\* and over the fields of the messages it tries, knowing the table.
Take(pass, names, acc, row) ==
  IF pass = "services" THEN CountSpan(acc, row)
  ELSE IF pass = "names" THEN Enter(acc, row)
  ELSE IF pass = "entries" THEN Store(names, acc, row)
  ELSE IF pass = "samples" THEN Widened(names, acc, row)
  ELSE CountCall(names, acc, row)

\* What a pass starts with.
Begun(pass, names) ==
  IF pass = "entries" THEN Start(names) ELSE IF pass = "samples" THEN {<<>>} ELSE Nothing

\* What the community modules compute when they fold a pass over n rows.
Folded(it, pass, names, rs, n) ==
  it = [s \in SUBSET (1..n) |->
          IF s = {} THEN Begun(pass, names)
          ELSE Take(pass, names, it[s \ {Max(s)}], rs[Max(s)])]

\* What a pass has after each row.
Run(run, pass, names, rs, n) ==
  /\ run[0] = Begun(pass, names)
  /\ \A i \in 1..n : run[i] = Take(pass, names, run[i - 1], rs[i])

LEMMA FoldedExists ==
  ASSUME NEW n \in Nat, NEW pass, NEW names, NEW rs
  PROVE  \E it : Folded(it, pass, names, rs, n)
<1> DEFINE P == {m \in 0..n : \E it : Folded(it, pass, names, rs, m)}
<1>1. 0 \in P
  <2>1. SUBSET (1..0) = {{}}
    OBVIOUS
  <2>2. Folded([s \in {{}} |-> Begun(pass, names)], pass, names, rs, 0)
    BY <2>1 DEF Folded
  <2> QED
    BY <2>2
<1>2. ASSUME NEW m \in 1..n, m - 1 \in P PROVE m \in P
  <2>1. PICK old : Folded(old, pass, names, rs, m - 1)
    BY <1>2
  <2> DEFINE new == [s \in SUBSET (1..m) |->
                       IF m \in s THEN Take(pass, names, old[s \ {m}], rs[m]) ELSE old[s]]
  <2>2. ASSUME NEW s \in SUBSET (1..m)
        PROVE  new[s] = IF s = {} THEN Begun(pass, names)
                        ELSE Take(pass, names, new[s \ {Max(s)}], rs[Max(s)])
    <3>1. CASE m \in s
      <4>1. Max(s) = m
        BY <3>1, GreatestUpTo
      <4> QED
        BY <3>1, <4>1
    <3>2. CASE m \notin s
      <4>1. s \in SUBSET (1..(m - 1))
        BY <3>2
      <4>2. new[s] = old[s] /\ \A x : new[s \ {x}] = old[s \ {x}]
        BY <3>2
      <4> HIDE DEF new
      <4> QED
        BY <2>1, <4>1, <4>2 DEF Folded
    <3> QED
      BY <3>1, <3>2
  <2>3. new = [s \in SUBSET (1..m) |-> new[s]]
    OBVIOUS
  <2> HIDE DEF new
  <2>4. Folded(new, pass, names, rs, m)
    BY <2>2, <2>3 DEF Folded
  <2> QED
    BY <2>4
<1> HIDE DEF P
<1>3. n \in P
  BY <1>1, <1>2, CountingUp
<1> QED
  BY <1>3 DEF P

LEMMA FoldedRuns ==
  ASSUME NEW n \in Nat, NEW pass, NEW names, NEW rs, NEW it, Folded(it, pass, names, rs, n)
  PROVE  \E run : Run(run, pass, names, rs, n) /\ it[1..n] = run[n]
<1> DEFINE run == [i \in 0..n |-> it[1..i]]
<1>1. run[0] = Begun(pass, names)
  BY DEF Folded
<1>2. ASSUME NEW i \in 1..n PROVE run[i] = Take(pass, names, run[i - 1], rs[i])
  <2>1. 1..i \in SUBSET (1..n) /\ i \in 1..i /\ (1..i) \ {i} = 1..(i - 1)
    OBVIOUS
  <2>2. Max(1..i) = i
    BY <2>1, GreatestUpTo
  <2>3. it[1..i] = Take(pass, names, it[(1..i) \ {Max(1..i)}], rs[Max(1..i)])
    BY <2>1 DEF Folded
  <2>4. i - 1 \in 0..n /\ i \in 0..n
    OBVIOUS
  <2> QED
    BY <2>1, <2>2, <2>3, <2>4
<1>3. it[1..n] = run[n]
  OBVIOUS
<1> HIDE DEF run
<1>4. Run(run, pass, names, rs, n)
  BY <1>1, <1>2 DEF Run
<1> QED
  BY <1>3, <1>4

LEMMA AggregateSpansRuns ==
  ASSUME NEW n \in Nat, NEW rs, DOMAIN rs = 1..n
  PROVE  \E run : Run(run, "services", Nothing, rs, n) /\ AggregateSpans(rs) = run[n]
<1> DEFINE Folds(it) == it = [s \in SUBSET (1..n) |->
                                IF s = {} THEN Nothing
                                ELSE CountSpan(it[s \ {Max(s)}], rs[Max(s)])]
           it == CHOOSE it : Folds(it)
<1>1. AggregateSpans(rs) = it[1..n]
  BY DEF AggregateSpans, FoldLeft, MapThenFoldSet
<1>2. \A f : Folded(f, "services", Nothing, rs, n) <=> Folds(f)
  BY DEF Folded, Take, Begun
<1> HIDE DEF Folds
<1>3. Folded(it, "services", Nothing, rs, n)
  BY <1>2, FoldedExists
<1> HIDE DEF it
<1> QED
  BY <1>1, <1>3, FoldedRuns

LEMMA LookupRuns ==
  ASSUME NEW n \in Nat, NEW rs, DOMAIN rs = 1..n
  PROVE  \E run : Run(run, "names", Nothing, rs, n) /\ Lookup(rs) = run[n]
<1> DEFINE Folds(it) == it = [s \in SUBSET (1..n) |->
                                IF s = {} THEN Nothing
                                ELSE Enter(it[s \ {Max(s)}], rs[Max(s)])]
           it == CHOOSE it : Folds(it)
<1>1. Lookup(rs) = it[1..n]
  BY DEF Lookup, FoldLeft, MapThenFoldSet
<1>2. \A f : Folded(f, "names", Nothing, rs, n) <=> Folds(f)
  BY DEF Folded, Take, Begun
<1> HIDE DEF Folds
<1>3. Folded(it, "names", Nothing, rs, n)
  BY <1>2, FoldedExists
<1> HIDE DEF it
<1> QED
  BY <1>1, <1>3, FoldedRuns

LEMMA ExtractDependenciesRuns ==
  ASSUME NEW n \in Nat, NEW rs, DOMAIN rs = 1..n
  PROVE  \E run : /\ Run(run, "calls", Lookup(rs), rs, n)
                  /\ ExtractDependencies(rs) = run[n]
<1> DEFINE names == Lookup(rs)
           Folds(it) == it = [s \in SUBSET (1..n) |->
                                IF s = {} THEN Nothing
                                ELSE CountCall(names, it[s \ {Max(s)}], rs[Max(s)])]
           it == CHOOSE it : Folds(it)
<1>1. ExtractDependencies(rs) = it[1..n]
  BY DEF ExtractDependencies, FoldLeft, MapThenFoldSet
<1>2. \A f : Folded(f, "calls", names, rs, n) <=> Folds(f)
  BY DEF Folded, Take, Begun
<1> HIDE DEF Folds, names
<1>3. Folded(it, "calls", names, rs, n)
  BY <1>2, FoldedExists
<1> HIDE DEF it
<1>4. \E run : Run(run, "calls", names, rs, n) /\ it[1..n] = run[n]
  BY <1>3, FoldedRuns
<1> QED
  BY <1>1, <1>4 DEF names

\* Two runs over rows that begin alike have the same after each of those.
LEMMA RunsAgree ==
  ASSUME NEW n \in Nat, NEW pass, NEW names, NEW rs, NEW qs, \A i \in 1..n : rs[i] = qs[i],
         NEW f, Run(f, pass, names, rs, n), NEW g, Run(g, pass, names, qs, n)
  PROVE  \A i \in 0..n : f[i] = g[i]
<1> DEFINE P == {i \in 0..n : f[i] = g[i]}
<1>1. 0 \in P
  BY DEF Run
<1>2. ASSUME NEW i \in 1..n, i - 1 \in P PROVE i \in P
  BY <1>2 DEF Run
<1> HIDE DEF P
<1>3. 0..n \subseteq P
  BY <1>1, <1>2, CountingUp
<1> QED
  BY <1>3 DEF P

--------------------------------------------------------------------------------
(* SpanBatch: the batches of the collector.                                    *)

Row == [id : Nat \cup {NoName}, parent : Nat \cup {NoName},
        service : ServiceNames \cup {NoName}, start : Nat, error : BOOLEAN]

\* Spans with one id are one span, sent twice.
OneSpanPerId(rs) ==
  \A i, j \in DOMAIN rs : rs[i].id = rs[j].id /\ rs[i].id # NoName => rs[i] = rs[j]

RowsTyped == rows \in Seq(Row)

\* An id is the place where it was first used.
IdsInv ==
  /\ RowsTyped
  /\ \A i \in DOMAIN rows : rows[i].id \in 1..Len(rows) \cup {NoName}
  /\ OneSpanPerId(rows)

\* What arrives is a row whose id, if any, is new.
LEMMA ArrivesRow ==
  ASSUME MaxRows \in Nat, RowsTyped, Arrives
  PROVE  \E row \in Row : row.id \in {Len(rows) + 1, NoName} /\ rows' = Append(rows, row)
<1>1. PICK id \in {Len(rows) + 1, NoName}, parent \in Ids \cup {NoName},
           service \in ServiceNames \cup {NoName}, kind \in Kinds :
        rows' = Append(rows, [id |-> id, parent |-> parent, service |-> service,
                              start |-> kind.start, error |-> kind.error])
  BY DEF Arrives
<1> DEFINE row == [id |-> id, parent |-> parent, service |-> service,
                   start |-> kind.start, error |-> kind.error]
<1>2. Len(rows) \in Nat
  BY LenProperties DEF RowsTyped
<1>3. id \in Nat \cup {NoName} /\ parent \in Nat \cup {NoName}
  BY <1>2 DEF Ids
<1>4. kind.start \in Nat /\ kind.error \in BOOLEAN
  <2>1. kind \in [start : Nat, error : BOOLEAN]
    <3>1. Kinds \subseteq [start : Nat, error : BOOLEAN]
      BY DEF Kinds
    <3> QED
      BY <3>1, Zenon
  <2> QED
    BY <2>1
<1>5. row \in Row
  BY <1>3, <1>4 DEF Row
<1>6. row.id = id /\ rows' = Append(rows, row)
  BY <1>1
<1> HIDE DEF row
<1> QED
  BY <1>5, <1>6

LEMMA RowsTypedHolds == MaxRows \in Nat /\ RowsTyped /\ [SpansNext]_rows => RowsTyped'
<1> SUFFICES ASSUME MaxRows \in Nat, RowsTyped, [SpansNext]_rows PROVE RowsTyped'
  OBVIOUS
<1>1. CASE Arrives
  BY <1>1, ArrivesRow DEF RowsTyped
<1>2. CASE SentTwice
  <2>1. PICK i \in DOMAIN rows : rows' = Append(rows, rows[i])
    BY <1>2 DEF SentTwice
  <2>2. rows[i] \in Row
    BY <2>1, LenProperties DEF RowsTyped
  <2> QED
    BY <2>1, <2>2 DEF RowsTyped
<1>3. CASE Flushed
  BY <1>3 DEF Flushed, RowsTyped
<1>4. CASE UNCHANGED rows
  BY <1>4 DEF RowsTyped
<1> QED
  BY <1>1, <1>2, <1>3, <1>4 DEF SpansNext

LEMMA IdsStep ==
  NoName \notin Nat /\ MaxRows \in Nat /\ RowsTyped' /\ IdsInv /\ [SpansNext]_rows => IdsInv'
<1> SUFFICES ASSUME NoName \notin Nat, MaxRows \in Nat, RowsTyped', IdsInv, [SpansNext]_rows
             PROVE  IdsInv'
  OBVIOUS
<1> DEFINE n == Len(rows)
<1>1. n \in Nat /\ DOMAIN rows = 1..n
  BY LenProperties DEF IdsInv, RowsTyped
<1>2. ASSUME NEW row \in Row, rows' = Append(rows, row)
      PROVE  /\ DOMAIN rows' = 1..(n + 1) /\ Len(rows') = n + 1
             /\ \A i \in 1..n : rows'[i] = rows[i]
             /\ rows'[n + 1] = row
  <2>1. /\ Append(rows, row) \in Seq(Row)
        /\ Len(Append(rows, row)) = n + 1
        /\ \A i \in 1..n : Append(rows, row)[i] = rows[i]
        /\ Append(rows, row)[n + 1] = row
    BY AppendProperties DEF IdsInv, RowsTyped
  <2>2. DOMAIN Append(rows, row) = 1..(n + 1)
    BY <2>1, LenProperties
  <2> QED
    BY <1>2, <2>1, <2>2
<1>3. CASE Arrives
  <2>1. PICK row \in Row : row.id \in {n + 1, NoName} /\ rows' = Append(rows, row)
    BY <1>3, ArrivesRow DEF IdsInv
  <2>2. /\ DOMAIN rows' = 1..(n + 1) /\ Len(rows') = n + 1
        /\ \A i \in 1..n : rows'[i] = rows[i]
        /\ rows'[n + 1] = row
    BY <1>2, <2>1
  <2>3. \A i \in 1..n : rows[i].id \in 1..n \cup {NoName}
    BY <1>1 DEF IdsInv
  <2> HIDE DEF n
  <2>4. \A i \in 1..n : rows[i].id # row.id \/ row.id = NoName
    BY <1>1, <2>1, <2>3
  <2>5. OneSpanPerId(rows')
    BY <1>1, <2>2, <2>4 DEF IdsInv, OneSpanPerId
  <2>6. \A i \in DOMAIN rows' : rows'[i].id \in 1..(n + 1) \cup {NoName}
    BY <1>1, <2>1, <2>2, <2>3
  <2> QED
    BY <2>2, <2>5, <2>6 DEF IdsInv
<1>4. CASE SentTwice
  <2>1. PICK j \in DOMAIN rows : rows' = Append(rows, rows[j])
    BY <1>4 DEF SentTwice
  <2>2. /\ DOMAIN rows' = 1..(n + 1) /\ Len(rows') = n + 1
        /\ \A i \in 1..n : rows'[i] = rows[i]
        /\ rows'[n + 1] = rows[j]
    <3>1. rows[j] \in Row
      BY <2>1, LenProperties DEF IdsInv, RowsTyped
    <3> QED
      BY <1>2, <2>1, <3>1
  <2>3. \A i \in 1..(n + 1) : \E k \in 1..n : rows'[i] = rows[k]
    <3> HIDE DEF n
    <3>1. \A i \in 1..(n + 1) : i \in 1..n \/ i = n + 1
      BY <1>1
    <3> QED
      BY <1>1, <2>1, <2>2, <3>1
  <2>4. \A i \in 1..n : rows[i].id \in 1..n \cup {NoName}
    BY <1>1 DEF IdsInv
  <2> HIDE DEF n
  <2>5. ASSUME NEW i \in 1..(n + 1), NEW k \in 1..(n + 1),
               rows'[i].id = rows'[k].id, rows'[i].id # NoName
        PROVE  rows'[i] = rows'[k]
    <3>1. PICK x \in 1..n : rows'[i] = rows[x]
      BY <2>3
    <3>2. PICK y \in 1..n : rows'[k] = rows[y]
      BY <2>3
    <3>3. rows[x].id = rows[y].id /\ rows[x].id # NoName
      BY <2>5, <3>1, <3>2
    <3> QED
      BY <1>1, <3>1, <3>2, <3>3 DEF IdsInv, OneSpanPerId
  <2>6. OneSpanPerId(rows')
    BY <2>2, <2>5 DEF OneSpanPerId
  <2>7. ASSUME NEW i \in 1..(n + 1) PROVE rows'[i].id \in 1..(n + 1) \cup {NoName}
    <3>1. PICK x \in 1..n : rows'[i] = rows[x]
      BY <2>3
    <3>2. rows[x].id \in 1..n \cup {NoName}
      BY <2>4
    <3> QED
      BY <1>1, <3>1, <3>2
  <2>8. \A i \in DOMAIN rows' : rows'[i].id \in 1..(n + 1) \cup {NoName}
    BY <2>2, <2>7
  <2> QED
    BY <2>2, <2>6, <2>8 DEF IdsInv
<1>5. CASE Flushed
  BY <1>5 DEF Flushed, IdsInv, OneSpanPerId
<1>6. CASE UNCHANGED rows
  BY <1>6 DEF IdsInv, OneSpanPerId, RowsTyped
<1> QED
  BY <1>3, <1>4, <1>5, <1>6 DEF SpansNext

\* What the theorems assume: NoName is a value of its own.
Named == NoName \notin Nat /\ NoName \notin ServiceNames

THEOREM IdsInvariant ==
  ASSUME Named, MaxRows \in Nat PROVE SpansSpec => []IdsInv
<1>1. SpansInit => IdsInv
  BY DEF SpansInit, IdsInv, RowsTyped, OneSpanPerId
<1>2. IdsInv /\ [SpansNext]_rows => IdsInv'
  BY RowsTypedHolds, IdsStep DEF Named, IdsInv
<1> QED
  BY <1>1, <1>2, PTL DEF SpansSpec

--------------------------------------------------------------------------------
(* SpanBatch: the services table does not depend on the cuts.                  *)

Numbers == [requests : Nat, errors : Nat, first : Nat, last : Nat]

IsTally(x) == x = [k \in DOMAIN x |-> x[k]] /\ \A k \in DOMAIN x : x[k] \in Numbers

LEMMA FirstTyped == ASSUME NEW row \in Row PROVE First(row.start, row.error) \in Numbers
BY DEF Row, First, Numbers

\* It does not matter in which order numbers are merged.
LEMMA AddedAssociative ==
  ASSUME NEW x \in Numbers, NEW y \in Numbers, NEW z \in Numbers
  PROVE  /\ Added(x, y) \in Numbers
         /\ Added(x, Added(y, z)) = Added(Added(x, y), z)
<1>1. Added(x, y) \in Numbers /\ Added(y, z) \in Numbers
  BY DEF Added, Numbers
<1>2. \A a, b, c \in Nat : a + (b + c) = (a + b) + c
  OBVIOUS
<1> DEFINE Least(a, b) == IF b < a THEN b ELSE a
           Greatest(a, b) == IF b > a THEN b ELSE a
<1>3. \A a, b, c \in Nat : /\ Least(a, Least(b, c)) = Least(Least(a, b), c)
                           /\ Greatest(a, Greatest(b, c)) = Greatest(Greatest(a, b), c)
  OBVIOUS
<1>4. \A v, w : Added(v, w) = [requests |-> v.requests + w.requests,
                               errors |-> v.errors + w.errors,
                               first |-> Least(v.first, w.first),
                               last |-> Greatest(v.last, w.last)]
  BY DEF Added
<1>5. \A v \in {x, y, z} : v.requests \in Nat /\ v.errors \in Nat /\ v.first \in Nat /\ v.last \in Nat
  BY DEF Numbers
<1> HIDE DEF Least, Greatest
<1> QED
  BY <1>1, <1>2, <1>3, <1>4, <1>5

LEMMA TallyTyped ==
  ASSUME NEW x, IsTally(x), NEW key, NEW new \in Numbers
  PROVE  IsTally(Tally(x, key, new))
BY AddedAssociative DEF IsTally, Tally

\* Counting a row adds to a sum what it adds to its second part.
LEMMA SumOfTally ==
  ASSUME NEW x, IsTally(x), NEW y, IsTally(y), NEW key, NEW new \in Numbers
  PROVE  Sum2(x, Tally(y, key, new)) = Tally(Sum2(x, y), key, new)
<1> DEFINE u == Sum2(x, Tally(y, key, new))
           v == Tally(Sum2(x, y), key, new)
           D == DOMAIN x \cup DOMAIN y \cup {key}
<1>1. DOMAIN u = D /\ DOMAIN v = D
  BY DEF Sum2, Tally
<1>2. ASSUME NEW k \in D, k # key PROVE u[k] = v[k]
  BY <1>2 DEF Sum2, Tally
<1>3. u[key] = v[key]
  <2>1. CASE key \in DOMAIN x /\ key \in DOMAIN y
    <3>1. x[key] \in Numbers /\ y[key] \in Numbers
      BY <2>1 DEF IsTally
    <3>2. u[key] = Added(x[key], Added(y[key], new))
      BY <2>1 DEF Sum2, Tally
    <3>3. v[key] = Added(Added(x[key], y[key]), new)
      BY <2>1 DEF Sum2, Tally
    <3> QED
      BY <3>1, <3>2, <3>3, AddedAssociative
  <2>2. CASE ~(key \in DOMAIN x /\ key \in DOMAIN y)
    BY <2>2 DEF Sum2, Tally
  <2> QED
    BY <2>1, <2>2
<1>4. u = [k \in D |-> u[k]] /\ v = [k \in D |-> v[k]]
  BY DEF Sum2, Tally
<1> HIDE DEF u, v, D
<1> QED
  BY <1>2, <1>3, <1>4 DEF u, v

LEMMA CountRunTyped ==
  ASSUME NEW n \in Nat, NEW rs, \A i \in 1..n : rs[i] \in Row,
         NEW run, Run(run, "services", Nothing, rs, n)
  PROVE  \A i \in 0..n : IsTally(run[i])
<1> DEFINE P == {i \in 0..n : IsTally(run[i])}
<1>1. 0 \in P
  BY DEF Run, IsTally, Nothing, Begun
<1>2. ASSUME NEW i \in 1..n, i - 1 \in P PROVE i \in P
  <2>1. run[i] = CountSpan(run[i - 1], rs[i]) /\ rs[i] \in Row /\ IsTally(run[i - 1])
    BY <1>2 DEF Run, Take
  <2>2. IsTally(run[i])
    BY <2>1, TallyTyped, FirstTyped DEF CountSpan
  <2> QED
    BY <2>2
<1> HIDE DEF P
<1>3. 0..n \subseteq P
  BY <1>1, <1>2, CountingUp
<1> QED
  BY <1>3 DEF P

\* The rows before a cut and those after it.
LEMMA CutRows ==
  ASSUME RowsTyped, NEW k \in 0..Len(rows)
  PROVE  /\ DOMAIN Before(k) = 1..k
         /\ \A i \in 1..k : Before(k)[i] = rows[i]
         /\ DOMAIN After(k) = 1..(Len(rows) - k)
         /\ \A i \in 1..(Len(rows) - k) : After(k)[i] = rows[k + i]
<1> DEFINE n == Len(rows)
<1>1. n \in Nat /\ \A i \in 1..n : rows[i] \in Row
  BY LenProperties DEF RowsTyped
<1>2. /\ Before(k) \in Seq(Row) /\ Len(Before(k)) = k
      /\ \A i \in 1..k : Before(k)[i] = rows[i]
  <2>1. k \in Int /\ 1 \in Int /\ \A i \in 1..k : rows[i] \in Row
    BY <1>1
  <2>2. /\ Before(k) \in Seq(Row)
        /\ Len(Before(k)) = IF 1 <= k THEN k - 1 + 1 ELSE 0
        /\ \A i \in 1..(k - 1 + 1) : Before(k)[i] = rows[1 + i - 1]
    BY <2>1, SubSeqProperties DEF Before
  <2> QED
    BY <2>1, <2>2
<1>3. /\ After(k) \in Seq(Row) /\ Len(After(k)) = n - k
      /\ \A i \in 1..(n - k) : After(k)[i] = rows[k + i]
  <2>1. k + 1 \in Int /\ n \in Int /\ \A i \in (k + 1)..n : rows[i] \in Row
    BY <1>1
  <2>2. /\ After(k) \in Seq(Row)
        /\ Len(After(k)) = IF k + 1 <= n THEN n - (k + 1) + 1 ELSE 0
        /\ \A i \in 1..(n - (k + 1) + 1) : After(k)[i] = rows[(k + 1) + i - 1]
    BY <2>1, SubSeqProperties DEF After
  <2> QED
    BY <1>1, <2>1, <2>2
<1> QED
  BY <1>2, <1>3, LenProperties

\* Wherever the collector cuts the stream of spans into batches, the services
\* table ends up the same: for every stream of spans, not just the short ones.
THEOREM CutServicesHolds == ASSUME MaxRows \in Nat PROVE SpansSpec => []CutServices
<1>1. ASSUME RowsTyped, NEW k \in 0..Len(rows)
      PROVE  Sum2(AggregateSpans(Before(k)), AggregateSpans(After(k))) = AggregateSpans(rows)
  <2> DEFINE n == Len(rows)
             m == n - k
  <2>1. n \in Nat /\ DOMAIN rows = 1..n /\ \A i \in 1..n : rows[i] \in Row
    BY <1>1, LenProperties DEF RowsTyped
  <2>2. k \in 0..n /\ m \in Nat /\ k \in Nat /\ k + m = n
    BY <2>1
  <2> HIDE DEF n, m
  <2>3. PICK all : Run(all, "services", Nothing, rows, n) /\ AggregateSpans(rows) = all[n]
    BY <2>1, AggregateSpansRuns
  <2>4. /\ DOMAIN Before(k) = 1..k /\ \A i \in 1..k : Before(k)[i] = rows[i]
        /\ DOMAIN After(k) = 1..m /\ \A i \in 1..m : After(k)[i] = rows[k + i]
    BY <1>1, CutRows DEF n, m
  <2>5. PICK left : /\ Run(left, "services", Nothing, Before(k), k)
                    /\ AggregateSpans(Before(k)) = left[k]
    BY <2>2, <2>4, AggregateSpansRuns
  <2>6. PICK right : /\ Run(right, "services", Nothing, After(k), m)
                     /\ AggregateSpans(After(k)) = right[m]
    BY <2>2, <2>4, AggregateSpansRuns
  <2>7. left[k] = all[k]
    <3>1. Run(all, "services", Nothing, rows, k)
      BY <2>2, <2>3 DEF Run, Begun
    <3>2. k \in Nat /\ \A i \in 1..k : Before(k)[i] = rows[i]
      BY <2>2, <2>4
    <3>3. \A i \in 0..k : left[i] = all[i]
      BY <2>5, <3>1, <3>2, RunsAgree
    <3> QED
      BY <2>2, <3>3
  <2>8. IsTally(all[k]) /\ \A i \in 0..m : IsTally(right[i])
    <3>1. \A i \in 1..m : After(k)[i] \in Row
      BY <2>1, <2>2, <2>4
    <3> QED
      BY <2>1, <2>2, <2>3, <2>6, <3>1, CountRunTyped
  <2> DEFINE P == {i \in 0..m : Sum2(all[k], right[i]) = all[k + i]}
  <2>9. 0 \in P
    <3>1. right[0] = Nothing /\ k + 0 = k
      BY <2>2, <2>6 DEF Run, Begun
    <3>2. Sum2(all[k], Nothing) = all[k]
      BY <2>8 DEF Sum2, Nothing, IsTally
    <3> QED
      BY <2>2, <3>1, <3>2
  <2>10. ASSUME NEW i \in 1..m, i - 1 \in P PROVE i \in P
    <3>1. right[i] = CountSpan(right[i - 1], rows[k + i])
      BY <2>4, <2>6 DEF Run, Take
    <3>2. all[k + i] = CountSpan(all[k + (i - 1)], rows[k + i])
      <4>1. k + i \in 1..n /\ (k + i) - 1 = k + (i - 1)
        BY <2>2
      <4>2. all[k + i] = Take("services", Nothing, all[(k + i) - 1], rows[k + i])
        BY <2>3, <4>1 DEF Run
      <4> QED
        BY <4>1, <4>2 DEF Take
    <3>3. Sum2(all[k], right[i - 1]) = all[k + (i - 1)] /\ IsTally(right[i - 1])
      BY <2>8, <2>10
    <3>4. rows[k + i] \in Row
      BY <2>1, <2>2
    <3>5. Sum2(all[k], CountSpan(right[i - 1], rows[k + i]))
            = CountSpan(Sum2(all[k], right[i - 1]), rows[k + i])
      BY <2>8, <3>3, <3>4, SumOfTally, FirstTyped DEF CountSpan
    <3> QED
      BY <3>1, <3>2, <3>3, <3>5
  <2>11. m \in P
    <3> HIDE DEF P
    <3>1. 0..m \subseteq P
      BY <2>2, <2>9, <2>10, CountingUp
    <3> QED
      BY <2>2, <3>1
  <2> QED
    BY <2>2, <2>3, <2>5, <2>6, <2>7, <2>11
<1>2. RowsTyped => CutServices
  BY <1>1 DEF CutServices
<1>3. SpansInit => RowsTyped
  BY DEF SpansInit, RowsTyped
<1> QED
  BY <1>2, <1>3, RowsTypedHolds, PTL DEF SpansSpec

--------------------------------------------------------------------------------
(* SpanBatch: the dependency graph of a batch.                                 *)

\* The span of row i was called by that of row j, across the pair p of services.
Calls(rs, i, j, p) ==
  /\ rs[i].parent # NoName
  /\ rs[j].id = rs[i].parent
  /\ rs[j].service = p[1]
  /\ rs[i].service = p[2]

\* The calls across p among the first m rows, their callers anywhere in the n.
CallsOf(rs, n, m, p) == {i \in 1..m : \E j \in 1..n : Calls(rs, i, j, p)}

\* What an edge should hold of some calls.
Totalled(rs, calls) ==
  [requests |-> Cardinality(calls),
   errors |-> Cardinality({i \in calls : rs[i].error}),
   first |-> Min({rs[i].start : i \in calls}),
   last |-> Max({rs[i].start : i \in calls})]

\* A measure of some rows is least somewhere, and greatest somewhere.
LEMMA Extremes ==
  ASSUME NEW n \in Nat, NEW f \in [1..n -> Nat], NEW S \in SUBSET (1..n), S # {}
  PROVE  /\ \E x \in S : \A y \in S : f[x] <= f[y]
         /\ \E x \in S : \A y \in S : f[x] >= f[y]
<1> DEFINE Both(U) == /\ \E x \in U : \A y \in U : f[x] <= f[y]
                      /\ \E x \in U : \A y \in U : f[x] >= f[y]
           P == {m \in 0..n : \A U \in SUBSET (1..m) : U # {} => Both(U)}
<1>1. 0 \in P
  <2>1. \A U \in SUBSET (1..0) : U = {}
    OBVIOUS
  <2>2. ASSUME NEW U \in SUBSET (1..0), U # {} PROVE Both(U)
    BY <2>1, <2>2
  <2>3. 0 \in 0..n
    OBVIOUS
  <2> QED
    BY <2>2, <2>3, Zenon
<1>2. ASSUME NEW m \in 1..n, m - 1 \in P PROVE m \in P
  <2>1. ASSUME NEW U \in SUBSET (1..m), U # {} PROVE Both(U)
    <3> DEFINE R == U \ {m}
    <3>1. R \in SUBSET (1..(m - 1)) /\ \A y \in U : f[y] \in Nat
      OBVIOUS
    <3>2. CASE R = {}
      <4>1. U = {m}
        BY <2>1, <3>2
      <4> QED
        BY <3>1, <4>1
    <3>3. CASE R # {}
      <4>1. Both(R)
        BY <1>2, <3>1, <3>3
      <4>2. PICK a \in R : \A y \in R : f[a] <= f[y]
        BY <4>1
      <4>3. PICK b \in R : \A y \in R : f[b] >= f[y]
        BY <4>1
      <4>4. \A y \in U : y = m \/ y \in R
        OBVIOUS
      <4>5. a \in U /\ b \in U /\ R \subseteq U
        OBVIOUS
      <4> HIDE DEF R
      <4>6. CASE m \notin U
        BY <3>1, <4>2, <4>3, <4>4, <4>5, <4>6
      <4>7. CASE m \in U
        <5>1. \E x \in U : \A y \in U : f[x] <= f[y]
          <6>1. f[m] <= f[a] => \A y \in U : f[m] <= f[y]
            BY <3>1, <4>2, <4>4, <4>5, <4>7
          <6>2. ~(f[m] <= f[a]) => \A y \in U : f[a] <= f[y]
            BY <3>1, <4>2, <4>4, <4>5, <4>7
          <6> QED
            BY <4>5, <4>7, <6>1, <6>2, Zenon
        <5>2. \E x \in U : \A y \in U : f[x] >= f[y]
          <6>1. f[m] >= f[b] => \A y \in U : f[m] >= f[y]
            BY <3>1, <4>3, <4>4, <4>5, <4>7
          <6>2. ~(f[m] >= f[b]) => \A y \in U : f[b] >= f[y]
            BY <3>1, <4>3, <4>4, <4>5, <4>7
          <6> QED
            BY <4>5, <4>7, <6>1, <6>2, Zenon
        <5> QED
          BY <5>1, <5>2
      <4> QED
        BY <4>6, <4>7
    <3> QED
      BY <3>2, <3>3
  <2> HIDE DEF Both
  <2> QED
    BY <2>1
<1> HIDE DEF P
<1>3. 0..n \subseteq P
  BY <1>1, <1>2, CountingUp
<1>4. n \in P
  BY <1>3
<1> QED
  BY <1>4 DEF P

LEMMA MinMore ==
  ASSUME NEW T \in SUBSET Nat, NEW m \in T, \A y \in T : m <= y, NEW x \in Nat
  PROVE  /\ Min(T) = m
         /\ Min(T \cup {x}) = IF x < m THEN x ELSE m
<1>1. ASSUME NEW U \in SUBSET Nat, NEW w \in U, \A y \in U : w <= y PROVE Min(U) = w
  <2> DEFINE v == Min(U)
  <2>1. v \in U /\ v <= w
    BY <1>1 DEF Min
  <2> HIDE DEF v
  <2>2. v \in Nat /\ w \in Nat /\ w <= v
    BY <1>1, <2>1
  <2>3. v = w
    BY <2>1, <2>2
  <2> QED
    BY <2>3 DEF v
<1> DEFINE U == T \cup {x}
           w == IF x < m THEN x ELSE m
<1>2. U \in SUBSET Nat /\ w \in U /\ \A y \in U : w <= y
  OBVIOUS
<1> HIDE DEF U, w
<1>3. Min(U) = w
  BY <1>1, <1>2
<1> QED
  BY <1>1, <1>3 DEF U, w

LEMMA MaxMore ==
  ASSUME NEW T \in SUBSET Nat, NEW m \in T, \A y \in T : m >= y, NEW x \in Nat
  PROVE  /\ Max(T) = m
         /\ Max(T \cup {x}) = IF x > m THEN x ELSE m
<1>1. ASSUME NEW U \in SUBSET Nat, NEW w \in U, \A y \in U : w >= y PROVE Max(U) = w
  <2> DEFINE v == Max(U)
  <2>1. v \in U /\ v >= w
    BY <1>1 DEF Max
  <2> HIDE DEF v
  <2>2. v \in Nat /\ w \in Nat /\ w >= v
    BY <1>1, <2>1
  <2>3. v = w
    BY <2>1, <2>2
  <2> QED
    BY <2>3 DEF v
<1> DEFINE U == T \cup {x}
           w == IF x > m THEN x ELSE m
<1>2. U \in SUBSET Nat /\ w \in U /\ \A y \in U : w >= y
  OBVIOUS
<1> HIDE DEF U, w
<1>3. Max(U) = w
  BY <1>1, <1>2
<1> QED
  BY <1>1, <1>3 DEF U, w

\* One call more of an edge.
LEMMA OneCallMore ==
  ASSUME NEW n \in Nat, NEW rs, \A i \in 1..n : rs[i] \in Row,
         NEW calls \in SUBSET (1..n), NEW i \in 1..n, i \notin calls
  PROVE  Totalled(rs, calls \cup {i}) =
           IF calls = {} THEN First(rs[i].start, rs[i].error)
           ELSE Added(Totalled(rs, calls), First(rs[i].start, rs[i].error))
<1> DEFINE failed(c) == {x \in c : rs[x].error}
           starts(c) == {rs[x].start : x \in c}
           new == First(rs[i].start, rs[i].error)
<1>1. IsFiniteSet(calls) /\ IsFiniteSet(failed(calls))
  <2>1. IsFiniteSet(1..n)
    BY FS_Interval
  <2>2. IsFiniteSet(calls)
    BY <2>1, FS_Subset
  <2> QED
    BY <2>2, FS_Subset
<1>2. Cardinality(calls \cup {i}) = Cardinality(calls) + 1 /\ Cardinality(calls) \in Nat
  BY <1>1, FS_AddElement, FS_CardinalityType
<1>3. /\ new.requests = 1 /\ new.errors = (IF rs[i].error THEN 1 ELSE 0)
      /\ new.first = rs[i].start /\ new.last = rs[i].start
  BY DEF First
<1>4. /\ Cardinality(failed(calls \cup {i})) = Cardinality(failed(calls)) + new.errors
      /\ Cardinality(failed(calls)) \in Nat
  <2>1. Cardinality(failed(calls)) \in Nat
    BY <1>1, FS_CardinalityType
  <2>2. CASE rs[i].error
    <3>1. failed(calls \cup {i}) = failed(calls) \cup {i} /\ i \notin failed(calls)
      BY <2>2
    <3>2. new.errors = 1
      BY <1>3, <2>2
    <3> HIDE DEF failed, new
    <3>3. Cardinality(failed(calls) \cup {i}) = Cardinality(failed(calls)) + 1
      BY <1>1, <3>1, FS_AddElement
    <3> QED
      BY <2>1, <3>1, <3>2, <3>3
  <2>3. CASE ~rs[i].error
    <3>1. failed(calls \cup {i}) = failed(calls)
      BY <2>3
    <3>2. new.errors = 0
      BY <1>3, <2>3
    <3> HIDE DEF failed, new
    <3> QED
      BY <2>1, <3>1, <3>2
  <2> QED
    BY <2>2, <2>3
<1>5. starts(calls \cup {i}) = starts(calls) \cup {rs[i].start}
  OBVIOUS
<1>6. rs[i].start \in Nat /\ starts(calls) \in SUBSET Nat
  BY DEF Row
<1>7. CASE calls = {}
  <2>1. Cardinality(calls) = 0 /\ Cardinality(failed(calls)) = 0
    <3>1. failed(calls) = {}
      BY <1>7
    <3> QED
      BY <1>7, <3>1, FS_EmptySet
  <2>2. starts(calls \cup {i}) = {rs[i].start}
    BY <1>7
  <2>3. \A x \in Nat : Min({x}) = x /\ Max({x}) = x
    BY DEF Min, Max
  <2> QED
    BY <1>2, <1>3, <1>4, <1>6, <1>7, <2>1, <2>2, <2>3 DEF Totalled, First
<1>8. CASE calls # {}
  <2> DEFINE f == [x \in 1..n |-> rs[x].start]
  <2>1. f \in [1..n -> Nat]
    BY DEF Row
  <2>2. /\ \E x \in calls : \A y \in calls : f[x] <= f[y]
        /\ \E x \in calls : \A y \in calls : f[x] >= f[y]
    <3> HIDE DEF f
    <3> QED
      BY <1>8, <2>1, Extremes
  <2>3. PICK a \in starts(calls) : \A y \in starts(calls) : a <= y
    BY <2>2
  <2>4. PICK b \in starts(calls) : \A y \in starts(calls) : b >= y
    BY <2>2
  <2> HIDE DEF starts, f
  <2>5. /\ Min(starts(calls)) = a
        /\ Min(starts(calls) \cup {rs[i].start}) = IF rs[i].start < a THEN rs[i].start ELSE a
    BY <1>6, <2>3, MinMore
  <2>6. /\ Max(starts(calls)) = b
        /\ Max(starts(calls) \cup {rs[i].start}) = IF rs[i].start > b THEN rs[i].start ELSE b
    BY <1>6, <2>4, MaxMore
  <2>7. \A c : Totalled(rs, c) = [requests |-> Cardinality(c), errors |-> Cardinality(failed(c)),
                                  first |-> Min(starts(c)), last |-> Max(starts(c))]
    BY DEF Totalled, starts
  <2> HIDE DEF failed, new
  <2>8. Totalled(rs, calls \cup {i}) =
          [requests |-> Cardinality(calls) + 1,
           errors |-> Cardinality(failed(calls)) + new.errors,
           first |-> IF rs[i].start < a THEN rs[i].start ELSE a,
           last |-> IF rs[i].start > b THEN rs[i].start ELSE b]
    BY <1>2, <1>4, <1>5, <2>5, <2>6, <2>7
  <2>9. Added(Totalled(rs, calls), new) =
          [requests |-> Cardinality(calls) + 1,
           errors |-> Cardinality(failed(calls)) + new.errors,
           first |-> IF rs[i].start < a THEN rs[i].start ELSE a,
           last |-> IF rs[i].start > b THEN rs[i].start ELSE b]
    BY <1>3, <2>5, <2>6, <2>7 DEF Added
  <2> QED
    BY <1>8, <2>8, <2>9 DEF new
<1> QED
  BY <1>7, <1>8

\* The names that were found: those of the rows that have an id and a service.
Findable(row) == row.id # NoName /\ row.service # NoName

Finds(names, rs, m) ==
  /\ \A x : x \in DOMAIN names <=> \E j \in 1..m : Findable(rs[j]) /\ rs[j].id = x
  /\ \A j \in 1..m : Findable(rs[j]) => names[rs[j].id] = rs[j].service

\* Every span of the batch is found by its id, wherever it stands.
LEMMA LookupFinds ==
  ASSUME NEW n \in Nat, NEW rs, DOMAIN rs = 1..n, OneSpanPerId(rs)
  PROVE  Finds(Lookup(rs), rs, n)
<1>1. PICK run : Run(run, "names", Nothing, rs, n) /\ Lookup(rs) = run[n]
  BY LookupRuns
<1> DEFINE P == {m \in 0..n : Finds(run[m], rs, m)}
<1>2. 0 \in P
  BY <1>1 DEF Run, Finds, Nothing, Begun
<1>3. ASSUME NEW m \in 1..n, m - 1 \in P PROVE m \in P
  <2> DEFINE old == run[m - 1]
             row == rs[m]
  <2>1. Finds(old, rs, m - 1) /\ run[m] = Enter(old, row)
    BY <1>1, <1>3 DEF Run, Take
  <2>2. \A j \in 1..m : j = m \/ j \in 1..(m - 1)
    OBVIOUS
  <2>3. m \in 1..m /\ \A j \in 1..(m - 1) : j \in 1..m
    OBVIOUS
  <2>4. CASE ~Findable(row)
    <3>1. run[m] = old
      BY <2>1, <2>4 DEF Enter, Findable
    <3>2. Finds(old, rs, m)
      <4> HIDE DEF old
      <4> QED
        BY <2>1, <2>2, <2>3, <2>4 DEF Finds
    <3> QED
      BY <3>1, <3>2
  <2>5. CASE Findable(row)
    <3> DEFINE new == run[m]
    <3>1. new = [i \in DOMAIN old \cup {row.id} |-> IF i = row.id THEN row.service ELSE old[i]]
      BY <2>1, <2>5 DEF Enter, Findable
    <3>2. ASSUME NEW j \in 1..(m - 1), rs[j].id = row.id, Findable(rs[j])
          PROVE  rs[j].service = row.service
      <4>1. j \in DOMAIN rs /\ m \in DOMAIN rs
        OBVIOUS
      <4> QED
        BY <2>5, <3>2, <4>1 DEF OneSpanPerId, Findable
    <3> HIDE DEF new, old
    <3>3. \A x : x \in DOMAIN new <=> \E j \in 1..m : Findable(rs[j]) /\ rs[j].id = x
      BY <2>1, <2>2, <2>3, <2>5, <3>1 DEF Finds
    <3>4. ASSUME NEW j \in 1..m, Findable(rs[j]) PROVE new[rs[j].id] = rs[j].service
      <4>1. CASE j = m
        BY <3>1, <4>1
      <4>2. CASE j \in 1..(m - 1)
        <5>1. rs[j].id \in DOMAIN old /\ old[rs[j].id] = rs[j].service
          BY <2>1, <3>4, <4>2 DEF Finds
        <5> QED
          BY <3>1, <3>2, <3>4, <4>2, <5>1
      <4> QED
        BY <2>2, <4>1, <4>2
    <3>5. Finds(new, rs, m)
      BY <3>3, <3>4 DEF Finds
    <3> QED
      BY <3>5 DEF new
  <2> QED
    BY <2>4, <2>5
<1> HIDE DEF P
<1>4. 0..n \subseteq P
  BY <1>2, <1>3, CountingUp
<1>5. n \in P
  BY <1>4
<1> QED
  BY <1>1, <1>5 DEF P

\* What CountCall links is what a call is.
Linked(names, row) ==
  /\ row.service # NoName
  /\ row.parent \in DOMAIN names
  /\ names[row.parent] # row.service

LEMMA LinkedIsCalls ==
  ASSUME Named, NEW n \in Nat, NEW rs, \A i \in 1..n : rs[i] \in Row,
         NEW names, Finds(names, rs, n), NEW i \in 1..n
  PROVE  /\ Linked(names, rs[i]) => <<names[rs[i].parent], rs[i].service>> \in Pairs
         /\ \A p \in Pairs :
              (\E j \in 1..n : Calls(rs, i, j, p)) <=>
                Linked(names, rs[i]) /\ p = <<names[rs[i].parent], rs[i].service>>
<1> DEFINE pair == <<names[rs[i].parent], rs[i].service>>
<1>1. ASSUME Linked(names, rs[i])
      PROVE  pair \in Pairs /\ \E j \in 1..n : Calls(rs, i, j, pair)
  <2>1. PICK j \in 1..n : Findable(rs[j]) /\ rs[j].id = rs[i].parent
    BY <1>1 DEF Linked, Finds
  <2>2. names[rs[i].parent] = rs[j].service
    BY <2>1 DEF Finds
  <2>3. rs[j].service \in ServiceNames /\ rs[i].service \in ServiceNames
    <3>1. rs[j].service \in ServiceNames \cup {NoName} /\ rs[i].service \in ServiceNames \cup {NoName}
      BY DEF Row
    <3> QED
      BY <1>1, <2>1, <3>1 DEF Linked, Findable
  <2>4. pair[1] = rs[j].service /\ pair[2] = rs[i].service
    BY <2>2
  <2>5. pair \in Pairs
    BY <1>1, <2>2, <2>3 DEF Pairs, Linked
  <2>6. Calls(rs, i, j, pair)
    <3> HIDE DEF pair
    <3> QED
      BY <2>1, <2>4 DEF Calls, Findable
  <2> QED
    BY <2>5, <2>6
<1>2. ASSUME NEW p \in Pairs, NEW j \in 1..n, Calls(rs, i, j, p)
      PROVE  Linked(names, rs[i]) /\ p = pair
  <2>1. p[1] \in ServiceNames /\ p[2] \in ServiceNames /\ p[1] # p[2] /\ p = <<p[1], p[2]>>
    BY DEF Pairs
  <2>2. Findable(rs[j]) /\ rs[j].id = rs[i].parent
    BY <1>2, <2>1 DEF Calls, Findable, Named
  <2>3. rs[i].parent \in DOMAIN names /\ names[rs[i].parent] = p[1]
    BY <1>2, <2>2 DEF Finds, Calls
  <2>4. Linked(names, rs[i])
    BY <1>2, <2>1, <2>3 DEF Linked, Calls, Named
  <2> QED
    BY <1>2, <2>1, <2>3, <2>4 DEF Calls
<1> QED
  BY <1>1, <1>2

\* After m rows there is an edge for every pair with calls among them, and it
\* holds their totals.
EdgesAre(edges, rs, n, m) ==
  /\ edges = [p \in DOMAIN edges |-> edges[p]]
  /\ \A p : p \in DOMAIN edges <=> p \in Pairs /\ CallsOf(rs, n, m, p) # {}
  /\ \A p \in DOMAIN edges : edges[p] = Totalled(rs, CallsOf(rs, n, m, p))

\* One row more, and the edges are still those of the calls.
LEMMA EdgesOfOneRowMore ==
  ASSUME Named, NEW n \in Nat, NEW rs, \A i \in 1..n : rs[i] \in Row,
         NEW names, Finds(names, rs, n), NEW m \in 1..n,
         NEW old, EdgesAre(old, rs, n, m - 1)
  PROVE  EdgesAre(CountCall(names, old, rs[m]), rs, n, m)
<1> DEFINE before(p) == CallsOf(rs, n, m - 1, p)
           after(p) == CallsOf(rs, n, m, p)
           row == rs[m]
           pair == <<names[row.parent], row.service>>
           new == CountCall(names, old, row)
<1>1. \A p \in Pairs : /\ Linked(names, row) /\ p = pair => after(p) = before(p) \cup {m}
                       /\ ~(Linked(names, row) /\ p = pair) => after(p) = before(p)
  <2> SUFFICES ASSUME NEW p \in Pairs
               PROVE  /\ Linked(names, row) /\ p = pair => after(p) = before(p) \cup {m}
                      /\ ~(Linked(names, row) /\ p = pair) => after(p) = before(p)
    OBVIOUS
  <2>1. (\E j \in 1..n : Calls(rs, m, j, p)) <=> Linked(names, row) /\ p = pair
    BY LinkedIsCalls
  <2>2. 1..m = (1..(m - 1)) \cup {m}
    OBVIOUS
  <2>3. after(p) = before(p) \cup {i \in {m} : \E j \in 1..n : Calls(rs, i, j, p)}
    BY <2>2 DEF CallsOf
  <2> HIDE DEF after, before, pair, row
  <2> QED
    BY <2>1, <2>3
<1>2. \A p : before(p) \in SUBSET (1..n) /\ m \notin before(p)
  BY DEF CallsOf
<1>3. CASE ~Linked(names, row)
  <2>1. new = old
    BY <1>3 DEF CountCall, Linked
  <2>2. \A p \in Pairs : after(p) = before(p)
    BY <1>1, <1>3
  <2> HIDE DEF new
  <2>3. EdgesAre(old, rs, n, m)
    BY <2>2 DEF EdgesAre
  <2> QED
    BY <2>1, <2>3 DEF new
<1>4. CASE Linked(names, row)
  <2> DEFINE first == First(row.start, row.error)
  <2>1. new = Tally(old, pair, first)
    BY <1>4 DEF CountCall, Linked
  <2>2. pair \in Pairs
    BY <1>4, LinkedIsCalls
  <2>3. /\ after(pair) = before(pair) \cup {m}
        /\ \A p \in Pairs : p # pair => after(p) = before(p)
    BY <1>1, <1>4, <2>2
  <2>4. Totalled(rs, after(pair)) =
          IF before(pair) = {} THEN first ELSE Added(Totalled(rs, before(pair)), first)
    <3> HIDE DEF before, after, pair
    <3> QED
      BY <1>2, <2>3, OneCallMore
  <2> HIDE DEF before, after, pair, first, new
  <2>5. /\ \A p : p \in DOMAIN old <=> p \in Pairs /\ before(p) # {}
        /\ \A p \in DOMAIN old : old[p] = Totalled(rs, before(p))
    BY DEF EdgesAre, before
  <2>6. /\ DOMAIN new = DOMAIN old \cup {pair}
        /\ new = [p \in DOMAIN new |-> new[p]]
        /\ \A p \in DOMAIN new : p # pair => new[p] = old[p]
        /\ new[pair] = IF pair \in DOMAIN old THEN Added(old[pair], first) ELSE first
    BY <2>1 DEF Tally
  <2>7. \A p : p \in DOMAIN new <=> p \in Pairs /\ after(p) # {}
    BY <2>2, <2>3, <2>5, <2>6
  <2>8. \A p \in DOMAIN new : new[p] = Totalled(rs, after(p))
    <3>1. new[pair] = Totalled(rs, after(pair))
      BY <2>2, <2>4, <2>5, <2>6
    <3>2. ASSUME NEW p \in DOMAIN new, p # pair PROVE new[p] = Totalled(rs, after(p))
      BY <2>3, <2>5, <2>6, <3>2
    <3> QED
      BY <3>1, <3>2
  <2> QED
    BY <2>6, <2>7, <2>8 DEF EdgesAre, after, new
<1> QED
  BY <1>3, <1>4

\* The edges of a batch are its calls, whichever batch it is: in whatever order
\* its spans stand, whatever is missing in them, and if some are sent twice.
THEOREM EdgesAreCalls ==
  ASSUME Named, NEW n \in Nat, NEW rs, DOMAIN rs = 1..n, \A i \in 1..n : rs[i] \in Row,
         OneSpanPerId(rs)
  PROVE  EdgesAre(ExtractDependencies(rs), rs, n, n)
<1> DEFINE names == Lookup(rs)
<1>1. Finds(names, rs, n)
  BY LookupFinds
<1>2. PICK run : Run(run, "calls", names, rs, n) /\ ExtractDependencies(rs) = run[n]
  BY ExtractDependenciesRuns
<1> HIDE DEF names
<1> DEFINE P == {m \in 0..n : EdgesAre(run[m], rs, n, m)}
<1>3. 0 \in P
  <2>1. \A p : CallsOf(rs, n, 0, p) = {}
    BY DEF CallsOf
  <2>2. EdgesAre(Nothing, rs, n, 0)
    BY <2>1 DEF EdgesAre, Nothing
  <2> QED
    BY <1>2, <2>2 DEF Run, Begun
<1>4. ASSUME NEW m \in 1..n, m - 1 \in P PROVE m \in P
  <2>1. EdgesAre(run[m - 1], rs, n, m - 1)
    BY <1>4
  <2>2. EdgesAre(CountCall(names, run[m - 1], rs[m]), rs, n, m)
    BY <1>1, <2>1, EdgesOfOneRowMore
  <2>3. run[m] = CountCall(names, run[m - 1], rs[m])
    BY <1>2 DEF Run, Take
  <2> QED
    BY <2>2, <2>3
<1> HIDE DEF P
<1>5. 0..n \subseteq P
  BY <1>3, <1>4, CountingUp
<1>6. n \in P
  BY <1>5
<1> QED
  BY <1>2, <1>6 DEF P

\* For every stream of spans, the edges extracted from what the collector sends
\* are exactly the calls between two services in it, each counted once per child
\* span (graph.py, steps 1 to 3 of its algorithm).
THEOREM GraphByCallsHolds ==
  ASSUME Named, MaxRows \in Nat PROVE SpansSpec => []GraphByCalls
<1>1. IdsInv => GraphByCalls
  <2> SUFFICES ASSUME IdsInv PROVE GraphByCalls
    OBVIOUS
  <2> DEFINE n == Len(rows)
             edges == ExtractDependencies(rows)
  <2>1. n \in Nat /\ DOMAIN rows = 1..n /\ \A i \in 1..n : rows[i] \in Row
    BY LenProperties DEF IdsInv, RowsTyped
  <2>2. OneSpanPerId(rows)
    BY DEF IdsInv
  <2> HIDE DEF n
  <2>3. EdgesAre(edges, rows, n, n)
    BY <2>1, <2>2, EdgesAreCalls
  <2>4. \A p : CallRows(p[1], p[2]) = CallsOf(rows, n, n, p)
    BY <2>1 DEF CallRows, CallsOf, IsCall, Calls
  <2> HIDE DEF edges
  <2>5. DOMAIN edges = {p \in Pairs : CallRows(p[1], p[2]) # {}}
    BY <2>3, <2>4 DEF EdgesAre
  <2>6. \A p \in DOMAIN edges : edges[p] = Totalled(rows, CallRows(p[1], p[2]))
    BY <2>3, <2>4 DEF EdgesAre
  <2> QED
    BY <2>5, <2>6 DEF GraphByCalls, Totalled, edges
<1> QED
  BY <1>1, IdsInvariant, PTL

--------------------------------------------------------------------------------
(* SpanBatch: what a cut loses.                                                *)

LEMMA RequestsAreCalls ==
  ASSUME NEW n \in Nat, NEW rs, NEW edges, EdgesAre(edges, rs, n, n), NEW p \in Pairs
  PROVE  RequestsOf(edges, p) = Cardinality(CallsOf(rs, n, n, p))
<1>1. CASE p \in DOMAIN edges
  <2>1. edges[p] = Totalled(rs, CallsOf(rs, n, n, p))
    BY <1>1 DEF EdgesAre
  <2>2. \A c : Totalled(rs, c).requests = Cardinality(c)
    BY DEF Totalled
  <2> QED
    BY <1>1, <2>1, <2>2 DEF RequestsOf
<1>2. CASE p \notin DOMAIN edges
  <2>1. CallsOf(rs, n, n, p) = {}
    BY <1>2 DEF EdgesAre
  <2> QED
    BY <1>2, <2>1, FS_EmptySet DEF RequestsOf
<1> QED
  BY <1>1, <1>2

\* Counting rows from another start does not change how many they are.
LEMMA ShiftedCount ==
  ASSUME NEW k \in Nat, NEW S \in SUBSET Nat, IsFiniteSet(S),
         NEW T, \A i \in S : k + i \in T, \A t \in T : \E i \in S : t = k + i
  PROVE  IsFiniteSet(T) /\ Cardinality(T) = Cardinality(S)
<1> DEFINE f == [i \in S |-> k + i]
<1>1. f \in [S -> T] /\ \A x, y \in S : f[x] = f[y] => x = y
  OBVIOUS
<1>2. \A t \in T : \E x \in S : f[x] = t
  OBVIOUS
<1> HIDE DEF f
<1>3. f \in Bijection(S, T)
  BY <1>1, <1>2 DEF Bijection, Injection, Surjection, IsInjective
<1>4. ExistsBijection(S, T)
  BY <1>3 DEF ExistsBijection
<1> QED
  BY <1>4, FS_Bijection

\* A cut loses exactly the calls whose parent is on its other side only, and
\* makes up no edge: for every stream of spans and every place of the cut
\* (graph.py, "Only intra-batch cross-service links are detected").
THEOREM CutDependenciesHolds ==
  ASSUME Named, MaxRows \in Nat PROVE SpansSpec => []CutDependencies
<1>1. ASSUME IdsInv, NEW k \in 0..Len(rows), NEW p \in Pairs
      PROVE  LET SameSide(i, j) == (i <= k) = (j <= k)
                 kept == {i \in DOMAIN rows :
                            \E j \in DOMAIN rows : SameSide(i, j) /\ IsCall(i, j, p[1], p[2])}
             IN  /\ RequestsOf(ExtractDependencies(Before(k)), p)
                      + RequestsOf(ExtractDependencies(After(k)), p) = Cardinality(kept)
                 /\ RequestsOf(ExtractDependencies(rows), p) - Cardinality(kept)
                      = Cardinality(CallRows(p[1], p[2]) \ kept)
  <2> DEFINE n == Len(rows)
             m == n - k
             SameSide(i, j) == (i <= k) = (j <= k)
             kept == {i \in DOMAIN rows :
                        \E j \in DOMAIN rows : SameSide(i, j) /\ IsCall(i, j, p[1], p[2])}
             all == CallRows(p[1], p[2])
             left == CallsOf(Before(k), k, k, p)
             right == CallsOf(After(k), m, m, p)
             shifted == {k + i : i \in right}
  <2>1. /\ n \in Nat /\ k \in 0..n /\ k \in Nat /\ m \in Nat /\ m = n - k
        /\ DOMAIN rows = 1..n /\ \A i \in 1..n : rows[i] \in Row
        /\ OneSpanPerId(rows)
    BY <1>1, LenProperties DEF IdsInv, RowsTyped
  <2>2. /\ DOMAIN Before(k) = 1..k /\ \A i \in 1..k : Before(k)[i] = rows[i]
        /\ DOMAIN After(k) = 1..m /\ \A i \in 1..m : After(k)[i] = rows[k + i]
    BY <1>1, CutRows DEF IdsInv
  <2> HIDE DEF n, m
  <2>3. \A i, j \in 1..n : IsCall(i, j, p[1], p[2]) <=> Calls(rows, i, j, p)
    BY DEF IsCall, Calls
  <2>4. /\ \A i \in 1..k : i \in 1..n
        /\ \A i \in 1..m : k + i \in 1..n
        /\ \A i \in 1..n : i \in 1..k \/ \E x \in 1..m : i = k + x
    <3>1. ASSUME NEW i \in 1..n, i \notin 1..k PROVE \E x \in 1..m : i = k + x
      <4>1. i - k \in 1..m /\ i = k + (i - k)
        BY <2>1, <3>1
      <4> QED
        BY <4>1
    <3> QED
      BY <2>1, <3>1
  <2>5. RequestsOf(ExtractDependencies(rows), p) = Cardinality(all)
    <3>1. EdgesAre(ExtractDependencies(rows), rows, n, n)
      BY <1>1, <2>1, EdgesAreCalls
    <3>2. all = CallsOf(rows, n, n, p)
      BY <2>1, <2>3 DEF CallRows, CallsOf
    <3> QED
      BY <2>1, <3>1, <3>2, RequestsAreCalls
  <2>6. RequestsOf(ExtractDependencies(Before(k)), p) = Cardinality(left)
    <3>1. OneSpanPerId(Before(k)) /\ \A i \in 1..k : Before(k)[i] \in Row
      BY <2>1, <2>2, <2>4 DEF OneSpanPerId
    <3>2. EdgesAre(ExtractDependencies(Before(k)), Before(k), k, k)
      BY <1>1, <2>1, <2>2, <3>1, EdgesAreCalls
    <3> QED
      BY <2>1, <3>2, RequestsAreCalls
  <2>7. RequestsOf(ExtractDependencies(After(k)), p) = Cardinality(right)
    <3>1. ASSUME NEW i \in 1..m, NEW j \in 1..m, After(k)[i].id = After(k)[j].id,
                 After(k)[i].id # NoName
          PROVE  After(k)[i] = After(k)[j]
      <4>1. k + i \in DOMAIN rows /\ k + j \in DOMAIN rows
        BY <2>1, <2>4
      <4>2. After(k)[i] = rows[k + i] /\ After(k)[j] = rows[k + j]
        BY <2>2
      <4> QED
        BY <2>1, <3>1, <4>1, <4>2 DEF OneSpanPerId
    <3>2. OneSpanPerId(After(k)) /\ \A i \in 1..m : After(k)[i] \in Row
      BY <2>1, <2>2, <2>4, <3>1 DEF OneSpanPerId
    <3>3. EdgesAre(ExtractDependencies(After(k)), After(k), m, m)
      BY <1>1, <2>1, <2>2, <3>2, EdgesAreCalls
    <3> QED
      BY <2>1, <3>3, RequestsAreCalls
  <2>8. left = {i \in 1..k : \E j \in 1..k : Calls(rows, i, j, p)}
    BY <2>2 DEF CallsOf, Calls
  <2>9. right = {i \in 1..m : \E j \in 1..m : Calls(rows, k + i, k + j, p)}
    BY <2>2 DEF CallsOf, Calls
  <2> HIDE DEF left, right
  <2>10. IsFiniteSet(left) /\ IsFiniteSet(right) /\ right \in SUBSET Nat /\ IsFiniteSet(all)
    <3>1. left \subseteq 1..k /\ right \subseteq 1..m /\ all \subseteq 1..n
      BY <2>1, <2>8, <2>9 DEF CallRows
    <3>2. IsFiniteSet(1..k) /\ IsFiniteSet(1..m) /\ IsFiniteSet(1..n)
      BY <2>1, FS_Interval
    <3>3. right \in SUBSET Nat
      BY <2>9
    <3> HIDE DEF all
    <3>4. IsFiniteSet(left) /\ IsFiniteSet(right) /\ IsFiniteSet(all)
      BY <3>1, <3>2, FS_Subset
    <3> QED
      BY <3>3, <3>4
  <2>11. IsFiniteSet(shifted) /\ Cardinality(shifted) = Cardinality(right)
    <3>1. (\A i \in right : k + i \in shifted) /\ \A t \in shifted : \E i \in right : t = k + i
      OBVIOUS
    <3> HIDE DEF shifted
    <3> QED
      BY <2>1, <2>10, <3>1, ShiftedCount
  <2>12. kept = left \cup shifted
    <3>1. ASSUME NEW i \in kept PROVE i \in left \cup shifted
      <4>1. PICK j \in 1..n : SameSide(i, j) /\ Calls(rows, i, j, p)
        BY <2>1, <2>3, <3>1
      <4>2. i \in 1..n
        BY <2>1, <3>1
      <4>3. CASE i <= k
        <5>1. i \in 1..k /\ j \in 1..k
          BY <2>1, <4>1, <4>2, <4>3
        <5> QED
          BY <2>8, <4>1, <5>1
      <4>4. CASE ~(i <= k)
        <5>1. ~(j <= k)
          BY <4>1, <4>4
        <5>2. PICK x \in 1..m : i = k + x
          BY <2>1, <2>4, <4>2, <4>4
        <5>3. PICK y \in 1..m : j = k + y
          BY <2>1, <2>4, <5>1
        <5>4. x \in right
          BY <2>9, <4>1, <5>2, <5>3
        <5> QED
          BY <5>2, <5>4
      <4> QED
        BY <4>3, <4>4
    <3>2. ASSUME NEW i \in left PROVE i \in kept
      <4>1. i \in 1..k /\ \E j \in 1..k : Calls(rows, i, j, p)
        BY <2>8
      <4>2. PICK j \in 1..k : Calls(rows, i, j, p)
        BY <4>1
      <4>3. i \in 1..n /\ j \in 1..n /\ SameSide(i, j)
        BY <2>1, <2>4, <4>1
      <4> QED
        BY <2>1, <2>3, <4>2, <4>3
    <3>3. ASSUME NEW x \in right PROVE k + x \in kept
      <4>1. x \in 1..m /\ \E j \in 1..m : Calls(rows, k + x, k + j, p)
        BY <2>9
      <4>2. PICK y \in 1..m : Calls(rows, k + x, k + y, p)
        BY <4>1
      <4>3. k + x \in 1..n /\ k + y \in 1..n /\ SameSide(k + x, k + y)
        BY <2>1, <2>4, <4>1
      <4> QED
        BY <2>1, <2>3, <4>2, <4>3
    <3> QED
      BY <3>1, <3>2, <3>3
  <2>13. left \cap shifted = {}
    BY <2>1, <2>8, <2>9
  <2>14. kept \subseteq all
    BY DEF CallRows
  <2> HIDE DEF kept, all, shifted
  <2>15. IsFiniteSet(kept) /\ Cardinality(kept) = Cardinality(left) + Cardinality(right)
    <3>1. Cardinality(left \cap shifted) = 0
      BY <2>13, FS_EmptySet
    <3>2. Cardinality(left) \in Nat /\ Cardinality(shifted) \in Nat
      BY <2>10, <2>11, FS_CardinalityType
    <3>3. /\ IsFiniteSet(left \cup shifted)
          /\ Cardinality(left \cup shifted)
               = Cardinality(left) + Cardinality(shifted) - Cardinality(left \cap shifted)
      BY <2>10, <2>11, FS_Union
    <3> QED
      BY <2>11, <2>12, <3>1, <3>2, <3>3
  <2>16. Cardinality(all) - Cardinality(kept) = Cardinality(all \ kept)
    <3>1. IsFiniteSet(all \ kept) /\ (all \ kept) \cup kept = all /\ (all \ kept) \cap kept = {}
      BY <2>10, <2>14, FS_Subset
    <3>2. /\ Cardinality(all) = Cardinality(all \ kept) + Cardinality(kept) - Cardinality({})
          /\ Cardinality({}) = 0
      BY <2>15, <3>1, FS_Union, FS_EmptySet
    <3>3. Cardinality(all \ kept) \in Nat /\ Cardinality(kept) \in Nat
      BY <2>15, <3>1, FS_CardinalityType
    <3> QED
      BY <3>2, <3>3
  <2> QED
    BY <2>5, <2>6, <2>7, <2>15, <2>16 DEF kept, all
<1>2. IdsInv => CutDependencies
  BY <1>1 DEF CutDependencies
<1> QED
  BY <1>2, IdsInvariant, PTL

================================================================================
