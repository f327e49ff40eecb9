-------------------------- MODULE IncidentRulesProofs --------------------------
(***************************************************************************)
(* Proofs about the triage rules, for every set of anomalies: what a first *)
(* match is, when a severity is reached, and that it never falls as a      *)
(* service gets worse.                                                     *)
(***************************************************************************)
EXTENDS IncidentRules, FiniteSetTheorems, TLAPS

LEMMA RuleOrderFacts ==
  /\ DOMAIN RuleOrder = 1..6
  /\ RuleOrder[1] = "SERVICE_DOWN" /\ RuleOrder[2] = "LATENCY_SPIKE_CRITICAL"
  /\ RuleOrder[3] = "HIGH_ERROR_RATE" /\ RuleOrder[4] = "LATENCY_SPIKE_HIGH"
  /\ RuleOrder[5] = "MULTI_SIGNAL" /\ RuleOrder[6] = "SINGLE_ANOMALY"
BY DEF RuleOrder

\* SINGLE_ANOMALY catches what no other rule does, so some rule comes first.
LEMMA FirstMatchExists ==
  ASSUME NEW as, as # {}
  PROVE  \E i \in 1..6 : /\ Matches(RuleOrder[i], as)
                         /\ \A j \in 1..6 : j < i => ~Matches(RuleOrder[j], as)
<1> DEFINE M(i) == Matches(RuleOrder[i], as)
<1>1. M(6)
  BY RuleOrderFacts DEF Matches
<1> HIDE DEF M
<1>2. \E i \in 1..6 : M(i) /\ \A j \in 1..6 : j < i => ~M(j)
  <2>1. CASE M(1)
    BY <2>1
  <2>2. CASE ~M(1) /\ M(2)
    BY <2>2
  <2>3. CASE ~M(1) /\ ~M(2) /\ M(3)
    BY <2>3
  <2>4. CASE ~M(1) /\ ~M(2) /\ ~M(3) /\ M(4)
    BY <2>4
  <2>5. CASE ~M(1) /\ ~M(2) /\ ~M(3) /\ ~M(4) /\ M(5)
    BY <2>5
  <2>6. CASE ~M(1) /\ ~M(2) /\ ~M(3) /\ ~M(4) /\ ~M(5)
    BY <1>1, <2>6
  <2> QED
    BY <2>1, <2>2, <2>3, <2>4, <2>5, <2>6
<1> QED
  BY <1>2 DEF M

\* What evaluate_rules returns is the earliest rule that matches.
LEMMA EvaluateRulesIsFirst ==
  ASSUME NEW as, as # {}
  PROVE  \E i \in 1..6 : /\ EvaluateRules(as) = RuleOrder[i]
                         /\ Matches(RuleOrder[i], as)
                         /\ \A j \in 1..6 : j < i => ~Matches(RuleOrder[j], as)
<1> DEFINE P(i) == /\ Matches(RuleOrder[i], as)
                   /\ \A j \in 1..6 : j < i => ~Matches(RuleOrder[j], as)
           first == CHOOSE i \in 1..6 : P(i)
<1>1. \E i \in 1..6 : P(i)
  BY FirstMatchExists
<1>2. first \in 1..6 /\ P(first)
  <2> HIDE DEF P
  <2> QED BY <1>1
<1>3. EvaluateRules(as) = RuleOrder[first]
  BY RuleOrderFacts DEF EvaluateRules, FirstMatch
<1> QED
  BY <1>2, <1>3

LEMMA EvaluateRulesType ==
  ASSUME NEW as
  PROVE  /\ EvaluateRules(as) \in Rules \cup {"none"}
         /\ EvaluateRules(as) = "none" <=> as = {}
<1>1. CASE as = {}
  BY <1>1 DEF EvaluateRules
<1>2. CASE as # {}
  <2>1. PICK i \in 1..6 : EvaluateRules(as) = RuleOrder[i]
    BY <1>2, EvaluateRulesIsFirst
  <2>2. RuleOrder[i] \in Rules
    BY RuleOrderFacts DEF Rules
  <2> QED
    BY <1>2, <2>1, <2>2 DEF Rules
<1> QED
  BY <1>1, <1>2

\* A service is critical exactly when an error or latency anomaly reaches
\* |z| >= 8: the severe rules come first in the code, so no milder rule of
\* another signal hides them.
THEOREM CriticalIff ==
  ASSUME NEW as
  PROVE  SeverityOf(EvaluateRules(as)) = "critical" <=>
           \E a \in as : /\ IsErrorMetric(a.metric) \/ IsLatencyMetric(a.metric)
                         /\ Abs(a.z) >= 8
<1>1. CASE as = {}
  BY <1>1 DEF EvaluateRules, SeverityOf
<1>2. CASE as # {}
  <2>1. PICK i \in 1..6 : /\ EvaluateRules(as) = RuleOrder[i]
                          /\ Matches(RuleOrder[i], as)
                          /\ \A j \in 1..6 : j < i => ~Matches(RuleOrder[j], as)
    BY <1>2, EvaluateRulesIsFirst
  <2>2. SeverityOf(RuleOrder[i]) = "critical" <=> i \in {1, 2}
    BY RuleOrderFacts DEF SeverityOf
  <2>3. i \in {1, 2} <=> Matches(RuleOrder[1], as) \/ Matches(RuleOrder[2], as)
    <3>1. i \in {1, 2} => Matches(RuleOrder[1], as) \/ Matches(RuleOrder[2], as)
      BY <2>1
    <3>2. i \notin {1, 2} => 1 < i /\ 2 < i
      OBVIOUS
    <3>3. ASSUME i \notin {1, 2}
          PROVE  ~Matches(RuleOrder[1], as) /\ ~Matches(RuleOrder[2], as)
      <4>1. 1 \in 1..6 /\ 2 \in 1..6
        OBVIOUS
      <4> QED BY <2>1, <3>2, <3>3, <4>1, Zenon
    <3> QED
      BY <3>1, <3>3
  <2>4. Matches(RuleOrder[1], as) <=> \E a \in as : IsErrorMetric(a.metric) /\ Abs(a.z) >= 8
    BY RuleOrderFacts DEF Matches
  <2>5. Matches(RuleOrder[2], as) <=> \E a \in as : IsLatencyMetric(a.metric) /\ Abs(a.z) >= 8
    BY RuleOrderFacts DEF Matches
  <2> QED
    BY <2>1, <2>2, <2>3, <2>4, <2>5
<1> QED
  BY <1>1, <1>2

\* A service is at least high exactly when an error or latency anomaly reaches
\* |z| >= 3 or it has two anomalies of any kind, duplicates included.
THEOREM AtLeastHighIff ==
  ASSUME NEW as, \A a \in as : a.z \in Int
  PROVE  SeverityOf(EvaluateRules(as)) \in {"critical", "high"} <=>
           \/ \E a \in as : /\ IsErrorMetric(a.metric) \/ IsLatencyMetric(a.metric)
                            /\ Abs(a.z) >= 3
           \/ SeveralAnomalies(as)
<1>1. CASE as = {}
  BY <1>1 DEF EvaluateRules, SeverityOf, SeveralAnomalies
<1>2. CASE as # {}
  <2> DEFINE M(k) == Matches(RuleOrder[k], as)
  <2>1. PICK i \in 1..6 : /\ EvaluateRules(as) = RuleOrder[i]
                          /\ M(i) /\ \A j \in 1..6 : j < i => ~M(j)
    BY <1>2, EvaluateRulesIsFirst
  <2>2. SeverityOf(RuleOrder[i]) \in {"critical", "high"} <=> i # 6
    BY RuleOrderFacts DEF SeverityOf
  <2> HIDE DEF M
  <2>3. i # 6 <=> M(1) \/ M(2) \/ M(3) \/ M(4) \/ M(5)
    BY <2>1
  <2> USE DEF M
  <2>4. /\ M(1) <=> \E a \in as : IsErrorMetric(a.metric) /\ Abs(a.z) >= 8
        /\ M(2) <=> \E a \in as : IsLatencyMetric(a.metric) /\ Abs(a.z) >= 8
        /\ M(3) <=> \E a \in as : IsErrorMetric(a.metric) /\ Abs(a.z) >= 3
        /\ M(4) <=> \E a \in as : IsLatencyMetric(a.metric) /\ Abs(a.z) >= 3
        /\ M(5) <=> SeveralAnomalies(as)
    BY RuleOrderFacts DEF Matches
  <2>5. \A a \in as : Abs(a.z) >= 8 => Abs(a.z) >= 3
    <3>1. \A z \in Int : Abs(z) >= 8 => Abs(z) >= 3
      BY DEF Abs
    <3> QED
      BY <3>1
  <2> HIDE DEF M
  <2>6. M(1) \/ M(2) \/ M(3) \/ M(4) <=>
          \E a \in as : /\ IsErrorMetric(a.metric) \/ IsLatencyMetric(a.metric)
                       /\ Abs(a.z) >= 3
    BY <2>4, <2>5, Zenon
  <2> QED
    BY <2>1, <2>2, <2>3, <2>4, <2>6
<1> QED
  BY <1>1, <1>2

\* bs is as bad as as: each anomaly of as is in bs too, as strong or stronger, and
\* bs has several if as has.
AsBad(as, bs) ==
  /\ \A a \in as : \E b \in bs : a.metric = b.metric /\ Abs(a.z) <= Abs(b.z)
  /\ SeveralAnomalies(as) => SeveralAnomalies(bs)

LEMMA SeverityRanks ==
  ASSUME NEW as
  PROVE  LET severity == SeverityOf(EvaluateRules(as))
         IN  /\ SeverityRank(severity) \in 0..3
             /\ SeverityRank(severity) = 3 <=> severity = "critical"
             /\ SeverityRank(severity) >= 2 <=> severity \in {"critical", "high"}
             /\ SeverityRank(severity) = 0 <=> as = {}
<1> DEFINE severity == SeverityOf(EvaluateRules(as))
<1>1. severity \in {"critical", "high", "medium", "none"}
  BY EvaluateRulesType DEF SeverityOf, Rules
<1>2. severity = "none" <=> as = {}
  BY EvaluateRulesType DEF SeverityOf, Rules
<1> HIDE DEF severity
<1> SUFFICES /\ SeverityRank(severity) \in 0..3
             /\ SeverityRank(severity) = 3 <=> severity = "critical"
             /\ SeverityRank(severity) >= 2 <=> severity \in {"critical", "high"}
             /\ SeverityRank(severity) = 0 <=> as = {}
  BY DEF severity
<1>3. /\ severity = "critical" => SeverityRank(severity) = 3
      /\ severity = "high" => SeverityRank(severity) = 2
      /\ severity = "medium" => SeverityRank(severity) = 1
      /\ severity = "none" => SeverityRank(severity) = 0
  BY DEF SeverityRank
<1> DEFINE rank == SeverityRank(severity)
<1>4. \/ severity = "critical" /\ rank = 3
      \/ severity = "high" /\ rank = 2
      \/ severity = "medium" /\ rank = 1
      \/ severity = "none" /\ rank = 0
  BY <1>1, <1>3
<1> HIDE DEF rank
<1>5. rank \in 0..3 /\ (rank = 3 <=> severity = "critical")
  BY <1>4
<1>6. rank >= 2 <=> severity \in {"critical", "high"}
  BY <1>4
<1>7. rank = 0 <=> as = {}
  <2>1. rank = 0 <=> severity = "none"
    BY <1>4
  <2> QED
    BY <1>2, <2>1
<1> QED
  BY <1>5, <1>6, <1>7 DEF rank

\* Of two sets of anomalies, finite or not, the one that is as bad as the other is
\* as severe: no rule of evaluate_rules hides a more severe one that comes after it.
THEOREM AsBadAsSevere ==
  ASSUME NEW as, NEW bs, \A c \in as \cup bs : c.z \in Int, AsBad(as, bs)
  PROVE  SeverityRank(SeverityOf(EvaluateRules(as))) <=
           SeverityRank(SeverityOf(EvaluateRules(bs)))
<1> DEFINE Reached(cs, z) == \E c \in cs : /\ IsErrorMetric(c.metric) \/ IsLatencyMetric(c.metric)
                                           /\ Abs(c.z) >= z
           Rank(cs) == SeverityRank(SeverityOf(EvaluateRules(cs)))
<1>1. \A c \in as \cup bs : Abs(c.z) \in Int
  <2>1. \A z \in Int : Abs(z) \in Int
    BY DEF Abs
  <2> QED
    BY <2>1
<1>2. ASSUME NEW z \in Int, Reached(as, z) PROVE Reached(bs, z)
  <2>1. PICK a \in as : /\ IsErrorMetric(a.metric) \/ IsLatencyMetric(a.metric)
                        /\ Abs(a.z) >= z
    BY <1>2
  <2>2. PICK b \in bs : a.metric = b.metric /\ Abs(a.z) <= Abs(b.z)
    BY <2>1 DEF AsBad
  <2>3. Abs(a.z) \in Int /\ Abs(b.z) \in Int
    BY <1>1
  <2>4. Abs(b.z) >= z
    BY <2>1, <2>2, <2>3
  <2> QED
    BY <2>1, <2>2, <2>4
<1>3. Rank(as) = 3 => Rank(bs) = 3
  <2>1. Reached(as, 8) => Reached(bs, 8)
    <3> HIDE DEF Reached
    <3>1. 8 \in Int
      OBVIOUS
    <3> QED
      BY <1>2, <3>1
  <2>2. (Rank(as) = 3 <=> Reached(as, 8)) /\ (Rank(bs) = 3 <=> Reached(bs, 8))
    BY CriticalIff, SeverityRanks
  <2> QED
    BY <2>1, <2>2
<1>4. Rank(as) >= 2 => Rank(bs) >= 2
  <2>1. Reached(as, 3) => Reached(bs, 3)
    <3> HIDE DEF Reached
    <3>1. 3 \in Int
      OBVIOUS
    <3> QED
      BY <1>2, <3>1
  <2>4. SeveralAnomalies(as) => SeveralAnomalies(bs)
    BY DEF AsBad
  <2>2. Rank(as) >= 2 <=> Reached(as, 3) \/ SeveralAnomalies(as)
    BY AtLeastHighIff, SeverityRanks
  <2>3. Rank(bs) >= 2 <=> Reached(bs, 3) \/ SeveralAnomalies(bs)
    BY AtLeastHighIff, SeverityRanks
  <2> QED
    BY <2>1, <2>2, <2>3, <2>4
<1>5. Rank(bs) = 0 => Rank(as) = 0
  BY SeverityRanks DEF AsBad
<1>6. Rank(as) \in 0..3 /\ Rank(bs) \in 0..3
  BY SeverityRanks
<1> HIDE DEF Rank
<1> DEFINE m == Rank(as)
           n == Rank(bs)
<1>7. /\ m \in 0..3 /\ n \in 0..3
      /\ m = 3 => n = 3
      /\ m >= 2 => n >= 2
      /\ n = 0 => m = 0
  BY <1>3, <1>4, <1>5, <1>6
<1> HIDE DEF m, n
<1>8. m <= n
  BY <1>7
<1> QED
  BY <1>8 DEF m, n, Rank

================================================================================
