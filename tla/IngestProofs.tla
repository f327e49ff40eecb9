----------------------------- MODULE IngestProofs -----------------------------
(***************************************************************************)
(* Proofs about ingestion: types; the rows a batch holds lie below those   *)
(* it still has to lock, so that along WaitsFor the wanted row grows and   *)
(* no set of batches can wait in a cycle; and the bookkeeping of what a    *)
(* batch has stored and counted.                                           *)
(***************************************************************************)
EXTENDS Ingest, FiniteSetTheorems, WellFoundedInduction, TLAPS

--------------------------------------------------------------------------------
(* Least and greatest elements.                                               *)

\* Every nonempty set of numbers has a least element.
LEMMA LeastExists ==
  ASSUME NEW T \in SUBSET Nat, T # {}
  PROVE  \E x \in T : \A y \in T : x <= y
<1> DEFINE Less == OpToRel(<, Nat)
<1>1. \A x, y \in Nat : x < y => <<x, y>> \in Less
  BY DEF OpToRel
<1>2. IsWellFoundedOn(Less, Nat)
  BY NatLessThanWellFounded
<1> HIDE DEF Less
<1>3. PICK x \in T : \A y \in T : ~(<<y, x>> \in Less)
  BY <1>2, WFMin
<1>4. ASSUME NEW y \in T PROVE x <= y
  <2>1. x \in Nat /\ y \in Nat
    OBVIOUS
  <2>2. ~(y < x)
    BY <1>1, <1>3, <2>1, Zenon
  <2> QED
    BY <2>1, <2>2
<1> QED
  BY <1>4

\* A measure on a nonempty finite set is greatest somewhere.
LEMMA GreatestExists ==
  ASSUME NEW S, IsFiniteSet(S), S # {}, NEW f \in [S -> Nat]
  PROVE  \E x \in S : \A y \in S : f[y] <= f[x]
<1> DEFINE HasTop(U) == \E x \in U : \A y \in U : f[y] <= f[x]
           Topless == {U \in SUBSET S : U # {} /\ ~HasTop(U)}
           Sizes == {Cardinality(U) : U \in Topless}
<1> SUFFICES ASSUME Topless # {} PROVE FALSE
  OBVIOUS
<1>1. \A U \in Topless : IsFiniteSet(U) /\ Cardinality(U) \in Nat
  BY FS_Subset, FS_CardinalityType
<1>2. PICK n \in Sizes : \A m \in Sizes : n <= m
  <2>1. Sizes \in SUBSET Nat /\ Sizes # {}
    BY <1>1
  <2> HIDE DEF Sizes
  <2> QED
    BY <2>1, LeastExists
<1>3. PICK U \in Topless : Cardinality(U) = n
  BY <1>2
<1>4. PICK x \in U : TRUE
  OBVIOUS
<1> DEFINE Rest == U \ {x}
<1>5. Cardinality(Rest) = Cardinality(U) - 1
  BY <1>1, FS_RemoveElement
<1>6. Rest \notin Topless
  <2> SUFFICES ASSUME Rest \in Topless PROVE FALSE
    OBVIOUS
  <2>1. n <= Cardinality(Rest)
    <3>1. Cardinality(Rest) \in Sizes
      OBVIOUS
    <3> HIDE DEF Sizes, Rest
    <3> QED
      BY <1>2, <3>1
  <2>2. Cardinality(U) \in Nat
    BY <1>1
  <2> HIDE DEF Sizes, Rest, Topless
  <2> QED
    BY <2>1, <2>2, <1>3, <1>5
<1>7. CASE Rest = {}
  <2>1. U = {x} /\ f[x] \in Nat
    BY <1>7
  <2> QED
    BY <2>1
<1>8. CASE HasTop(Rest)
  <2>1. PICK t \in Rest : \A y \in Rest : f[y] <= f[t]
    BY <1>8
  <2>2. f[x] \in Nat /\ f[t] \in Nat /\ \A y \in U : f[y] \in Nat
    OBVIOUS
  <2>3. \A y \in U : y = x \/ y \in Rest
    OBVIOUS
  <2>4. CASE f[x] <= f[t]
    <3>1. \A y \in U : f[y] <= f[t]
      BY <2>1, <2>3, <2>4
    <3> QED
      BY <3>1
  <2>5. CASE f[t] <= f[x]
    <3>1. \A y \in U : f[y] <= f[x]
      BY <2>1, <2>2, <2>3, <2>5
    <3> QED
      BY <3>1
  <2> QED
    BY <2>2, <2>4, <2>5
<1> QED
  BY <1>6, <1>7, <1>8

\* Induction over the subsets of a finite set: a family that holds the empty set,
\* and every set whose parts of one element less it holds, holds them all.
LEMMA SubsetInduction ==
  ASSUME NEW S, IsFiniteSet(S), NEW Family, {} \in Family,
         \A T \in SUBSET S : T # {} /\ (\A x \in T : T \ {x} \in Family) => T \in Family
  PROVE  SUBSET S \subseteq Family
<1> DEFINE Outside == {T \in SUBSET S : T \notin Family}
           Sizes == {Cardinality(T) : T \in Outside}
<1> SUFFICES ASSUME Outside # {} PROVE FALSE
  OBVIOUS
<1>1. \A T \in Outside : IsFiniteSet(T) /\ Cardinality(T) \in Nat
  BY FS_Subset, FS_CardinalityType
<1>2. PICK n \in Sizes : \A m \in Sizes : n <= m
  <2>1. Sizes \in SUBSET Nat /\ Sizes # {}
    BY <1>1
  <2> HIDE DEF Sizes
  <2> QED
    BY <2>1, LeastExists
<1>3. PICK T \in Outside : Cardinality(T) = n
  BY <1>2
<1>4. PICK x \in T : T \ {x} \in Outside
  OBVIOUS
<1> DEFINE Rest == T \ {x}
<1>5. Cardinality(Rest) = Cardinality(T) - 1
  BY <1>1, FS_RemoveElement
<1>6. n <= Cardinality(Rest)
  <2>1. Cardinality(Rest) \in Sizes
    BY <1>4
  <2> HIDE DEF Sizes, Rest
  <2> QED
    BY <1>2, <2>1
<1>7. Cardinality(T) \in Nat
  BY <1>1
<1> HIDE DEF Sizes, Rest, Outside
<1> QED
  BY <1>3, <1>5, <1>6, <1>7

--------------------------------------------------------------------------------
(* Sums.                                                                      *)

\* total[s] is the sum of f over s, for every part s of S.
Totals(total, f, S) ==
  /\ total \in [SUBSET S -> Int]
  /\ total[{}] = 0
  /\ \A s \in SUBSET S : \A x \in s : total[s] = f[x] + total[s \ {x}]

LEMMA TotalsExist ==
  ASSUME NEW S, IsFiniteSet(S), NEW f, \A x \in S : f[x] \in Int
  PROVE  \E total : Totals(total, f, S)
<1> DEFINE Summed == {T \in SUBSET S : \E total : Totals(total, f, T)}
<1>1. {} \in Summed
  <2>1. Totals([s \in {{}} |-> 0], f, {})
    BY DEF Totals
  <2> QED
    BY <2>1
<1>2. ASSUME NEW T \in SUBSET S, NEW b \in T, T \ {b} \in Summed
      PROVE  T \in Summed
  <2> DEFINE R == T \ {b}
  <2>1. PICK old : Totals(old, f, R)
    BY <1>2
  <2> DEFINE new == [s \in SUBSET T |-> IF b \in s THEN f[b] + old[s \ {b}] ELSE old[s]]
  <2>2. \A s \in SUBSET T : s \ {b} \in SUBSET R /\ (b \notin s => s \in SUBSET R)
    OBVIOUS
  <2>3. new \in [SUBSET T -> Int]
    <3>1. f[b] \in Int
      OBVIOUS
    <3> HIDE DEF R
    <3> QED
    BY <2>1, <2>2, <3>1 DEF Totals
  <2>4. new[{}] = 0
    BY <2>1 DEF Totals
  <2>5. ASSUME NEW s \in SUBSET T, NEW x \in s PROVE new[s] = f[x] + new[s \ {x}]
    <3>1. CASE x = b
      BY <3>1
    <3>2. CASE x # b /\ b \notin s
      <4>1. s \in SUBSET R /\ s \ {x} \in SUBSET T /\ b \notin s \ {x}
        BY <3>2
      <4>2. old[s] = f[x] + old[s \ {x}]
        BY <2>1, <4>1 DEF Totals
      <4> QED
        BY <3>2, <4>1, <4>2
    <3>3. CASE x # b /\ b \in s
      <4>1. /\ s \ {b} \in SUBSET R /\ x \in s \ {b}
            /\ s \ {x} \in SUBSET T /\ b \in s \ {x}
            /\ (s \ {x}) \ {b} = (s \ {b}) \ {x}
            /\ (s \ {b}) \ {x} \in SUBSET R
        BY <3>3
      <4>2. old[s \ {b}] = f[x] + old[(s \ {b}) \ {x}]
        BY <2>1, <4>1 DEF Totals
      <4>3. new[s] = f[b] + old[s \ {b}] /\ new[s \ {x}] = f[b] + old[(s \ {b}) \ {x}]
        BY <3>3, <4>1
      <4>4. f[b] \in Int /\ f[x] \in Int /\ old[(s \ {b}) \ {x}] \in Int
        BY <2>1, <4>1 DEF Totals
      <4> HIDE DEF new
      <4> QED
        BY <4>2, <4>3, <4>4
    <3> QED
      BY <3>1, <3>2, <3>3
  <2>6. Totals(new, f, T)
    BY <2>3, <2>4, <2>5 DEF Totals
  <2> QED
    BY <2>6
<1>3. SUBSET S \subseteq Summed
  <2> HIDE DEF Summed
  <2>1. ASSUME NEW T \in SUBSET S, T # {}, \A x \in T : T \ {x} \in Summed
        PROVE  T \in Summed
    BY <1>2, <2>1
  <2> QED
    BY <1>1, <2>1, SubsetInduction
<1> QED
  BY <1>3

\* What the community modules compute when they sum a function.
Computed(g, f, S) ==
  g = [s \in SUBSET S |-> IF s = {} THEN 0
         ELSE f[CHOOSE x \in s : TRUE] + g[s \ {CHOOSE x \in s : TRUE}]]

LEMMA ComputedIsTotals ==
  ASSUME NEW S, IsFiniteSet(S), NEW f, NEW total, Totals(total, f, S)
  PROVE  /\ Computed(total, f, S)
         /\ \A g : Computed(g, f, S) => g = total
<1>1. \A s \in SUBSET S : s # {} => (CHOOSE x \in s : TRUE) \in s
  OBVIOUS
<1>2. Computed(total, f, S)
  BY <1>1 DEF Computed, Totals
<1>3. ASSUME NEW g, Computed(g, f, S) PROVE g = total
  <2> DEFINE Same == {s \in SUBSET S : g[s] = total[s]}
  <2>1. {} \in Same
    BY <1>3 DEF Computed, Totals
  <2>2. ASSUME NEW T \in SUBSET S, T # {}, \A x \in T : T \ {x} \in Same
        PROVE  T \in Same
    <3> DEFINE x == CHOOSE x \in T : TRUE
    <3>1. x \in T
      BY <1>1, <2>2
    <3>2. g[T] = f[x] + g[T \ {x}]
      BY <1>3, <2>2 DEF Computed
    <3>3. total[T] = f[x] + total[T \ {x}]
      BY <3>1 DEF Totals
    <3> HIDE DEF x
    <3>4. g[T \ {x}] = total[T \ {x}]
      BY <2>2, <3>1
    <3> QED
      BY <3>2, <3>3, <3>4
  <2>3. SUBSET S \subseteq Same
    <3> HIDE DEF Same
    <3> QED
      BY <2>1, <2>2, SubsetInduction
  <2>4. g = [s \in SUBSET S |-> g[s]] /\ total = [s \in SUBSET S |-> total[s]]
    BY <1>3 DEF Computed, Totals
  <2> QED
    BY <2>3, <2>4
<1> QED
  BY <1>2, <1>3

\* SumFunction of the community modules is the total, in whatever order it adds.
LEMMA SumIsTotal ==
  ASSUME NEW f, IsFiniteSet(DOMAIN f), NEW total, Totals(total, f, DOMAIN f)
  PROVE  SumFunction(f) = total[DOMAIN f]
<1>1. SumFunction(f) = (CHOOSE g : Computed(g, f, DOMAIN f))[DOMAIN f]
  BY DEF SumFunction, SumFunctionOnSet, FoldFunctionOnSet, MapThenFoldSet, Computed
<1>2. (CHOOSE g : Computed(g, f, DOMAIN f)) = total
  BY ComputedIsTotals
<1> QED
  BY <1>1, <1>2

\* The sum of the empty function is zero.
LEMMA SumEmpty ==
  ASSUME NEW f, DOMAIN f = {} PROVE SumFunction(f) = 0
<1>1. Totals([s \in {{}} |-> 0], f, {})
  BY DEF Totals
<1>2. SumFunction(f) = [s \in {{}} |-> 0][{}]
  BY <1>1, SumIsTotal, FS_EmptySet
<1> QED
  BY <1>2

\* One argument more adds its value.
LEMMA SumExtended ==
  ASSUME NEW S, IsFiniteSet(S), NEW b, b \notin S, NEW f, f = [x \in S \cup {b} |-> f[x]],
         \A x \in S \cup {b} : f[x] \in Int
  PROVE  /\ SumFunction([x \in S |-> f[x]]) \in Int
         /\ SumFunction(f) = SumFunction([x \in S |-> f[x]]) + f[b]
<1> DEFINE T == S \cup {b}
           g == [x \in S |-> f[x]]
<1>1. IsFiniteSet(T) /\ DOMAIN f = T /\ DOMAIN g = S
  BY FS_AddElement
<1>2. PICK total : Totals(total, f, T)
  <2> HIDE DEF T
  <2>1. \A x \in T : f[x] \in Int
    BY DEF T
  <2> QED
    BY <1>1, <2>1, TotalsExist
<1> DEFINE part == [s \in SUBSET S |-> total[s]]
<1>3. Totals(part, g, S)
  BY <1>2 DEF Totals
<1>4. SumFunction(f) = total[T] /\ SumFunction(g) = part[S]
  <2> HIDE DEF T, g, part
  <2> QED
    BY <1>1, <1>2, <1>3, SumIsTotal
<1>5. b \in T /\ T \ {b} = S
  OBVIOUS
<1>6. total[T] = f[b] + total[S] /\ total[S] \in Int /\ f[b] \in Int
  <2> HIDE DEF T
  <2>1. T \in SUBSET T /\ S \in SUBSET T
    BY <1>5
  <2> QED
    BY <1>2, <1>5, <2>1 DEF Totals
<1> QED
  BY <1>4, <1>6

--------------------------------------------------------------------------------

LEMMA NextRowLeast ==
  ASSUME IngestTypeOK, NEW b \in Batches, todo[b] # {}
  PROVE  NextRow(b) \in todo[b] /\ \A s \in todo[b] : NextRow(b) <= s
<1>1. todo[b] \in SUBSET Nat
  BY RowsAssumption DEF IngestTypeOK
<1>2. \E r \in todo[b] : \A s \in todo[b] : r <= s
  BY <1>1, LeastExists
<1> QED
  BY <1>2 DEF NextRow

--------------------------------------------------------------------------------
(* Types.                                                                     *)

LEMMA NoneTyped == IsVersions(None) /\ DOMAIN None = {}
BY DEF IsVersions, None

LEMMA ShareTyped ==
  ASSUME NEW b \in Batches
  PROVE  IsVersions(Share[b]) /\ Touched(b) \subseteq Rows
BY ShareAssumption DEF IsVersions, Touched

LEMMA MergedTyped ==
  ASSUME NEW old \in Stats, NEW new \in Stats
  PROVE  Merged(old, new) \in Stats
BY DEF Merged, Stats, MinOf, MaxOf

LEMMA UpsertedTyped ==
  ASSUME NEW b \in Batches, NEW r \in Touched(b), IsVersions(table)
  PROVE  Upserted(b, r) \in Stats
<1>1. Share[b][r] \in Stats
  BY ShareTyped DEF IsVersions, Touched
<1>2. CASE r \in DOMAIN table
  <2>1. table[r] \in Stats
    BY <1>2 DEF IsVersions
  <2> QED
    BY <1>1, <1>2, <2>1, MergedTyped DEF Upserted
<1>3. CASE r \notin DOMAIN table
  BY <1>1, <1>3 DEF Upserted
<1> QED
  BY <1>2, <1>3

LEMMA InitType == Init => IngestTypeOK
<1> SUFFICES ASSUME Init PROVE IngestTypeOK
  OBVIOUS
<1> USE NoneTyped
<1>1. at \in [Batches -> {"new"} \cup InFlight \cup Answers] /\ \A b \in Batches : at[b] = "new"
  BY DEF Init
<1>2. \A b \in Batches : pending[b] = None
  BY DEF Init
<1>3. attempt \in [Batches -> 0..MaxAttempts]
  BY AttemptsAssumption DEF Init
<1>4. \A b \in Batches : IsVersions(pending[b]) /\ Locked(b) = {}
  BY <1>2 DEF Locked
<1> QED
  BY <1>1, <1>3, <1>4 DEF Init, IngestTypeOK

\* What becomes of a COMMIT that has landed, unless the backend stops.
Settles(b) == Confirm(b) \/ CommitLost(b)

\* The steps that leave every uncommitted version alone.
LEMMA QuietType ==
  ASSUME IngestTypeOK, NEW b \in Batches,
         Arrive(b) \/ InsertRows(b) \/ Release(b) \/ Retry(b) \/ Settles(b)
  PROVE  IngestTypeOK'
<1>1. at' \in [Batches -> {"new"} \cup InFlight \cup Answers]
  BY DEF IngestTypeOK, Arrive, InsertRows, Release, Retry, Settles,
         Confirm, CommitLost, InFlight, Unstored, Answers, Upserting
<1>2. attempt' \in [Batches -> 0..MaxAttempts]
  <2>1. CASE Retry(b)
    <3>1. attempt[b] + 1 \in 0..MaxAttempts
      BY <2>1, AttemptsAssumption DEF Retry, IngestTypeOK
    <3> QED
      BY <2>1, <3>1 DEF Retry, IngestTypeOK
  <2> QED
    BY <2>1, AttemptsAssumption
       DEF IngestTypeOK, Arrive, InsertRows, Release, Settles, Confirm, CommitLost
<1>3. todo' \in [Batches -> SUBSET Rows]
  BY ShareTyped
     DEF IngestTypeOK, Arrive, InsertRows, Release, Retry, Settles, Confirm, CommitLost
<1>4. UNCHANGED <<pending, stored, table, counted>>
  BY DEF Arrive, InsertRows, Release, Retry, Settles, Confirm, CommitLost
<1>5. \A c \in Batches :
        /\ at'[c] \notin Upserting \cup {"commit"} => Locked(c) = {}
        /\ at'[c] = "backoff" => attempt'[c] < MaxAttempts
  BY DEF IngestTypeOK, Arrive, InsertRows, Release, Retry, Settles,
         Confirm, CommitLost, Upserting
<1> QED
  BY <1>1, <1>2, <1>3, <1>4, <1>5 DEF IngestTypeOK, Locked

LEMMA UpsertType ==
  ASSUME IngestTypeOK, NEW b \in Batches, Upsert(b),
         todo[b] \subseteq Touched(b)
  PROVE  IngestTypeOK'
<1> DEFINE r == NextRow(b)
           version == [q \in Locked(b) \cup {r} |->
                         IF q = r THEN Upserted(b, r) ELSE pending[b][q]]
<1>1. r \in Touched(b) /\ r \in Rows
  BY NextRowLeast, ShareTyped DEF Upsert
<1>2. Upserted(b, r) \in Stats
  BY <1>1, UpsertedTyped DEF IngestTypeOK
<1>3. pending' = [pending EXCEPT ![b] = version] /\ todo' = [todo EXCEPT ![b] = @ \ {r}]
  BY DEF Upsert, Write
<1> HIDE DEF r
<1>4. DOMAIN version \subseteq Touched(b)
  BY <1>1 DEF IngestTypeOK
<1>5. IsVersions(version)
  <2>1. \A q \in Locked(b) : pending[b][q] \in Stats
    BY DEF IngestTypeOK, IsVersions, Locked
  <2>2. DOMAIN version \subseteq Rows
    BY <1>4, ShareTyped
  <2> QED
    BY <1>2, <2>1, <2>2 DEF IsVersions
<1>6. \A c \in Batches : pending'[c] = IF c = b THEN version ELSE pending[c]
  BY <1>3 DEF IngestTypeOK
<1> HIDE DEF version
<1>7. pending' = [c \in Batches |-> pending'[c]]
  BY <1>3 DEF IngestTypeOK
<1>8. \A c \in Batches : IsVersions(pending'[c]) /\ DOMAIN pending'[c] \subseteq Touched(c)
  BY <1>4, <1>5, <1>6 DEF IngestTypeOK, Locked
<1>9. todo' \in [Batches -> SUBSET Rows]
  BY <1>3 DEF IngestTypeOK
<1>10. /\ UNCHANGED <<at, attempt, stored, table, counted>>
       /\ at[b] \in Upserting
  BY DEF Upsert, Write
<1>11. \A c \in Batches : at[c] \notin Upserting \cup {"commit"} => DOMAIN pending'[c] = {}
  BY <1>6, <1>10 DEF IngestTypeOK, Locked
<1> QED
  BY <1>7, <1>8, <1>9, <1>10, <1>11 DEF IngestTypeOK, Locked, Touched

LEMMA OnlyTyped ==
  ASSUME NEW f, NEW rs, IsVersions(f)
  PROVE  IsVersions(Only(f, rs)) /\ DOMAIN Only(f, rs) = DOMAIN f \cap rs
BY DEF IsVersions, Only

\* What a failed savepoint leaves pending.
LEMMA SavepointType ==
  ASSUME IngestTypeOK, NEW b \in Batches, SavepointFails(b)
  PROVE  IngestTypeOK'
<1>1. at' \in [Batches -> {"new"} \cup InFlight \cup Answers]
  BY DEF IngestTypeOK, SavepointFails, InFlight, Unstored, Upserting
<1>2. todo' \in [Batches -> SUBSET Rows]
  BY ShareTyped DEF IngestTypeOK, SavepointFails
<1> DEFINE v == IF at[b] = "services" THEN None ELSE Only(pending[b], ServiceRows)
<1>3. /\ pending' = [pending EXCEPT ![b] = v]
      /\ IsVersions(v) /\ DOMAIN v \subseteq Locked(b)
  <2>1. CASE at[b] = "services"
    BY <2>1, NoneTyped DEF SavepointFails
  <2>2. CASE at[b] = "edges"
    <3>1. pending' = [pending EXCEPT ![b] = Only(pending[b], ServiceRows)]
      BY <2>2 DEF SavepointFails, IngestTypeOK
    <3>2. /\ IsVersions(Only(pending[b], ServiceRows))
          /\ DOMAIN Only(pending[b], ServiceRows) \subseteq Locked(b)
      <4>1. IsVersions(pending[b])
        BY DEF IngestTypeOK
      <4> QED
        BY <4>1, OnlyTyped DEF Locked
    <3>3. v = Only(pending[b], ServiceRows)
      BY <2>2
    <3> QED
      BY <3>1, <3>2, <3>3, Zenon
  <2> QED
    BY <2>1, <2>2 DEF SavepointFails
<1> HIDE DEF v
<1>4. \A c \in Batches : pending'[c] = IF c = b THEN v ELSE pending[c]
  BY <1>3 DEF IngestTypeOK
<1>5. pending' = [c \in Batches |-> pending'[c]]
  BY <1>3 DEF IngestTypeOK
<1>6. \A c \in Batches : IsVersions(pending'[c]) /\ DOMAIN pending'[c] \subseteq Locked(c)
  BY <1>3, <1>4 DEF IngestTypeOK, Locked
<1>7. UNCHANGED <<attempt, stored, table, counted>>
  BY DEF SavepointFails
<1>8. \A c \in Batches :
        /\ at'[c] \notin Upserting \cup {"commit"} => at[c] \notin Upserting \cup {"commit"}
        /\ at'[c] = "backoff" => at[c] = "backoff"
  BY DEF IngestTypeOK, SavepointFails, Upserting
<1>9. \A c \in Batches :
        at'[c] \notin Upserting \cup {"commit"} => DOMAIN pending'[c] = {}
  BY <1>6, <1>8 DEF IngestTypeOK
<1> QED
  BY <1>1, <1>2, <1>5, <1>6, <1>7, <1>8, <1>9 DEF IngestTypeOK, Locked, Touched

LEMMA EndTransactionType ==
  ASSUME IngestTypeOK, NEW b \in Batches, EndTransaction(b)
  PROVE  /\ pending' = [c \in Batches |-> pending'[c]]
         /\ todo' \in [Batches -> SUBSET Rows]
         /\ \A c \in Batches :
              /\ pending'[c] = IF c = b THEN None ELSE pending[c]
              /\ IsVersions(pending'[c]) /\ DOMAIN pending'[c] \subseteq Touched(c)
<1>1. \A c \in Batches : pending'[c] = IF c = b THEN None ELSE pending[c]
  BY DEF EndTransaction, IngestTypeOK
<1>2. pending' = [c \in Batches |-> pending'[c]] /\ todo' \in [Batches -> SUBSET Rows]
  BY DEF EndTransaction, IngestTypeOK
<1> QED
  BY <1>1, <1>2, NoneTyped DEF IngestTypeOK, Locked

LEMMA AttemptFailsType ==
  ASSUME IngestTypeOK, NEW b \in Batches, AttemptFails(b)
  PROVE  IngestTypeOK'
<1>1. /\ at' \in [Batches -> {"new"} \cup InFlight \cup Answers]
      /\ \A c \in Batches : c # b => at'[c] = at[c]
      /\ at'[b] = "backoff" => attempt[b] < MaxAttempts
  BY DEF IngestTypeOK, AttemptFails, AfterFailure, InFlight, Unstored, Answers
<1>2. UNCHANGED <<attempt, stored, table, counted>> /\ EndTransaction(b)
  BY DEF AttemptFails
<1>3. \A c \in Batches :
        /\ at'[c] \notin Upserting \cup {"commit"} => DOMAIN pending'[c] = {}
        /\ at'[c] = "backoff" => attempt[c] < MaxAttempts
  BY <1>1, <1>2, EndTransactionType, NoneTyped DEF IngestTypeOK, Locked
<1> QED
  BY <1>1, <1>2, <1>3, EndTransactionType DEF IngestTypeOK, Locked, Touched

LEMMA CommitType ==
  ASSUME IngestTypeOK, NEW b \in Batches, Commit(b)
  PROVE  IngestTypeOK'
<1>1. /\ at' \in [Batches -> {"new"} \cup InFlight \cup Answers]
      /\ \A c \in Batches : c # b => at'[c] = at[c]
      /\ at'[b] # "backoff"
  BY DEF IngestTypeOK, Commit, InFlight, Unstored
<1>2. UNCHANGED attempt /\ EndTransaction(b) /\ Land(b)
  BY DEF Commit
<1>3. stored' \in [Batches -> Nat] /\ counted' \in [Batches -> SUBSET Rows]
  BY <1>2, ShareTyped DEF IngestTypeOK, Land
<1>4. IsVersions(table')
  <2>1. table' = [r \in DOMAIN table \cup Locked(b) |->
                    IF r \in Locked(b) THEN pending[b][r] ELSE table[r]]
    BY <1>2 DEF Land
  <2>2. IsVersions(table) /\ IsVersions(pending[b])
    BY DEF IngestTypeOK
  <2> QED
    BY <2>1, <2>2 DEF IsVersions, Locked
<1>5. \A c \in Batches :
        /\ at'[c] \notin Upserting \cup {"commit"} => DOMAIN pending'[c] = {}
        /\ at'[c] = "backoff" => attempt[c] < MaxAttempts
  BY <1>1, <1>2, EndTransactionType, NoneTyped DEF IngestTypeOK, Locked
<1> QED
  BY <1>1, <1>2, <1>3, <1>4, <1>5, EndTransactionType DEF IngestTypeOK, Locked, Touched

LEMMA CrashType == IngestTypeOK /\ Crash => IngestTypeOK'
<1> SUFFICES ASSUME IngestTypeOK, Crash PROVE IngestTypeOK'
  OBVIOUS
<1>1. /\ at' \in [Batches -> {"new"} \cup InFlight \cup Answers]
      /\ \A c \in Batches : at'[c] # "backoff"
  BY DEF IngestTypeOK, Crash, InFlight, Unstored, Answers
<1>2. /\ pending' = [c \in Batches |-> pending'[c]]
      /\ \A c \in Batches : IsVersions(pending'[c]) /\ DOMAIN pending'[c] = {}
      /\ todo' \in [Batches -> SUBSET Rows]
  BY NoneTyped DEF Crash
<1> QED
  BY <1>1, <1>2 DEF Crash, IngestTypeOK, Locked, Touched

--------------------------------------------------------------------------------
(* The locks.                                                                 *)

\* The rows of a statement are upserted in order: what a batch holds lies
\* below what it still has to lock.  Together with that, how far each of the
\* two statements has come.
InOrder ==
  \A b \in Batches :
    /\ todo[b] \subseteq Touched(b)
    /\ at[b] \in Upserting => \A h \in Locked(b), r \in todo[b] : h < r
    /\ at[b] = "services" => Locked(b) \cup todo[b] = Touched(b) \cap ServiceRows
    /\ at[b] = "edges" =>
         /\ Locked(b) \cap ServiceRows \in {{}, Touched(b) \cap ServiceRows}
         /\ (Locked(b) \cap EdgeRows) \cup todo[b] = Touched(b) \cap EdgeRows
    /\ at[b] = "commit" =>
         \A t \in {ServiceRows, EdgeRows} : Locked(b) \cap t \in {{}, Touched(b) \cap t}

LocksInv == IngestTypeOK /\ InOrder /\ RowLocksExclusive

LEMMA InitLocks == Init => LocksInv
BY InitType, NoneTyped DEF Init, LocksInv, InOrder, RowLocksExclusive, Locked, Upserting

\* The two tables have no row in common.
LEMMA TablesDisjoint == ServiceRows \cap EdgeRows = {} /\ Rows \subseteq Nat
BY RowsAssumption DEF Rows

LEMMA QuietLocks ==
  ASSUME LocksInv, NEW b \in Batches,
         Arrive(b) \/ InsertRows(b) \/ Release(b) \/ Retry(b) \/ Settles(b)
  PROVE  LocksInv'
<1>1. IngestTypeOK'
  BY QuietType DEF LocksInv
<1>2. pending' = pending
  BY DEF Arrive, InsertRows, Release, Retry, Settles, Confirm, CommitLost
<1>3. RowLocksExclusive'
  BY <1>2 DEF LocksInv, RowLocksExclusive, Locked
<1>4. ASSUME NEW c \in Batches, c # b
      PROVE  at'[c] = at[c] /\ todo'[c] = todo[c]
  BY <1>4 DEF LocksInv, IngestTypeOK, Arrive, InsertRows, Release, Retry, Settles,
              Confirm, CommitLost
<1>5. CASE Arrive(b) \/ Retry(b) \/ Settles(b)
  <2>1. at'[b] \in {"insert", "persisted", "dropped"} /\ todo' = todo
    BY <1>5 DEF LocksInv, IngestTypeOK, Arrive, Retry, Settles, Confirm, CommitLost
  <2>2. InOrder'
    BY <1>2, <1>4, <2>1 DEF LocksInv, InOrder, Locked, Touched, Upserting
  <2> QED
    BY <1>1, <1>3, <2>2 DEF LocksInv
<1>6. CASE InsertRows(b)
  <2>1. at'[b] = "services" /\ todo'[b] = Touched(b) \cap ServiceRows /\ Locked(b) = {}
    BY <1>6 DEF LocksInv, IngestTypeOK, InsertRows, Upserting
  <2>2. InOrder'
    BY <1>2, <1>4, <2>1 DEF LocksInv, InOrder, Locked, Touched, Upserting
  <2> QED
    BY <1>1, <1>3, <2>2 DEF LocksInv
<1>7. CASE Release(b) /\ at[b] = "services"
  <2>1. at'[b] = "edges" /\ todo'[b] = Touched(b) \cap EdgeRows
    BY <1>7 DEF LocksInv, IngestTypeOK, Release
  <2>2. Locked(b) = Touched(b) \cap ServiceRows
    BY <1>7 DEF LocksInv, InOrder, Release
  <2>3. \A h \in Locked(b), r \in todo'[b] : h < r
    BY <2>1, <2>2, RowsAssumption
  <2>4. Locked(b) \cap EdgeRows = {}
    BY <2>2, TablesDisjoint
  <2>5. InOrder'
    BY <1>2, <1>4, <2>1, <2>2, <2>3, <2>4 DEF LocksInv, InOrder, Locked, Touched, Upserting
  <2> QED
    BY <1>1, <1>3, <2>5 DEF LocksInv
<1>8. CASE Release(b) /\ at[b] = "edges"
  <2>1. at'[b] = "commit" /\ todo'[b] = {} /\ todo[b] = {}
    BY <1>8 DEF LocksInv, IngestTypeOK, Release
  <2>2. \A t \in {ServiceRows, EdgeRows} : Locked(b) \cap t \in {{}, Touched(b) \cap t}
    BY <1>8, <2>1 DEF LocksInv, InOrder
  <2>3. InOrder'
    BY <1>2, <1>4, <2>1, <2>2 DEF LocksInv, InOrder, Locked, Touched, Upserting
  <2> QED
    BY <1>1, <1>3, <2>3 DEF LocksInv
<1> QED
  BY <1>5, <1>6, <1>7, <1>8 DEF Release, Upserting

LEMMA UpsertLocks ==
  ASSUME LocksInv, NEW b \in Batches, Upsert(b)
  PROVE  LocksInv'
<1> DEFINE r == NextRow(b)
<1>1. r \in todo[b] /\ \A s \in todo[b] : r <= s
  BY NextRowLeast DEF LocksInv, Upsert
<1>2. r \in Touched(b) /\ todo[b] \subseteq Nat
  BY <1>1, TablesDisjoint DEF LocksInv, IngestTypeOK, InOrder
<1>3. IngestTypeOK'
  BY UpsertType DEF LocksInv, InOrder
<1>4. /\ Locked(b)' = Locked(b) \cup {r}
      /\ \A c \in Batches : c # b => Locked(c)' = Locked(c)
      /\ todo' = [todo EXCEPT ![b] = @ \ {r}]
      /\ at' = at
  BY DEF LocksInv, IngestTypeOK, Upsert, Write, Locked
<1>5. \A c \in Batches : c # b => r \notin Locked(c)
  BY DEF Upsert, WaitsFor
<1> HIDE DEF r
<1>6. RowLocksExclusive'
  BY <1>4, <1>5 DEF LocksInv, RowLocksExclusive
<1>7. ASSUME NEW h \in Locked(b)', NEW s \in todo'[b] PROVE h < s
  <2>1. s \in todo[b] /\ s # r
    BY <1>4 DEF LocksInv, IngestTypeOK
  <2>2. CASE h = r
    BY <1>1, <1>2, <2>1, <2>2
  <2>3. CASE h \in Locked(b)
    BY <2>1, <2>3 DEF LocksInv, InOrder, Upsert
  <2> QED
    BY <1>4, <2>2, <2>3
<1>8. todo'[b] = todo[b] \ {r} /\ \A c \in Batches : c # b => todo'[c] = todo[c]
  BY <1>4 DEF LocksInv, IngestTypeOK
<1>9. CASE at[b] = "services"
  <2>1. Locked(b)' \cup todo'[b] = Touched(b) \cap ServiceRows
    BY <1>1, <1>4, <1>8, <1>9 DEF LocksInv, InOrder
  <2>2. InOrder'
    BY <1>2, <1>4, <1>7, <1>8, <1>9, <2>1 DEF LocksInv, InOrder, Touched
  <2> QED
    BY <1>3, <1>6, <2>2 DEF LocksInv
<1>10. CASE at[b] = "edges"
  <2>1. r \in EdgeRows /\ r \notin ServiceRows
    BY <1>1, <1>10, TablesDisjoint DEF LocksInv, InOrder
  <2>2. Locked(b)' \cap ServiceRows = Locked(b) \cap ServiceRows
    BY <1>4, <2>1
  <2>3. (Locked(b)' \cap EdgeRows) \cup todo'[b] = (Locked(b) \cap EdgeRows) \cup todo[b]
    BY <1>1, <1>4, <1>8, <2>1
  <2>4. InOrder'
    BY <1>2, <1>4, <1>7, <1>8, <1>10, <2>2, <2>3 DEF LocksInv, InOrder, Touched
  <2> QED
    BY <1>3, <1>6, <2>4 DEF LocksInv
<1> QED
  BY <1>9, <1>10 DEF Upsert, Upserting

LEMMA SavepointLocks ==
  ASSUME LocksInv, NEW b \in Batches, SavepointFails(b)
  PROVE  LocksInv'
<1>1. IngestTypeOK'
  BY SavepointType DEF LocksInv
<1>2. \A c \in Batches : c # b =>
        at'[c] = at[c] /\ todo'[c] = todo[c] /\ Locked(c)' = Locked(c)
  BY DEF LocksInv, IngestTypeOK, SavepointFails, Locked
<1>3. CASE at[b] = "services"
  <2>1. at'[b] = "edges" /\ todo'[b] = Touched(b) \cap EdgeRows /\ Locked(b)' = {}
    BY <1>3, NoneTyped DEF LocksInv, IngestTypeOK, SavepointFails, Locked
  <2>2. RowLocksExclusive'
    BY <1>2, <2>1 DEF LocksInv, RowLocksExclusive
  <2>3. InOrder'
    BY <1>2, <2>1 DEF LocksInv, InOrder, Touched, Upserting
  <2> QED
    BY <1>1, <2>2, <2>3 DEF LocksInv
<1>4. CASE at[b] = "edges"
  <2>1. at'[b] = "commit" /\ todo'[b] = {} /\ pending'[b] = Only(pending[b], ServiceRows)
    BY <1>4 DEF LocksInv, IngestTypeOK, SavepointFails
  <2>2. Locked(b)' = Locked(b) \cap ServiceRows
    <3>1. IsVersions(pending[b])
      BY DEF LocksInv, IngestTypeOK
    <3> QED
      BY <2>1, <3>1, OnlyTyped DEF Locked
  <2>3. RowLocksExclusive'
    BY <1>2, <2>2 DEF LocksInv, RowLocksExclusive
  <2>4. \A t \in {ServiceRows, EdgeRows} : Locked(b)' \cap t \in {{}, Touched(b) \cap t}
    BY <1>4, <2>2, TablesDisjoint DEF LocksInv, InOrder
  <2>5. InOrder'
    BY <1>2, <2>1, <2>4 DEF LocksInv, InOrder, Touched, Upserting
  <2> QED
    BY <1>1, <2>3, <2>5 DEF LocksInv
<1> QED
  BY <1>3, <1>4 DEF SavepointFails

LEMMA EndLocks ==
  ASSUME LocksInv, NEW b \in Batches, AttemptFails(b) \/ Commit(b)
  PROVE  LocksInv'
<1>1. IngestTypeOK'
  BY AttemptFailsType, CommitType DEF LocksInv
<1>2. EndTransaction(b) /\ \A c \in Batches : c # b => at'[c] = at[c]
  BY DEF LocksInv, IngestTypeOK, AttemptFails, Commit
<1>3. at'[b] \in {"backoff", "dropped", "committed"}
  BY DEF LocksInv, IngestTypeOK, AttemptFails, AfterFailure, Commit
<1>4. /\ todo'[b] = {} /\ Locked(b)' = {}
      /\ \A c \in Batches : c # b => todo'[c] = todo[c] /\ Locked(c)' = Locked(c)
  BY <1>2, NoneTyped DEF EndTransaction, LocksInv, IngestTypeOK, Locked
<1>5. RowLocksExclusive'
  BY <1>4 DEF LocksInv, RowLocksExclusive
<1>6. InOrder'
  BY <1>2, <1>3, <1>4 DEF LocksInv, InOrder, Touched, Upserting
<1> QED
  BY <1>1, <1>5, <1>6 DEF LocksInv

LEMMA CrashLocks == LocksInv /\ Crash => LocksInv'
<1> SUFFICES ASSUME LocksInv, Crash PROVE LocksInv'
  OBVIOUS
<1>1. IngestTypeOK'
  BY CrashType DEF LocksInv
<1>2. \A c \in Batches : Locked(c)' = {} /\ todo'[c] = {}
  BY NoneTyped DEF Crash, Locked
<1>3. RowLocksExclusive'
  BY <1>2 DEF RowLocksExclusive
<1>4. \A c \in Batches : at'[c] \notin Upserting
  BY DEF Crash, InFlight, Unstored, Upserting
<1>5. InOrder'
  BY <1>2, <1>4 DEF InOrder, Upserting
<1> QED
  BY <1>1, <1>3, <1>5 DEF LocksInv

LEMMA StutterLocks == LocksInv /\ UNCHANGED vars => LocksInv'
BY DEF LocksInv, IngestTypeOK, InOrder, RowLocksExclusive, Locked, vars

\* Types, lock order and exclusive row locks are inductive.
THEOREM LocksInvariant == Spec => []LocksInv
<1>1. LocksInv /\ [Next]_vars => LocksInv'
  <2> SUFFICES ASSUME LocksInv, [Next]_vars PROVE LocksInv'
    OBVIOUS
  <2>1. CASE \E b \in Batches : Arrive(b) \/ Progress(b) \/ Failure(b)
    BY <2>1, QuietLocks, UpsertLocks, SavepointLocks, EndLocks
       DEF Progress, Failure, Settles
  <2>2. CASE Crash
    BY <2>2, CrashLocks
  <2>3. CASE UNCHANGED vars
    BY <2>3, StutterLocks
  <2> QED
    BY <2>1, <2>2, <2>3 DEF Next, Done
<1> QED
  BY InitLocks, <1>1, PTL DEF Spec

\* Types hold for any batches and rows; no batch is attempted too often.
THEOREM IngestTypeCorrect == Spec => []IngestTypeOK
<1>1. LocksInv => IngestTypeOK
  BY DEF LocksInv
<1> QED
  BY <1>1, LocksInvariant, PTL

\* No row is ever locked by two transactions.
THEOREM RowLocksExclusiveHolds == Spec => []RowLocksExclusive
<1>1. LocksInv => RowLocksExclusive
  BY DEF LocksInv
<1> QED
  BY <1>1, LocksInvariant, PTL

\* A batch that waits, waits for one that wants a greater row or for none.
LEMMA WaitsUpwards ==
  ASSUME LocksInv, NEW b \in Batches, NEW c \in Batches, NEW d \in Batches,
         WaitsFor(b, c), WaitsFor(c, d)
  PROVE  NextRow(b) < NextRow(c)
<1>1. NextRow(b) \in Locked(c)
  BY DEF WaitsFor
<1>2. NextRow(c) \in todo[c]
  BY NextRowLeast DEF WaitsFor, LocksInv
<1> QED
  BY <1>1, <1>2 DEF LocksInv, InOrder, WaitsFor

\* Concurrent batches never deadlock on the rows they upsert: the batch of a
\* set that wants the greatest row waits for none of the set.
THEOREM NoWaitCycleHolds == Spec => []NoWaitCycle
<1>1. LocksInv => NoWaitCycle
  <2> SUFFICES ASSUME LocksInv, NEW S \in SUBSET Batches, S # {}
               PROVE  \E b \in S : \A c \in S : ~WaitsFor(b, c)
    BY DEF NoWaitCycle
  <2> SUFFICES ASSUME \A b \in S : \E c \in S : WaitsFor(b, c) PROVE FALSE
    OBVIOUS
  <2> DEFINE wanted == [b \in S |-> NextRow(b)]
  <2>1. \A b \in S : NextRow(b) \in Nat
    BY NextRowLeast, TablesDisjoint DEF WaitsFor, LocksInv, IngestTypeOK
  <2>2. wanted \in [S -> Nat]
    BY <2>1
  <2>3. IsFiniteSet(S)
    BY BatchesAssumption, FS_Subset
  <2>4. PICK b \in S : \A c \in S : wanted[c] <= wanted[b]
    <3> HIDE DEF wanted
    <3> QED
      BY <2>2, <2>3, GreatestExists
  <2>5. PICK c \in S : WaitsFor(b, c)
    OBVIOUS
  <2>6. PICK d \in S : WaitsFor(c, d)
    OBVIOUS
  <2>7. NextRow(b) < NextRow(c)
    BY <2>5, <2>6, WaitsUpwards
  <2>8. NextRow(c) <= NextRow(b)
    BY <2>4
  <2> QED
    BY <2>1, <2>7, <2>8
<1> QED
  BY <1>1, LocksInvariant, PTL

--------------------------------------------------------------------------------
(* What is stored and counted.                                                *)

LEMMA InitAtomic == Init => BatchAtomic
BY DEF Init, BatchAtomic, Unstored, Upserting

\* The steps before the end of a transaction, and a failed one.
LEMMA UncommittedAtomic ==
  ASSUME LocksInv, BatchAtomic, NEW b \in Batches,
         \/ Arrive(b) \/ InsertRows(b) \/ Upsert(b) \/ Release(b) \/ Retry(b)
         \/ SavepointFails(b) \/ AttemptFails(b)
  PROVE  BatchAtomic'
<1>1. UNCHANGED <<stored, counted>>
  BY DEF Arrive, InsertRows, Upsert, Write, Release, Retry, SavepointFails, AttemptFails
<1>2. \A c \in Batches : c # b => at'[c] = at[c]
  BY DEF LocksInv, IngestTypeOK, Arrive, InsertRows, Upsert, Write, Release, Retry,
         SavepointFails, AttemptFails
<1>3. at[b] \in Unstored \cup {"new"} /\ at'[b] \in Unstored \cup {"dropped"}
  BY DEF LocksInv, IngestTypeOK, Arrive, InsertRows, Upsert, Write, Release, Retry,
         SavepointFails, AttemptFails, AfterFailure, Unstored, Upserting
<1>4. at'[b] \notin {"committed", "persisted"}
  BY <1>3 DEF Unstored, Upserting
<1> QED
  BY <1>1, <1>2, <1>3, <1>4 DEF BatchAtomic, Touched

\* A commit counts what the batch holds: of each table, all or nothing.
LEMMA CommitAtomic ==
  ASSUME LocksInv, BatchAtomic, NEW b \in Batches, Commit(b)
  PROVE  BatchAtomic'
<1>1. /\ at[b] = "commit" /\ at'[b] = "committed" /\ Land(b)
      /\ \A c \in Batches : c # b => at'[c] = at[c]
  BY DEF LocksInv, IngestTypeOK, Commit
<1>2. stored[b] = 0 /\ counted[b] = {}
  BY <1>1 DEF BatchAtomic, Unstored
<1>3. /\ stored'[b] = 1 /\ counted'[b] = Locked(b)
      /\ \A c \in Batches : c # b => stored'[c] = stored[c] /\ counted'[c] = counted[c]
  BY <1>1, <1>2 DEF Land, LocksInv, IngestTypeOK
<1>4. \A t \in {ServiceRows, EdgeRows} : counted'[b] \cap t \in {{}, Touched(b) \cap t}
  BY <1>1, <1>3 DEF LocksInv, InOrder
<1>5. at'[b] \notin Unstored \cup {"new"}
  BY <1>1 DEF Unstored, Upserting
<1> QED
  BY <1>1, <1>3, <1>4, <1>5 DEF BatchAtomic, Touched

\* What has landed stays, whether or not it is confirmed.
LEMMA SettlesAtomic ==
  ASSUME LocksInv, BatchAtomic, NEW b \in Batches, Settles(b)
  PROVE  BatchAtomic'
<1>1. /\ at[b] = "committed" /\ at'[b] \in {"persisted", "dropped"}
      /\ \A c \in Batches : c # b => at'[c] = at[c]
      /\ UNCHANGED <<stored, counted>>
  BY DEF LocksInv, IngestTypeOK, Settles, Confirm, CommitLost
<1>2. at'[b] \notin Unstored \cup {"new"} /\ stored[b] = 1
  BY <1>1 DEF Unstored, Upserting, BatchAtomic
<1> QED
  BY <1>1, <1>2 DEF BatchAtomic, Touched

LEMMA CrashAtomic == LocksInv /\ BatchAtomic /\ Crash => BatchAtomic'
<1> SUFFICES ASSUME LocksInv, BatchAtomic, Crash, NEW b \in Batches
             PROVE  /\ at'[b] \in {"committed", "persisted"} => stored[b] = 1
                    /\ at'[b] \in Unstored \cup {"new"} => stored[b] = 0
  BY DEF BatchAtomic, Crash, Touched
<1>1. at'[b] = IF at[b] \in InFlight THEN "lost" ELSE at[b]
  BY DEF Crash
<1> QED
  BY <1>1 DEF BatchAtomic, InFlight, Unstored, Upserting

\* However often a batch is attempted and whatever fails or stops, it is stored
\* once at most, each table counts all of it or none, and nothing of it is stored
\* while it may be tried again.
THEOREM BatchAtomicHolds == Spec => []BatchAtomic
<1>1. LocksInv /\ BatchAtomic /\ [Next]_vars => BatchAtomic'
  <2> SUFFICES ASSUME LocksInv, BatchAtomic, [Next]_vars PROVE BatchAtomic'
    OBVIOUS
  <2>1. CASE \E b \in Batches : Arrive(b) \/ Progress(b) \/ Failure(b)
    BY <2>1, UncommittedAtomic, CommitAtomic, SettlesAtomic
       DEF Progress, Failure, Settles
  <2>2. CASE Crash
    BY <2>2, CrashAtomic
  <2>3. CASE UNCHANGED vars
    BY <2>3 DEF BatchAtomic, Touched, vars
  <2> QED
    BY <2>1, <2>2, <2>3 DEF Next, Done
<1> QED
  BY InitAtomic, LocksInvariant, <1>1, PTL DEF Spec

--------------------------------------------------------------------------------
(* No update is lost.                                                         *)

LEMMA InitBased == Init => NoLostUpdate
BY NoneTyped DEF Init, NoLostUpdate, Locked

LEMMA UncommittedBased ==
  ASSUME LocksInv, NoLostUpdate, NEW b \in Batches,
         Arrive(b) \/ InsertRows(b) \/ Release(b) \/ Retry(b) \/ Settles(b)
  PROVE  NoLostUpdate'
<1>1. UNCHANGED <<pending, table>>
  BY DEF Arrive, InsertRows, Release, Retry, Settles, Confirm, CommitLost
<1> QED
  BY <1>1 DEF NoLostUpdate, Locked, Upserted

LEMMA UpsertBased ==
  ASSUME LocksInv, NoLostUpdate, NEW b \in Batches, Upsert(b)
  PROVE  NoLostUpdate'
<1> DEFINE n == NextRow(b)
<1>1. /\ table' = table
      /\ pending'[b] = [q \in Locked(b) \cup {n} |->
                          IF q = n THEN Upserted(b, n) ELSE pending[b][q]]
      /\ \A c \in Batches : c # b => pending'[c] = pending[c]
  BY DEF LocksInv, IngestTypeOK, Upsert, Write
<1> HIDE DEF n
<1>2. ASSUME NEW c \in Batches, NEW r \in Locked(c)'
      PROVE  pending'[c][r] = Upserted(c, r)
  <2>1. CASE c = b
    BY <1>1, <2>1 DEF NoLostUpdate, Locked
  <2>2. CASE c # b
    BY <1>1, <2>2 DEF NoLostUpdate, Locked
  <2> QED
    BY <2>1, <2>2
<1> QED
  BY <1>1, <1>2 DEF NoLostUpdate, Upserted

\* A roll-back only takes versions away.
LEMMA RollbackBased ==
  ASSUME LocksInv, NoLostUpdate, NEW b \in Batches, SavepointFails(b) \/ AttemptFails(b)
  PROVE  NoLostUpdate'
<1>1. table' = table
  BY DEF SavepointFails, AttemptFails
<1>2. \A c \in Batches : c # b => pending'[c] = pending[c]
  BY DEF LocksInv, IngestTypeOK, SavepointFails, AttemptFails, EndTransaction
<1>3. \/ pending'[b] = None
      \/ pending'[b] = Only(pending[b], ServiceRows)
  BY DEF LocksInv, IngestTypeOK, SavepointFails, AttemptFails, EndTransaction
<1>4. ASSUME NEW r \in Locked(b)' PROVE pending'[b][r] = Upserted(b, r)
  <2>1. pending'[b] = Only(pending[b], ServiceRows)
    BY <1>3, <1>4, NoneTyped DEF Locked
  <2>2. r \in Locked(b) /\ pending'[b][r] = pending[b][r]
    BY <1>4, <2>1 DEF Locked, Only
  <2> QED
    BY <2>2 DEF NoLostUpdate
<1>5. \A c \in Batches : \A r \in Locked(c)' : pending'[c][r] = Upserted(c, r)
  BY <1>2, <1>4 DEF NoLostUpdate, Locked
<1> QED
  BY <1>1, <1>5 DEF NoLostUpdate, Upserted

\* A commit changes no row that another transaction has locked.
LEMMA CommitBased ==
  ASSUME LocksInv, NoLostUpdate, NEW b \in Batches, Commit(b)
  PROVE  NoLostUpdate'
<1>1. Land(b) /\ EndTransaction(b)
  BY DEF Commit
<1>2. /\ Locked(b)' = {}
      /\ \A c \in Batches : c # b => pending'[c] = pending[c]
  BY <1>1, NoneTyped DEF LocksInv, IngestTypeOK, EndTransaction, Locked
<1>3. ASSUME NEW c \in Batches, NEW r \in Locked(c)' PROVE pending'[c][r] = Upserted(c, r)'
  <2>1. c # b /\ r \in Locked(c) /\ pending'[c] = pending[c]
    BY <1>2, <1>3 DEF Locked
  <2>2. r \notin Locked(b)
    BY <2>1 DEF LocksInv, RowLocksExclusive
  <2>3. /\ r \in DOMAIN table' <=> r \in DOMAIN table
        /\ r \in DOMAIN table => table'[r] = table[r]
    BY <1>1, <2>2 DEF Land
  <2>4. pending[c][r] = Upserted(c, r)
    BY <2>1 DEF NoLostUpdate
  <2> QED
    BY <2>1, <2>3, <2>4 DEF Upserted
<1> QED
  BY <1>3 DEF NoLostUpdate

LEMMA CrashBased == Crash => NoLostUpdate'
BY NoneTyped DEF Crash, NoLostUpdate, Locked

\* What a transaction is going to write is always based on what is committed.
THEOREM NoLostUpdateHolds == Spec => []NoLostUpdate
<1>1. LocksInv /\ NoLostUpdate /\ [Next]_vars => NoLostUpdate'
  <2> SUFFICES ASSUME LocksInv, NoLostUpdate, [Next]_vars PROVE NoLostUpdate'
    OBVIOUS
  <2>1. CASE \E b \in Batches : Arrive(b) \/ Progress(b) \/ Failure(b)
    BY <2>1, UncommittedBased, UpsertBased, RollbackBased, CommitBased
       DEF Progress, Failure, Settles
  <2>2. CASE Crash
    BY <2>2, CrashBased
  <2>3. CASE UNCHANGED vars
    BY <2>3 DEF NoLostUpdate, Locked, Upserted, vars
  <2> QED
    BY <2>1, <2>2, <2>3 DEF Next, Done
<1> QED
  BY InitBased, LocksInvariant, <1>1, PTL DEF Spec

--------------------------------------------------------------------------------
(* What the tables hold.                                                      *)

Parts(r) == {b \in Batches : r \in counted[b]}

\* What the shares of some batches in row r add up to.
Summary(r, parts) ==
  [requests |-> SumFunction([b \in parts |-> Share[b][r].requests]),
   errors |-> SumFunction([b \in parts |-> Share[b][r].errors]),
   first |-> Min({Share[b][r].first : b \in parts}),
   last |-> Max({Share[b][r].last : b \in parts})]

\* RowsExact of one row.
RowExact(r) ==
  IF Parts(r) = {} THEN r \notin DOMAIN table
  ELSE r \in DOMAIN table /\ table[r] = Summary(r, Parts(r))

\* A batch is counted only for rows it touches.
CountedTouched == \A b \in Batches : counted[b] \subseteq Touched(b)

LEMMA MinExtended ==
  ASSUME NEW T \in SUBSET Nat, NEW x \in Nat, NEW m \in T, \A y \in T : m <= y
  PROVE  Min(T) = m /\ Min(T \cup {x}) = MinOf(m, x)
<1>1. Min(T) \in T /\ \A y \in T : Min(T) <= y
  BY DEF Min
<1>2. Min(T) <= m /\ m <= Min(T) /\ Min(T) \in Nat /\ m \in Nat
  BY <1>1
<1>3. Min(T) = m
  BY <1>2
<1> DEFINE w == MinOf(m, x)
           U == T \cup {x}
<1>4. w \in U /\ \A y \in U : w <= y
  BY DEF MinOf
<1>5. Min(U) \in U /\ \A y \in U : Min(U) <= y
  BY <1>4 DEF Min
<1>6. Min(U) <= w /\ w <= Min(U) /\ Min(U) \in Nat /\ w \in Nat
  BY <1>4, <1>5
<1> HIDE DEF U, w
<1>7. Min(U) = w
  BY <1>6
<1> QED
  BY <1>3, <1>7 DEF U, w

LEMMA MaxExtended ==
  ASSUME NEW T \in SUBSET Nat, NEW x \in Nat, NEW m \in T, \A y \in T : m >= y
  PROVE  Max(T) = m /\ Max(T \cup {x}) = MaxOf(m, x)
<1>1. Max(T) \in T /\ \A y \in T : Max(T) >= y
  BY DEF Max
<1>2. Max(T) <= m /\ m <= Max(T) /\ Max(T) \in Nat /\ m \in Nat
  BY <1>1
<1>3. Max(T) = m
  BY <1>2
<1> DEFINE w == MaxOf(m, x)
           U == T \cup {x}
<1>4. w \in U /\ \A y \in U : w >= y
  BY DEF MaxOf
<1>5. Max(U) \in U /\ \A y \in U : Max(U) >= y
  BY <1>4 DEF Max
<1>6. Max(U) <= w /\ w <= Max(U) /\ Max(U) \in Nat /\ w \in Nat
  BY <1>4, <1>5
<1> HIDE DEF U, w
<1>7. Max(U) = w
  BY <1>6
<1> QED
  BY <1>3, <1>7 DEF U, w

\* The share of one batch is what it adds up to by itself.
LEMMA SummaryOne ==
  ASSUME NEW b \in Batches, NEW r \in Touched(b)
  PROVE  Summary(r, {b}) = Share[b][r]
<1>1. Share[b][r] \in Stats
  BY ShareTyped DEF IsVersions, Touched
<1>2. ASSUME NEW n \in Nat PROVE SumFunction([c \in {b} |-> n]) = n
  <2> DEFINE f == [c \in {b} |-> n]
  <2>1. SumFunction(f) = SumFunction([c \in {} |-> f[c]]) + f[b]
    <3>1. f = [c \in {} \cup {b} |-> f[c]] /\ \A c \in {} \cup {b} : f[c] \in Int
      OBVIOUS
    <3>2. IsFiniteSet({}) /\ b \notin {}
      BY FS_EmptySet
    <3> HIDE DEF f
    <3> QED
      BY <3>1, <3>2, SumExtended
  <2>2. SumFunction([c \in {} |-> f[c]]) = 0
    BY SumEmpty
  <2> QED
    BY <2>1, <2>2
<1>3. /\ SumFunction([c \in {b} |-> Share[c][r].requests]) = Share[b][r].requests
      /\ SumFunction([c \in {b} |-> Share[c][r].errors]) = Share[b][r].errors
  <2>1. /\ [c \in {b} |-> Share[c][r].requests] = [c \in {b} |-> Share[b][r].requests]
        /\ [c \in {b} |-> Share[c][r].errors] = [c \in {b} |-> Share[b][r].errors]
    OBVIOUS
  <2> QED
    BY <1>1, <1>2, <2>1 DEF Stats
<1>4. \A n \in Nat : Min({n}) = n /\ Max({n}) = n
  BY DEF Min, Max
<1>5. /\ {Share[c][r].first : c \in {b}} = {Share[b][r].first}
      /\ {Share[c][r].last : c \in {b}} = {Share[b][r].last}
  OBVIOUS
<1> QED
  BY <1>1, <1>3, <1>4, <1>5 DEF Summary, Stats

\* One batch more is merged into what the others add up to.
LEMMA SummaryMore ==
  ASSUME NEW parts \in SUBSET Batches, parts # {}, NEW r, \A c \in parts : r \in Touched(c),
         NEW b \in Batches, b \notin parts, r \in Touched(b)
  PROVE  Summary(r, parts \cup {b}) = Merged(Summary(r, parts), Share[b][r])
<1> DEFINE all == parts \cup {b}
<1>1. IsFiniteSet(parts)
  BY BatchesAssumption, FS_Subset
<1>2. \A c \in all : Share[c][r] \in Stats
  BY ShareTyped DEF IsVersions, Touched
<1>3. ASSUME NEW f, f = [c \in all |-> f[c]], \A c \in all : f[c] \in Nat
      PROVE  SumFunction(f) = SumFunction([c \in parts |-> f[c]]) + f[b]
  BY <1>1, <1>3, SumExtended
<1>4. SumFunction([c \in all |-> Share[c][r].requests])
        = SumFunction([c \in parts |-> Share[c][r].requests]) + Share[b][r].requests
  <2> DEFINE f == [c \in all |-> Share[c][r].requests]
  <2>1. f = [c \in all |-> f[c]] /\ \A c \in all : f[c] \in Nat
    BY <1>2 DEF Stats
  <2>2. [c \in parts |-> f[c]] = [c \in parts |-> Share[c][r].requests]
    OBVIOUS
  <2>3. f[b] = Share[b][r].requests
    OBVIOUS
  <2> HIDE DEF f, all
  <2>4. SumFunction(f) = SumFunction([c \in parts |-> f[c]]) + f[b]
    BY <1>3, <2>1
  <2> QED
    BY <2>2, <2>3, <2>4 DEF f
<1>5. SumFunction([c \in all |-> Share[c][r].errors])
        = SumFunction([c \in parts |-> Share[c][r].errors]) + Share[b][r].errors
  <2> DEFINE f == [c \in all |-> Share[c][r].errors]
  <2>1. f = [c \in all |-> f[c]] /\ \A c \in all : f[c] \in Nat
    BY <1>2 DEF Stats
  <2>2. [c \in parts |-> f[c]] = [c \in parts |-> Share[c][r].errors]
    OBVIOUS
  <2>3. f[b] = Share[b][r].errors
    OBVIOUS
  <2> HIDE DEF f, all
  <2>4. SumFunction(f) = SumFunction([c \in parts |-> f[c]]) + f[b]
    BY <1>3, <2>1
  <2> QED
    BY <2>2, <2>3, <2>4 DEF f
<1>6. Min({Share[c][r].first : c \in all})
        = MinOf(Min({Share[c][r].first : c \in parts}), Share[b][r].first)
  <2> DEFINE T == {Share[c][r].first : c \in parts}
             x == Share[b][r].first
  <2>1. {Share[c][r].first : c \in all} = T \cup {x}
    OBVIOUS
  <2>2. T \in SUBSET Nat /\ T # {} /\ x \in Nat
    BY <1>2 DEF Stats
  <2> HIDE DEF T, x, all
  <2>3. PICK m \in T : \A y \in T : m <= y
    BY <2>2, LeastExists
  <2>4. Min(T) = m /\ Min(T \cup {x}) = MinOf(m, x)
    BY <2>2, <2>3, MinExtended
  <2> QED
    BY <2>1, <2>4 DEF T, x
<1>7. Max({Share[c][r].last : c \in all})
        = MaxOf(Max({Share[c][r].last : c \in parts}), Share[b][r].last)
  <2> DEFINE T == {Share[c][r].last : c \in parts}
             x == Share[b][r].last
             f == [c \in parts |-> Share[c][r].last]
  <2>1. {Share[c][r].last : c \in all} = T \cup {x}
    OBVIOUS
  <2>2. T \in SUBSET Nat /\ x \in Nat /\ f \in [parts -> Nat]
    BY <1>2 DEF Stats
  <2>3. PICK c \in parts : \A d \in parts : f[d] <= f[c]
    <3> HIDE DEF f
    <3> QED
      BY <1>1, <2>2, GreatestExists
  <2>4. f[c] \in T /\ \A y \in T : f[c] >= y
    BY <2>2, <2>3
  <2> HIDE DEF T, x, f, all
  <2>5. Max(T) = f[c] /\ Max(T \cup {x}) = MaxOf(f[c], x)
    BY <2>2, <2>4, MaxExtended
  <2> QED
    BY <2>1, <2>5 DEF T, x
<1> QED
  BY <1>4, <1>5, <1>6, <1>7 DEF Summary, Merged

\* The inductive invariant of RowsExact: the locks, what is pending and what is
\* counted say what a commit is about to add, and every row is exact so far.
ExactInv ==
  /\ LocksInv
  /\ NoLostUpdate
  /\ BatchAtomic
  /\ CountedTouched
  /\ \A r \in Rows : RowExact(r)

\* Nothing but a commit changes a committed row or what is counted.
LEMMA OthersLeaveTables ==
  ASSUME NEW b \in Batches,
         \/ Arrive(b)
         \/ Progress(b) /\ ~Commit(b)
         \/ Failure(b)
         \/ Crash
         \/ UNCHANGED vars
  PROVE  table' = table /\ counted' = counted
BY DEF Arrive, Progress, Failure, InsertRows, Upsert, Write, Release, Retry, Confirm,
       SavepointFails, AttemptFails, CommitLost, Crash, vars

\* A commit adds the share of its batch to the rows it has locked, once.
LEMMA CommitExact ==
  ASSUME ExactInv, NEW b \in Batches, Commit(b)
  PROVE  CountedTouched' /\ \A r \in Rows : RowExact(r)'
<1>1. Land(b) /\ at[b] = "commit"
  BY DEF Commit
<1>2. counted[b] = {} /\ Locked(b) \subseteq Touched(b)
  BY <1>1 DEF ExactInv, LocksInv, IngestTypeOK, BatchAtomic, Unstored
<1>3. /\ counted'[b] = Locked(b)
      /\ \A c \in Batches : c # b => counted'[c] = counted[c]
  BY <1>1, <1>2 DEF ExactInv, LocksInv, IngestTypeOK, Land
<1>4. CountedTouched'
  BY <1>2, <1>3 DEF ExactInv, CountedTouched, Touched
<1>5. ASSUME NEW r \in Rows, r \notin Locked(b) PROVE RowExact(r)'
  <2>1. Parts(r)' = Parts(r)
    BY <1>2, <1>3, <1>5 DEF Parts
  <2>2. /\ r \in DOMAIN table' <=> r \in DOMAIN table
        /\ r \in DOMAIN table => table'[r] = table[r]
    BY <1>1, <1>5 DEF Land
  <2>3. RowExact(r)
    BY DEF ExactInv
  <2> QED
    BY <2>1, <2>2, <2>3 DEF RowExact, Summary
<1>6. ASSUME NEW r \in Rows, r \in Locked(b) PROVE RowExact(r)'
  <2>1. /\ Parts(r)' = Parts(r) \cup {b}
        /\ b \notin Parts(r)
    BY <1>2, <1>3, <1>6 DEF Parts
  <2>2. r \in DOMAIN table' /\ table'[r] = Upserted(b, r)
    BY <1>1, <1>6 DEF Land, ExactInv, NoLostUpdate
  <2>3. r \in Touched(b) /\ \A c \in Parts(r) : r \in Touched(c)
    BY <1>2, <1>6 DEF ExactInv, CountedTouched, Parts
  <2>4. RowExact(r)
    BY DEF ExactInv
  <2>5. Summary(r, Parts(r) \cup {b}) = Upserted(b, r)
    <3>1. CASE Parts(r) = {}
      <4>1. Parts(r) \cup {b} = {b} /\ Upserted(b, r) = Share[b][r]
        BY <2>4, <3>1 DEF RowExact, Upserted
      <4> QED
        BY <2>3, <4>1, SummaryOne
    <3>2. CASE Parts(r) # {}
      <4>1. Upserted(b, r) = Merged(Summary(r, Parts(r)), Share[b][r])
        BY <2>4, <3>2 DEF RowExact, Upserted
      <4>2. Parts(r) \in SUBSET Batches
        BY DEF Parts
      <4> QED
        BY <2>1, <2>3, <3>2, <4>1, <4>2, SummaryMore
    <3> QED
      BY <3>1, <3>2
  <2>6. Summary(r, Parts(r))' = Summary(r, Parts(r)')
    BY DEF Summary
  <2> QED
    BY <2>1, <2>2, <2>5, <2>6 DEF RowExact
<1> QED
  BY <1>4, <1>5, <1>6

\* In every reachable state the tables hold exactly what was counted.
THEOREM ExactInvariant == Spec => []ExactInv
<1>1. Init => CountedTouched /\ \A r \in Rows : RowExact(r)
  BY NoneTyped DEF Init, CountedTouched, RowExact, Parts
<1>2. ExactInv /\ [Next]_vars => (CountedTouched /\ \A r \in Rows : RowExact(r))'
  <2> SUFFICES ASSUME ExactInv, [Next]_vars
               PROVE  CountedTouched' /\ \A r \in Rows : RowExact(r)'
    OBVIOUS
  <2>1. ASSUME NEW b \in Batches, Commit(b)
        PROVE  CountedTouched' /\ \A r \in Rows : RowExact(r)'
    BY <2>1, CommitExact
  <2>2. ASSUME table' = table, counted' = counted
        PROVE  CountedTouched' /\ \A r \in Rows : RowExact(r)'
    BY <2>2 DEF ExactInv, CountedTouched, RowExact, Parts, Summary
  <2>3. CASE \E b \in Batches : Arrive(b) \/ Progress(b) \/ Failure(b)
    <3>1. PICK b \in Batches : Arrive(b) \/ Progress(b) \/ Failure(b)
      BY <2>3
    <3>2. CASE Commit(b)
      BY <2>1, <3>2
    <3>3. CASE ~Commit(b)
      BY <2>2, <3>1, <3>3, OthersLeaveTables
    <3> QED
      BY <3>2, <3>3
  <2>4. CASE Crash \/ UNCHANGED vars
    BY <2>2, <2>4 DEF Crash, vars
  <2> QED
    BY <2>3, <2>4 DEF Next, Done
<1>3. ExactInv <=> /\ LocksInv /\ NoLostUpdate /\ BatchAtomic
                   /\ CountedTouched /\ \A r \in Rows : RowExact(r)
  BY DEF ExactInv
<1> HIDE DEF Spec
<1>4. Spec => Init /\ [][Next]_vars
  BY DEF Spec
<1> QED
  BY LocksInvariant, NoLostUpdateHolds, BatchAtomicHolds, <1>1, <1>2, <1>3, <1>4, PTL

\* However many batches come, whichever fail, are retried or overlap: a row of
\* the two tables is the sum of the batches committed to it, each counted once.
THEOREM RowsExactHolds == Spec => []RowsExact
<1>1. ExactInv => RowsExact
  BY DEF ExactInv, RowsExact, RowExact, Parts, Summary
<1> QED
  BY ExactInvariant, <1>1, PTL

================================================================================
