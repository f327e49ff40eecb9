----------------------------- MODULE ExplainProofs -----------------------------
(***************************************************************************)
(* Proofs about Explain: types; what the loop's AI stage may do (at most   *)
(* AI_MAX_PER_CYCLE incidents, two requests for each, answers only, no     *)
(* request once it has paused), and that its commit therefore never leaves *)
(* an answered incident without an answer.                                 *)
(***************************************************************************)
EXTENDS Explain, FiniteSetTheorems, TLAPS

AIState == [by : {"nobody", "loop", "manual"}, todo : SUBSET Ids,
            again : Ids \cup {NoId}, requests : Nat, staged : [Ids -> Staged]]
PostState == [at : {"idle", "calling", "retrying", "answered"},
              id : Ids \cup {NoId}, staged : Staged]

LEMMA IdleAIType == NotStaged \in Staged /\ IdleAI \in AIState /\ IdlePost \in PostState
<1>1. NotStaged \in Staged
  BY DEF Staged
<1> QED
  BY <1>1 DEF IdleAI, IdlePost, AIState, PostState

\* The state of a handler or a stage after a step of it.
LEMMA PostUpdate ==
  ASSUME TypeOK, NEW r \in Posts, NEW state \in PostState, post' = [post EXCEPT ![r] = state]
  PROVE  post' \in [Posts -> PostState]
BY DEF TypeOK, PostState

\* What a request that ended leaves of a stage: the incident is done with, its
\* row staged, or the request is to be made once more.
Handled(i, row) == [ai EXCEPT !.todo = @ \ {i}, !.again = NoId, !.requests = @ + 1,
                              !.staged[i] = row]
HandledUncounted(i, row) ==
  [ai EXCEPT !.todo = @ \ {i}, !.again = NoId, !.staged[i] = row]

LEMMA AIUpdate ==
  ASSUME TypeOK, NEW i \in Ids, NEW row \in Staged
  PROVE  /\ Handled(i, row) \in AIState /\ HandledUncounted(i, row) \in AIState
         /\ [ai EXCEPT !.again = i] \in AIState
         /\ [ai EXCEPT !.again = i, !.requests = @ + 1] \in AIState
         /\ [ai EXCEPT !.todo = {}, !.again = NoId, !.requests = @ + 1] \in AIState
<1>1. ai \in AIState /\ ai.staged \in [Ids -> Staged] /\ ai.todo \in SUBSET Ids
      /\ ai.requests + 1 \in Nat
  BY DEF TypeOK, AIState
<1> DEFINE rows == [ai.staged EXCEPT ![i] = row]
<1>2. /\ rows \in [Ids -> Staged] /\ ai.todo \ {i} \in SUBSET Ids
      /\ ai.requests \in Nat /\ ai.requests + 1 \in Nat
  BY <1>1 DEF AIState
<1>3. /\ Handled(i, row) = [ai EXCEPT !.todo = ai.todo \ {i}, !.again = NoId,
                              !.requests = ai.requests + 1, !.staged = rows]
      /\ HandledUncounted(i, row) = [ai EXCEPT !.todo = ai.todo \ {i}, !.again = NoId,
                                       !.requests = ai.requests, !.staged = rows]
  BY <1>1 DEF Handled, HandledUncounted, AIState
<1> HIDE DEF rows
<1>4. \A n \in Nat : [ai EXCEPT !.todo = ai.todo \ {i}, !.again = NoId,
                               !.requests = n, !.staged = rows] \in AIState
  BY <1>1, <1>2 DEF AIState
<1>5. Handled(i, row) \in AIState /\ HandledUncounted(i, row) \in AIState
  BY <1>2, <1>3, <1>4, Zenon
<1> QED
  BY <1>1, <1>5 DEF AIState

LEMMA StageRowType ==
  ASSUME NEW i, NEW text \in Texts
  PROVE  /\ StageRow(i, text) \in Staged
         /\ StageRow(i, text) # NotStaged
         /\ StageRow(i, text).text = text
<1>1. StageRow(i, text).writes \in SUBSET {"text", "available"}
  BY DEF StageRow
<1>2. StageRow(i, text).op \in {"insert", "update"} /\ StageRow(i, text).text = text
  BY DEF StageRow
<1> QED
  BY <1>1, <1>2 DEF StageRow, Staged, NotStaged

LEMMA TextOfType ==
  ASSUME NEW reply, NEW writer \in Answers
  PROVE  TextOf(reply, writer) \in Texts
BY DEF TextOf, Texts

LEMMA AfterType ==
  ASSUME TypeOK, NEW i \in Ids, NEW row \in Staged
  PROVE  After(i, row) \in Rows
<1>1. explanations[i] \in Rows /\ row.text \in Texts \cup {"none"}
  BY DEF TypeOK, Staged, NotStaged
<1>2. (row.text \in Answers) \in BOOLEAN
  OBVIOUS
<1>3. After(i, row).text \in Texts \cup {"none"}
  BY <1>1 DEF After, Rows
<1>4. After(i, row).available \in BOOLEAN
  BY <1>1, <1>2, Zenon DEF After, Rows
<1>5. After(i, row) = [text |-> After(i, row).text, available |-> After(i, row).available]
  BY DEF After
<1> QED
  BY <1>3, <1>4, <1>5 DEF Rows

LEMMA InitType == Init => TypeOK
<1>1. NoRow \in Rows
  BY DEF NoRow, Rows
<1> QED
  BY <1>1, IdleAIType DEF Init, TypeOK, AIState, PostState

\* The three ends of a request of the loop.
LEMMA LoopEnds ==
  ASSUME NEW i \in Ids, LoopExplains(i)
  PROVE  \/ /\ ai' = [ai EXCEPT !.again = i, !.requests = @ + 1]
            /\ ai.again # i /\ paused' = paused
         \/ ai' = Handled(i, StageRow(i, "loop")) /\ paused' = paused
         \/ ai' = [ai EXCEPT !.todo = {}, !.again = NoId, !.requests = @ + 1] /\ paused' = TRUE
<1>1. PICK reply \in Replies(i, ai.again = i) :
        \/ /\ reply = "rejected"
           /\ ai' = [ai EXCEPT !.again = i, !.requests = @ + 1] /\ paused' = paused
        \/ /\ reply = "answered"
           /\ ai' = Handled(i, StageRow(i, "loop")) /\ paused' = paused
        \/ /\ reply = "failed"
           /\ ai' = [ai EXCEPT !.todo = {}, !.again = NoId, !.requests = @ + 1]
           /\ paused' = TRUE
  BY DEF LoopExplains, Handled
<1>2. reply = "rejected" => ai.again # i
  BY DEF Replies
<1> QED
  BY <1>1, <1>2

LEMMA StageType ==
  ASSUME TypeOK, \/ LoopSelects \/ ManualSelects \/ CommitAI \/ AIFails
                 \/ \E i \in Ids : LoopExplains(i) \/ ManualExplains(i)
  PROVE  TypeOK'
<1>1. CASE LoopSelects \/ ManualSelects \/ AIFails
  <2>1. FirstPending \subseteq Ids /\ {i \in Ids : status[i] = "open"} \subseteq Ids
    BY DEF FirstPending, Pending
  <2> QED
    BY <1>1, <2>1, IdleAIType DEF LoopSelects, ManualSelects, AIFails, IdleAI, TypeOK, AIState
<1>2. CASE CommitAI
  <2>1. ai.staged \in [Ids -> Staged]
    BY DEF TypeOK
  <2>2. explanations' \in [Ids -> Rows]
    BY <1>2, <2>1, AfterType DEF CommitAI, TypeOK
  <2> QED
    BY <1>2, <2>2, IdleAIType DEF CommitAI, TypeOK, AIState
<1>3. ASSUME NEW i \in Ids, LoopExplains(i) \/ ManualExplains(i) PROVE TypeOK'
  <2>1. ai' \in AIState
    <3>1. CASE LoopExplains(i)
      BY <3>1, LoopEnds, AIUpdate, StageRowType DEF Texts, Answers
    <3>2. CASE ManualExplains(i)
      <4>1. PICK reply : ai' = IF reply = "rejected" THEN [ai EXCEPT !.again = i]
                               ELSE HandledUncounted(i, StageRow(i, TextOf(reply, "asked")))
        BY <3>2 DEF ManualExplains, HandledUncounted
      <4>2. StageRow(i, TextOf(reply, "asked")) \in Staged
        BY StageRowType, TextOfType DEF Answers
      <4> HIDE DEF Answers
      <4> QED
        BY <4>1, <4>2, AIUpdate
    <3> QED
      BY <1>3, <3>1, <3>2
  <2>2. paused' \in BOOLEAN /\ UNCHANGED <<status, explanations, groq, post>>
    BY <1>3, LoopEnds DEF LoopExplains, ManualExplains, TypeOK
  <2> QED
    BY <2>1, <2>2 DEF TypeOK, AIState
<1> QED
  BY <1>1, <1>2, <1>3

\* The row a handler commits is one of an incident, or none.
LEMMA PostRow == ASSUME TypeOK, NEW r \in Posts PROVE post[r].staged \in Staged
BY DEF TypeOK

LEMMA PostType ==
  ASSUME TypeOK, NEW r \in Posts, PostArrives(r) \/ PostExplains(r) \/ PostCommits(r)
  PROVE  TypeOK'
<1>1. CASE PostArrives(r)
  <2>1. PICK i \in Ids : post' = [post EXCEPT ![r].at = "calling", ![r].id = i]
    BY <1>1 DEF PostArrives
  <2>2. post[r] \in PostState
    BY DEF TypeOK, PostState
  <2>3. [post[r] EXCEPT !.at = "calling", !.id = i] \in PostState
    BY <2>2 DEF PostState
  <2>4. post' = [post EXCEPT ![r] = [post[r] EXCEPT !.at = "calling", !.id = i]]
    BY <2>1
  <2>5. post' \in [Posts -> PostState]
    BY <2>3, <2>4, PostUpdate
  <2> QED
    BY <1>1, <2>5 DEF PostArrives, TypeOK, PostState
<1>2. CASE PostExplains(r)
  <2>1. PICK reply :
          post' = IF reply = "rejected" THEN [post EXCEPT ![r].at = "retrying"]
                  ELSE [post EXCEPT ![r].at = "answered",
                          ![r].staged = StageRow(post[r].id, TextOf(reply, "asked"))]
    BY <1>2 DEF PostExplains
  <2> DEFINE row == StageRow(post[r].id, TextOf(reply, "asked"))
             state == IF reply = "rejected" THEN [post[r] EXCEPT !.at = "retrying"]
                      ELSE [post[r] EXCEPT !.at = "answered", !.staged = row]
  <2>2. row \in Staged
    BY StageRowType, TextOfType DEF Answers
  <2>3. post[r] \in PostState
    BY DEF TypeOK, PostState
  <2>4. post' = [post EXCEPT ![r] = state]
    BY <2>1
  <2> HIDE DEF row
  <2>5. state \in PostState
    BY <2>2, <2>3 DEF PostState
  <2> HIDE DEF state
  <2>6. post' \in [Posts -> PostState]
    BY <2>4, <2>5, PostUpdate
  <2> QED
    BY <1>2, <2>6 DEF PostExplains, TypeOK, PostState
<1>3. CASE PostCommits(r)
  <2>1. explanations' \in [Ids -> Rows]
    BY <1>3, AfterType, PostRow DEF PostCommits, TypeOK
  <2> QED
    BY <1>3, <2>1, IdleAIType DEF PostCommits, TypeOK, PostState
<1> QED
  BY <1>1, <1>2, <1>3

\* Types hold along every behaviour.
THEOREM ExplainTypeCorrect == Spec => []TypeOK
<1>1. TypeOK /\ [Next]_explainVars => TypeOK'
  <2> SUFFICES ASSUME TypeOK, [Next]_explainVars PROVE TypeOK'
    OBVIOUS
  <2>1. CASE EngineRuns \/ PauseEnds \/ GroqChanges \/ UNCHANGED explainVars
    BY <2>1 DEF EngineRuns, PauseEnds, GroqChanges, explainVars, TypeOK
  <2>2. CASE Restart
    BY <2>2, IdleAIType DEF Restart, TypeOK, AIState, PostState
  <2> QED
    BY <2>1, <2>2, StageType, PostType DEF Next
<1> QED
  BY InitType, <1>1, PTL DEF Spec

--------------------------------------------------------------------------------
(* What a stage of the loop may touch.                                         *)

\* The incidents a stage has staged a row for, or still will.
Touched == {i \in Ids : ai.staged[i] # NotStaged} \cup ai.todo

\* Two requests are kept for each incident still to come; one is used up when the
\* incident in hand is to be asked for once more.
Budget ==
  /\ ai.again # NoId => ai.again \in ai.todo
  /\ ai.requests + 2 * Cardinality(ai.todo)
       <= 2 * MaxPerCycle + (IF ai.again = NoId THEN 0 ELSE 1)

\* What the loop's stage holds fits its cap and its requests their budget; what it
\* has staged are answers, and no incident is left once it has paused.
GentleInv ==
  ai.by = "loop" => /\ IsFiniteSet(Touched) /\ Cardinality(Touched) <= MaxPerCycle
                    /\ Budget
                    /\ \A i \in Ids : ai.staged[i] # NotStaged => ai.staged[i].text = "loop"
                    /\ paused => ai.todo = {}

\* The pending incidents before incident i.
Before(i) == {j \in Pending : j < i}

LEMMA BeforeFinite ==
  ASSUME NEW i \in Pending
  PROVE  /\ i \in Nat
         /\ IsFiniteSet(Before(i)) /\ Cardinality(Before(i)) \in Nat
<1>1. i \in Nat /\ Pending \subseteq Nat
  BY IdsAssumption DEF Pending
<1>2. ASSUME NEW j \in Before(i) PROVE j \in Nat /\ j <= i
  BY <1>1 DEF Before
<1>3. Before(i) \in SUBSET Nat
  BY <1>2
<1>4. IsFiniteSet(Before(i))
  BY <1>1, <1>2, <1>3, FS_BoundedSetOfNaturals
<1> QED
  BY <1>1, <1>4, FS_CardinalityType

LEMMA BeforeGrows ==
  ASSUME NEW i \in Pending, NEW k \in Pending, i < k
  PROVE  Cardinality(Before(i)) < Cardinality(Before(k))
<1>1. i \in Nat /\ k \in Nat /\ IsFiniteSet(Before(k))
      /\ Cardinality(Before(i)) \in Nat /\ Cardinality(Before(k)) \in Nat
  BY BeforeFinite
<1>2. ASSUME NEW j \in Before(i) PROVE j \in Before(k)
  <2>1. j \in Pending /\ j < i /\ j \in Nat
    BY BeforeFinite DEF Before
  <2>2. j < k
    BY <1>1, <2>1
  <2> QED
    BY <2>1, <2>2 DEF Before
<1>3. i \in Before(k)
  BY DEF Before
<1>4. i \notin Before(i)
  BY <1>1 DEF Before
<1>5. Before(i) \in SUBSET Before(k) /\ Before(i) # Before(k)
  BY <1>2, <1>3, <1>4
<1>6. /\ Cardinality(Before(i)) <= Cardinality(Before(k))
      /\ Cardinality(Before(k)) = Cardinality(Before(i)) => Before(k) = Before(i)
  BY <1>1, <1>5, FS_Subset
<1> QED
  BY <1>1, <1>5, <1>6

\* ORDER BY id LIMIT n keeps at most n incidents: each is told by how many
\* pending ones come before it.
LEMMA FirstPendingBound ==
  IsFiniteSet(FirstPending) /\ Cardinality(FirstPending) <= MaxPerCycle
<1> DEFINE rank == [i \in FirstPending |-> Cardinality(Before(i))]
           Ranks == 0 .. MaxPerCycle - 1
<1>1. MaxPerCycle \in Nat \ {0}
  BY IdsAssumption
<1>2. ASSUME NEW i \in FirstPending
      PROVE  i \in Pending /\ Cardinality(Before(i)) < MaxPerCycle
  BY DEF FirstPending, Before
<1>3. ASSUME NEW i \in FirstPending PROVE Cardinality(Before(i)) \in Ranks
  BY <1>1, <1>2, BeforeFinite
<1>4. ASSUME NEW i \in FirstPending, NEW k \in FirstPending, rank[i] = rank[k] PROVE i = k
  <2>1. i \in Pending /\ k \in Pending /\ i \in Nat /\ k \in Nat
    BY <1>2, BeforeFinite
  <2>2. Cardinality(Before(i)) = Cardinality(Before(k)) /\ Cardinality(Before(k)) \in Nat
    BY <1>4, <2>1, BeforeFinite
  <2>3. ~(i < k) /\ ~(k < i)
    BY <2>1, <2>2, BeforeGrows
  <2> QED
    BY <2>1, <2>3
<1>5. rank \in [FirstPending -> Ranks] /\ DOMAIN rank = FirstPending
  BY <1>3
<1> HIDE DEF rank
<1>6. rank \in Injection(FirstPending, Ranks)
  BY <1>4, <1>5 DEF Injection, IsInjective
<1>7. IsFiniteSet(Ranks) /\ Cardinality(Ranks) = MaxPerCycle
  BY <1>1, FS_Interval
<1> HIDE DEF Ranks
<1> QED
  BY <1>6, <1>7, FS_Injection

LEMMA GentleInit == Init => GentleInv
BY DEF Init, IdleAI, GentleInv

\* A stage that goes on touches no incident it had not chosen.
LEMMA GentleShrinks ==
  ASSUME TypeOK, GentleInv, ai.by = "loop", Touched' \subseteq Touched, Budget',
         \A i \in Ids : ai'.staged[i] # NotStaged => ai'.staged[i].text = "loop",
         paused' => ai'.todo = {}
  PROVE  GentleInv'
<1>1. /\ IsFiniteSet(Touched) /\ Cardinality(Touched) <= MaxPerCycle
      /\ Touched' \in SUBSET Touched
  BY DEF GentleInv
<1>2. /\ IsFiniteSet(Touched') /\ Cardinality(Touched') <= Cardinality(Touched)
      /\ Cardinality(Touched) \in Nat /\ Cardinality(Touched') \in Nat
  <2> HIDE DEF Touched
  <2> QED
    BY <1>1, FS_Subset, FS_CardinalityType
<1>3. Cardinality(Touched') <= MaxPerCycle
  BY <1>1, <1>2, IdsAssumption
<1> QED
  BY <1>2, <1>3 DEF GentleInv

\* What the loop still has before it, counted.
LEMMA TodoCounted ==
  ASSUME TypeOK, GentleInv, ai.by = "loop"
  PROVE  /\ IsFiniteSet(ai.todo) /\ Cardinality(ai.todo) \in Nat
         /\ ai.requests \in Nat /\ MaxPerCycle \in Nat
         /\ \A i \in ai.todo : /\ IsFiniteSet(ai.todo \ {i})
                               /\ Cardinality(ai.todo \ {i}) = Cardinality(ai.todo) - 1
                               /\ Cardinality(ai.todo) >= 1
<1>1. IsFiniteSet(ai.todo)
  <2>1. IsFiniteSet(Touched) /\ ai.todo \in SUBSET Touched
    BY DEF GentleInv, Touched
  <2> QED
    BY <2>1, FS_Subset
<1>2. Cardinality(ai.todo) \in Nat
  BY <1>1, FS_CardinalityType
<1>3. ASSUME NEW i \in ai.todo
      PROVE  /\ IsFiniteSet(ai.todo \ {i})
             /\ Cardinality(ai.todo \ {i}) = Cardinality(ai.todo) - 1
             /\ Cardinality(ai.todo) >= 1
  <2>1. IsFiniteSet(ai.todo \ {i}) /\ Cardinality(ai.todo \ {i}) = Cardinality(ai.todo) - 1
    BY <1>1, FS_RemoveElement
  <2>2. Cardinality(ai.todo \ {i}) \in Nat
    BY <2>1, FS_CardinalityType
  <2> QED
    BY <1>2, <2>1, <2>2
<1> QED
  BY <1>1, <1>2, <1>3, IdsAssumption DEF TypeOK

\* One request of the loop, however it ends.
LEMMA GentleRequest ==
  ASSUME TypeOK, GentleInv, NEW i \in Ids, LoopExplains(i)
  PROVE  GentleInv'
<1> DEFINE n == Cardinality(ai.todo)
<1>1. ai.by = "loop" /\ i \in ai.todo /\ ai.again \in {NoId, i} /\ i # NoId
  BY IdsAssumption DEF LoopExplains, NoId
<1>2. /\ n \in Nat /\ n >= 1 /\ ai.requests \in Nat /\ MaxPerCycle \in Nat
      /\ Cardinality(ai.todo \ {i}) = n - 1
      /\ ai.requests + 2 * n <= 2 * MaxPerCycle + (IF ai.again = NoId THEN 0 ELSE 1)
  BY <1>1, TodoCounted DEF GentleInv, Budget
<1>3. ai \in AIState
  BY DEF TypeOK, AIState
<1> HIDE DEF n
<1>4. CASE /\ ai' = [ai EXCEPT !.again = i, !.requests = @ + 1]
           /\ ai.again # i /\ paused' = paused
  <2>1. /\ ai'.todo = ai.todo /\ ai'.staged = ai.staged /\ ai'.again = i
        /\ ai'.requests = ai.requests + 1
    BY <1>3, <1>4 DEF AIState
  <2>2. Touched' \subseteq Touched
    BY <2>1 DEF Touched
  <2>3. ai.again = NoId
    BY <1>1, <1>4
  <2>4. ai.requests + 1 + 2 * n <= 2 * MaxPerCycle + 1
    BY <1>2, <2>3
  <2>5. Budget'
    BY <1>1, <2>1, <2>4 DEF Budget, n
  <2> QED
    BY <1>1, <1>4, <2>1, <2>2, <2>5, GentleShrinks DEF GentleInv
<1>5. CASE ai' = Handled(i, StageRow(i, "loop")) /\ paused' = paused
  <2>1. /\ ai'.todo = ai.todo \ {i} /\ ai'.again = NoId /\ ai'.requests = ai.requests + 1
        /\ ai'.staged = [ai.staged EXCEPT ![i] = StageRow(i, "loop")]
    BY <1>3, <1>5 DEF AIState, Handled
  <2>2. ai.staged \in [Ids -> Staged]
    BY DEF TypeOK
  <2>3. Touched' \subseteq Touched
    BY <1>1, <2>1, <2>2 DEF Touched
  <2>4. \A j \in Ids : ai'.staged[j] # NotStaged => ai'.staged[j].text = "loop"
    BY <1>1, <2>1, <2>2, StageRowType DEF GentleInv, Texts, Answers
  <2>5. ai.requests + 1 + 2 * (n - 1) <= 2 * MaxPerCycle
    BY <1>2
  <2>6. Budget'
    BY <1>2, <2>1, <2>5 DEF Budget
  <2> QED
    BY <1>1, <1>5, <2>1, <2>3, <2>4, <2>6, GentleShrinks DEF GentleInv
<1>6. CASE ai' = [ai EXCEPT !.todo = {}, !.again = NoId, !.requests = @ + 1] /\ paused' = TRUE
  <2>1. /\ ai'.todo = {} /\ ai'.staged = ai.staged /\ ai'.again = NoId
        /\ ai'.requests = ai.requests + 1
    BY <1>3, <1>6 DEF AIState
  <2>2. Touched' \subseteq Touched
    BY <2>1 DEF Touched
  <2>3. ai.requests + 1 + 2 * 0 <= 2 * MaxPerCycle
    BY <1>2
  <2>4. Cardinality({}) = 0
    BY FS_EmptySet
  <2>5. ai'.requests + 2 * Cardinality(ai'.todo) <= 2 * MaxPerCycle + 0
    BY <1>2, <2>1, <2>3, <2>4
  <2>6. Budget'
    BY <2>1, <2>5 DEF Budget
  <2> QED
    BY <1>1, <2>1, <2>2, <2>6, GentleShrinks DEF GentleInv
<1> QED
  BY <1>4, <1>5, <1>6, LoopEnds

LEMMA GentleStep == TypeOK /\ GentleInv /\ [Next]_explainVars => GentleInv'
<1> SUFFICES ASSUME TypeOK, GentleInv, [Next]_explainVars PROVE GentleInv'
  OBVIOUS
<1>1. CASE LoopSelects
  <2>1. /\ ai'.by = "loop" /\ ai'.todo = FirstPending /\ ai'.staged = IdleAI.staged /\ ~paused'
        /\ ai'.again = NoId /\ ai'.requests = 0
    BY <1>1 DEF LoopSelects, IdleAI
  <2>2. Touched' = FirstPending
    BY <2>1 DEF Touched, IdleAI
  <2>3. /\ IsFiniteSet(FirstPending) /\ Cardinality(FirstPending) \in Nat
        /\ Cardinality(FirstPending) <= MaxPerCycle /\ MaxPerCycle \in Nat
    BY FirstPendingBound, FS_CardinalityType, IdsAssumption
  <2>4. 0 + 2 * Cardinality(FirstPending) <= 2 * MaxPerCycle + 0
    BY <2>3
  <2>5. Budget'
    <3>1. ai'.requests + 2 * Cardinality(ai'.todo) <= 2 * MaxPerCycle + 0
      BY <2>1, <2>4
    <3> QED
      BY <2>1, <3>1 DEF Budget
  <2> QED
    BY <2>1, <2>2, <2>3, <2>5 DEF GentleInv, IdleAI
<1>2. ASSUME NEW i \in Ids, LoopExplains(i) PROVE GentleInv'
  BY <1>2, GentleRequest
<1>3. CASE ai'.by # "loop"
  BY <1>3 DEF GentleInv
<1>4. CASE ManualSelects \/ CommitAI \/ AIFails \/ Restart
  <2>1. ai'.by \in {"manual", "nobody"}
    <3>1. ManualSelects => ai'.by = "manual"
      BY DEF ManualSelects, IdleAI
    <3>2. CommitAI \/ AIFails \/ Restart => ai' = IdleAI
      BY DEF CommitAI, AIFails, Restart
    <3> QED
      BY <1>4, <3>1, <3>2 DEF IdleAI
  <2> QED
    BY <1>3, <2>1
<1>5. ASSUME NEW i \in Ids, ManualExplains(i) PROVE GentleInv'
  <2>1. ai.by = "manual" /\ ai'.by = ai.by
    BY <1>5 DEF ManualExplains, TypeOK
  <2> QED
    BY <1>3, <2>1
<1>6. CASE ai' = ai /\ (paused' = paused \/ ~paused')
  BY <1>6 DEF GentleInv, Touched, Budget
<1>7. CASE EngineRuns \/ GroqChanges \/ PauseEnds \/ UNCHANGED explainVars
           \/ \E r \in Posts : PostArrives(r) \/ PostExplains(r) \/ PostCommits(r)
  BY <1>6, <1>7
     DEF EngineRuns, GroqChanges, PauseEnds, PostArrives, PostExplains, PostCommits, explainVars
<1> QED
  BY <1>1, <1>2, <1>4, <1>5, <1>7 DEF Next

THEOREM GentleInvariant == Spec => []GentleInv
<1>1. TypeOK /\ GentleInv /\ [Next]_explainVars => GentleInv'
  BY GentleStep
<1> QED
  BY GentleInit, <1>1, ExplainTypeCorrect, PTL DEF Spec

\* A stage of the loop takes on at most AI_MAX_PER_CYCLE incidents, makes at most
\* twice as many requests, and none once it has paused the AI, however many
\* incidents are pending and however each request ends.
THEOREM LoopIsGentleHolds == Spec => []LoopIsGentle
<1>1. TypeOK /\ GentleInv => LoopIsGentle
  <2> SUFFICES ASSUME TypeOK, GentleInv, ai.by = "loop" PROVE LoopIsGentle
    BY DEF LoopIsGentle
  <2>1. /\ Cardinality(ai.todo) \in Nat /\ ai.requests \in Nat /\ MaxPerCycle \in Nat
        /\ \A i \in ai.todo : Cardinality(ai.todo) >= 1
    BY TodoCounted
  <2>2. ai.again # NoId => Cardinality(ai.todo) >= 1
    BY <2>1 DEF GentleInv, Budget
  <2>3. ai.requests + 2 * Cardinality(ai.todo)
          <= 2 * MaxPerCycle + (IF ai.again = NoId THEN 0 ELSE 1)
    BY DEF GentleInv, Budget
  <2>4. ai.requests <= 2 * MaxPerCycle
    BY <2>1, <2>2, <2>3
  <2> QED
    BY <2>4 DEF GentleInv, LoopIsGentle, Touched
<1> QED
  BY <1>1, ExplainTypeCorrect, GentleInvariant, PTL

\* The statement of an answer of the loop, where the row is one that is marked as
\* an answer already.
LEMMA AnswerKept ==
  ASSUME TypeOK, GentleInv, [Next]_explainVars, ai.by = "loop", ai'.by # "loop",
         NEW i \in Ids, Answered(explanations[i])
  PROVE  /\ Answered(explanations'[i])
         /\ explanations'[i].text \in {explanations[i].text, "loop"}
<1>1. CASE explanations'[i] = explanations[i]
  BY <1>1
<1>2. CASE CommitAI
  <2>1. ai.staged[i] \in Staged /\ (ai.staged[i] # NotStaged => ai.staged[i].text = "loop")
    BY DEF GentleInv, TypeOK
  <2>2. CASE explanations'[i] = After(i, ai.staged[i])
    <3>1. After(i, ai.staged[i]).text =
            IF "text" \in ai.staged[i].writes THEN ai.staged[i].text ELSE explanations[i].text
      BY DEF After
    <3>2. After(i, ai.staged[i]).available =
            IF "available" \in ai.staged[i].writes THEN ai.staged[i].text \in Answers
            ELSE explanations[i].available
      BY DEF After
    <3>3. "text" \in ai.staged[i].writes \/ "available" \in ai.staged[i].writes
            => ai.staged[i].text = "loop"
      BY <2>1 DEF NotStaged
    <3>4. "loop" \in Answers
      BY DEF Answers
    <3> QED
      BY <2>2, <3>1, <3>2, <3>3, <3>4 DEF Answered
  <2> QED
    BY <1>1, <1>2, <2>2 DEF CommitAI, TypeOK
<1>3. CASE explanations' = explanations
  BY <1>1, <1>3
<1>4. CASE ai' = ai
  BY <1>4
<1> QED
  BY <1>2, <1>3, <1>4
     DEF Next, EngineRuns, LoopSelects, ManualSelects, LoopExplains, ManualExplains, AIFails,
         PostArrives, PostExplains, PostCommits, PauseEnds, GroqChanges, Restart, explainVars

\* Whatever was stored since the loop chose its incidents, and whichever columns
\* its statements write: its commit leaves no answered incident without an answer,
\* and replaces an answer by its own only.
THEOREM LoopKeepsAnswersHolds == Spec => LoopKeepsAnswers
<1>1. TypeOK /\ GentleInv /\ [Next]_explainVars =>
        [ai.by = "loop" /\ ai'.by # "loop" =>
           \A i \in Ids : Answered(explanations[i]) =>
             /\ Answered(explanations'[i])
             /\ explanations'[i].text \in {explanations[i].text, "loop"}]_explainVars
  BY AnswerKept
<1> QED
  BY <1>1, ExplainTypeCorrect, GentleInvariant, PTL DEF Spec, LoopKeepsAnswers

================================================================================
