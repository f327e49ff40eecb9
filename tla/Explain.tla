-------------------------------- MODULE Explain --------------------------------
(***************************************************************************)
(* The explanations of incidents (table ai_explanations, one row per       *)
(* incident) and who writes them: the AI stage of the background loop      *)
(* (scheduler._explain_new_incidents), the AI stage of a manual run        *)
(* (pipeline._run_pipeline_with_ai) and POST /api/v1/ai/explain/{id}.      *)
(* The two stages run under PIPELINE_LOCK, as the steps that open and      *)
(* resolve incidents do; the POST handler takes no lock.                   *)
(***************************************************************************)
EXTENDS Integers, FiniteSets

CONSTANTS Ids,           \* incident ids, in the order of their creation
          Posts,         \* POST /ai/explain handlers in flight
          MaxPerCycle,   \* AI_MAX_PER_CYCLE
          Unanswerable   \* incidents whose prompt Groq always rejects

ASSUME IdsAssumption == Ids \subseteq Nat \ {0} /\ MaxPerCycle \in Nat \ {0}

NoId == 0

VARIABLES status,        \* incident -> "new" (not created), "open", "resolved"
          explanations,  \* incident -> its row
          groq,          \* the Groq API answers, in JSON
          paused,        \* time.monotonic() < _ai_paused_until
          ai,            \* the AI stage of the run that holds the lock
          post           \* the POST handlers

explainVars == <<status, explanations, groq, paused, ai, post>>

\* What a row says: an answer, which the loop had made or a request asked for, or
\* the placeholder of a failed call, the same whoever stored it.
Answers == {"loop", "asked"}
Texts == Answers \cup {"placeholder"}

NoRow == [text |-> "none", available |-> FALSE]
Rows == [text : Texts \cup {"none"}, available : BOOLEAN]

\* The row holds an answer and says so (ai_available).
Answered(row) == row.available /\ row.text \in Answers

\* A row written in a session and not committed yet: the columns its statement
\* will write, out of what a row says and ai_available.
NotStaged == [op |-> "none", text |-> "none", writes |-> {}]
Staged == {NotStaged} \cup
          [op : {"insert", "update"}, text : Texts, writes : SUBSET {"text", "available"}]

\* A stage or handler at rest.  "again" is the incident whose request Groq has
\* rejected and which is asked for once more.
IdleAI == [by |-> "nobody", todo |-> {}, again |-> NoId, requests |-> 0,
           staged |-> [i \in Ids |-> NotStaged]]
IdlePost == [at |-> "idle", id |-> NoId, staged |-> NotStaged]

Init ==
  /\ status = [i \in Ids |-> "new"]
  /\ explanations = [i \in Ids |-> NoRow]
  /\ groq = TRUE /\ paused = FALSE
  /\ ai = IdleAI
  /\ post = [r \in Posts |-> IdlePost]

\* The incident engine of a run creates or resolves an incident; it holds the
\* lock, so no AI stage is under way.
EngineRuns ==
  /\ ai.by = "nobody"
  /\ \E i \in Ids :
       \/ /\ status[i] = "new" /\ \A j \in Ids : j < i => status[j] # "new"
          /\ status' = [status EXCEPT ![i] = "open"]
       \/ status[i] = "open" /\ status' = [status EXCEPT ![i] = "resolved"]
  /\ UNCHANGED <<explanations, groq, paused, ai, post>>

Pending == {i \in Ids : status[i] = "open" /\ explanations[i] = NoRow}

\* Mutation: no LIMIT.
FirstPendingUnlimited == Pending

\* ORDER BY id LIMIT AI_MAX_PER_CYCLE
FirstPending == {i \in Pending : Cardinality({j \in Pending : j < i}) < MaxPerCycle}

LoopSelects ==
  /\ ai.by = "nobody" /\ ~paused /\ Pending # {}
  /\ ai' = [IdleAI EXCEPT !.by = "loop", !.todo = FirstPending]
  /\ UNCHANGED <<status, explanations, groq, paused, post>>

ManualSelects ==
  /\ ai.by = "nobody"
  /\ ai' = [IdleAI EXCEPT !.by = "manual", !.todo = {i \in Ids : status[i] = "open"}]
  /\ ai'.todo # {}
  /\ UNCHANGED <<status, explanations, groq, paused, post>>

\* How a request ends.  The first one asks for JSON mode, which Groq may reject
\* (BadRequestError); the second, without it, is the last.  "failed" is any
\* other exception, an answer that does not parse among them.
Replies(i, second) ==
  IF ~groq THEN {"failed"}
  ELSE IF second THEN {IF i \in Unanswerable THEN "failed" ELSE "answered"}
  ELSE {"rejected"} \cup (IF i \in Unanswerable THEN {} ELSE {"answered"})

\* What is stored of a request that ended for good.
TextOf(reply, writer) == IF reply = "answered" THEN writer ELSE "placeholder"

\* Mutation: no default for a missing human_summary.
StageRowNoDefault(i, text) ==
  LET row == explanations[i]
      changed == (IF text \in Answers \/ text # row.text THEN {"text"} ELSE {})
                 \cup (IF row.available # (text \in Answers) THEN {"available"} ELSE {})
  IN  [op |-> IF row = NoRow THEN "insert" ELSE "update",
       text |-> IF text = "placeholder" THEN "none" ELSE text,
       writes |-> IF row = NoRow THEN {"text", "available"} ELSE changed]

\* SELECT the incident's row, which happens after Groq's answer, then insert one
\* or overwrite it: the UPDATE writes the columns that differ from those loaded.
\* No two answers say the same.
StageRow(i, text) ==
  LET row == explanations[i]
      changed == (IF text \in Answers \/ text # row.text THEN {"text"} ELSE {})
                 \cup (IF row.available # (text \in Answers) THEN {"available"} ELSE {})
  IN  [op |-> IF row = NoRow THEN "insert" ELSE "update",
       text |-> text,
       writes |-> IF row = NoRow THEN {"text", "available"} ELSE changed]

\* Mutation: no break after a failed call.
LoopExplainsNoBreak(i) ==
  /\ ai.by = "loop"
  /\ i \in ai.todo /\ \A j \in ai.todo : i <= j
  /\ ai.again \in {NoId, i}
  /\ \E reply \in Replies(i, ai.again = i) :
       \/ /\ reply = "rejected"
          /\ ai' = [ai EXCEPT !.again = i, !.requests = @ + 1] /\ paused' = paused
       \/ /\ reply = "answered"
          /\ ai' = [ai EXCEPT !.todo = @ \ {i}, !.again = NoId, !.requests = @ + 1,
                              !.staged[i] = StageRow(i, "loop")]
          /\ paused' = paused
       \/ /\ reply = "failed"
          /\ ai' = [ai EXCEPT !.todo = @ \ {i}, !.again = NoId, !.requests = @ + 1]
          /\ paused' = TRUE
  /\ UNCHANGED <<status, explanations, groq, post>>

\* Mutation: the loop stores the placeholder too.
LoopExplainsStoresFailure(i) ==
  /\ ai.by = "loop"
  /\ i \in ai.todo /\ \A j \in ai.todo : i <= j
  /\ ai.again \in {NoId, i}
  /\ \E reply \in Replies(i, ai.again = i) :
       \/ /\ reply = "rejected"
          /\ ai' = [ai EXCEPT !.again = i, !.requests = @ + 1]
       \/ /\ reply # "rejected"
          /\ ai' = [ai EXCEPT !.todo = @ \ {i}, !.again = NoId, !.requests = @ + 1,
                              !.staged[i] = StageRow(i, TextOf(reply, "loop"))]
  /\ UNCHANGED <<status, explanations, groq, paused, post>>

\* One request of the loop, which takes incidents in the order of their ids.  A
\* failed call is not stored: it pauses the AI stage and ends it.
LoopExplains(i) ==
  /\ ai.by = "loop"
  /\ i \in ai.todo /\ \A j \in ai.todo : i <= j
  /\ ai.again \in {NoId, i}
  /\ \E reply \in Replies(i, ai.again = i) :
       \/ /\ reply = "rejected"
          /\ ai' = [ai EXCEPT !.again = i, !.requests = @ + 1] /\ paused' = paused
       \/ /\ reply = "answered"
          /\ ai' = [ai EXCEPT !.todo = @ \ {i}, !.again = NoId, !.requests = @ + 1,
                              !.staged[i] = StageRow(i, "loop")]
          /\ paused' = paused
       \/ /\ reply = "failed"
          /\ ai' = [ai EXCEPT !.todo = {}, !.again = NoId, !.requests = @ + 1]
          /\ paused' = TRUE
  /\ UNCHANGED <<status, explanations, groq, post>>

\* One request of a manual run, which stores the placeholder of a failed call
\* like an answer.  Its requests are not counted: nothing bounds them.
ManualExplains(i) ==
  /\ ai.by = "manual"
  /\ i \in ai.todo /\ ai.again \in {NoId, i}
  /\ \E reply \in Replies(i, ai.again = i) :
       ai' = IF reply = "rejected" THEN [ai EXCEPT !.again = i]
             ELSE [ai EXCEPT !.todo = @ \ {i}, !.again = NoId,
                             !.staged[i] = StageRow(i, TextOf(reply, "asked"))]
  /\ UNCHANGED <<status, explanations, groq, paused, post>>

\* incident_id is unique: an INSERT fails when a row appeared meanwhile.
Conflict(i, row) == row.op = "insert" /\ explanations[i] # NoRow

\* Incident i's row once its statement is through.
After(i, row) ==
  [text |-> IF "text" \in row.writes THEN row.text ELSE explanations[i].text,
   available |-> IF "available" \in row.writes THEN row.text \in Answers
                 ELSE explanations[i].available]

\* Mutation: a commit that failed is tried again in the same session.
CommitAIRetries ==
  LET conflict == \E i \in Ids : Conflict(i, ai.staged[i])
  IN  /\ ai.by # "nobody" /\ ai.todo = {}
      /\ explanations' = IF conflict THEN explanations
                         ELSE [i \in Ids |-> After(i, ai.staged[i])]
      /\ ai' = IF conflict THEN ai ELSE IdleAI
      /\ UNCHANGED <<status, groq, paused, post>>

\* One commit for the whole stage: an integrity error loses all its rows.
CommitAI ==
  /\ ai.by # "nobody" /\ ai.todo = {}
  /\ explanations' = IF \E i \in Ids : Conflict(i, ai.staged[i]) THEN explanations
                     ELSE [i \in Ids |-> After(i, ai.staged[i])]
  /\ ai' = IdleAI
  /\ UNCHANGED <<status, groq, paused, post>>

\* The stage raises (evidence query, commit) or its run is cancelled.
AIFails ==
  /\ ai.by # "nobody"
  /\ ai' = IdleAI
  /\ UNCHANGED <<status, explanations, groq, paused, post>>

\* POST /ai/explain/{id} for an incident that exists, open or resolved.
PostArrives(r) ==
  /\ post[r].at = "idle"
  /\ \E i \in Ids : /\ status[i] # "new"
                    /\ post' = [post EXCEPT ![r].at = "calling", ![r].id = i]
  /\ UNCHANGED <<status, explanations, groq, paused, ai>>

PostExplains(r) ==
  /\ post[r].at \in {"calling", "retrying"}
  /\ \E reply \in Replies(post[r].id, post[r].at = "retrying") :
       post' = IF reply = "rejected" THEN [post EXCEPT ![r].at = "retrying"]
               ELSE [post EXCEPT ![r].at = "answered",
                       ![r].staged = StageRow(post[r].id, TextOf(reply, "asked"))]
  /\ UNCHANGED <<status, explanations, groq, paused, ai>>

PostCommits(r) ==
  /\ post[r].at = "answered"
  /\ LET i == post[r].id IN
     explanations' = IF Conflict(i, post[r].staged) THEN explanations
                     ELSE [explanations EXCEPT ![i] = After(i, post[r].staged)]
  /\ post' = [post EXCEPT ![r] = IdlePost]
  /\ UNCHANGED <<status, groq, paused, ai>>

PauseEnds ==
  /\ paused
  /\ paused' = FALSE
  /\ UNCHANGED <<status, explanations, groq, ai, post>>

GroqChanges ==
  /\ groq' = ~groq
  /\ UNCHANGED <<status, explanations, paused, ai, post>>

\* Sessions and _ai_paused_until live in memory.
Restart ==
  /\ ai' = IdleAI /\ paused' = FALSE
  /\ post' = [r \in Posts |-> IdlePost]
  /\ UNCHANGED <<status, explanations, groq>>

Next ==
  \/ EngineRuns
  \/ LoopSelects \/ ManualSelects
  \/ \E i \in Ids : LoopExplains(i) \/ ManualExplains(i)
  \/ CommitAI \/ AIFails
  \/ \E r \in Posts : PostArrives(r) \/ PostExplains(r) \/ PostCommits(r)
  \/ PauseEnds \/ GroqChanges \/ Restart

\* Once the loop's stage has begun: its cycles do not fail for ever, between a
\* request and its end or before the commit (SF on the steps they take).  A
\* manual run goes on; the pause is a finite time.
ManualGoesOn == ai.by = "manual" /\ ((\E i \in Ids : ManualExplains(i)) \/ CommitAI)

StageFairness ==
  /\ WF_explainVars(PauseEnds)
  /\ \A i \in Ids : SF_explainVars(LoopExplains(i) /\ i \notin ai'.todo)
  /\ SF_explainVars(ai.by = "loop" /\ CommitAI)
  /\ WF_explainVars(ManualGoesOn)

\* The lock is FIFO, so the loop's turn comes whatever manual runs do.
Fairness == SF_explainVars(LoopSelects) /\ StageFairness

Spec == Init /\ [][Next]_explainVars

FairSpec == Spec /\ Fairness

--------------------------------------------------------------------------------

TypeOK ==
  /\ status \in [Ids -> {"new", "open", "resolved"}]
  /\ explanations \in [Ids -> Rows]
  /\ groq \in BOOLEAN /\ paused \in BOOLEAN
  /\ ai \in [by : {"nobody", "loop", "manual"}, todo : SUBSET Ids,
             again : Ids \cup {NoId}, requests : Nat, staged : [Ids -> Staged]]
  /\ post \in [Posts -> [at : {"idle", "calling", "retrying", "answered"},
                         id : Ids \cup {NoId}, staged : Staged]]

\* The free tier is protected (AI_MAX_PER_CYCLE, AI_RETRY_AFTER_S): a stage of
\* the loop takes on at most AI_MAX_PER_CYCLE incidents and makes at most two
\* requests for each, and once it has paused the AI it makes no other request
\* before the pause is over or the process starts anew.
LoopIsGentle ==
  ai.by = "loop" => /\ Cardinality({i \in Ids : ai.staged[i] # NotStaged} \cup ai.todo)
                         <= MaxPerCycle
                    /\ ai.requests <= 2 * MaxPerCycle
                    /\ paused => ai.todo = {}

\* The loop chooses incidents without a row, but one may be stored before it
\* writes its own (persist_explanation).  Its commit may then replace an answer
\* by a later one, but never leaves an answered incident without an answer.
LoopKeepsAnswers ==
  [][ai.by = "loop" /\ ai'.by # "loop" =>
       \A i \in Ids : Answered(explanations[i]) =>
         /\ Answered(explanations'[i])
         /\ explanations'[i].text \in {explanations[i].text, "loop"}]_explainVars

\* An incident that stays open gets a row once Groq is back for good, although
\* an integrity error on one incident throws away the answers of the others.
EveryIncidentGetsARow ==
  \A i \in Ids : <>[](status[i] = "open") /\ <>[]groq
                   => <>[](explanations[i] # NoRow)

\* scheduler.py on a failed call: the incident "stays unexplained and is
\* retried after the pause".  So an incident that stays open is explained once
\* Groq is back.
RetriedUntilExplained ==
  \A i \in Ids : <>[](status[i] = "open") /\ <>[]groq
                   => <>Answered(explanations[i])

================================================================================
