-------------------------------- MODULE Ingest --------------------------------
(***************************************************************************)
(* OTLP ingestion (backend/app/api/v1/ingest.py, services/discovery.py,    *)
(* services/graph.py): batches of spans, metrics and logs arrive           *)
(* concurrently.  Each is written in a transaction of its own: the         *)
(* telemetry rows, then an upsert of the rows of `services` it touches,    *)
(* then, for spans, of the rows of `service_dependencies`, each table in a *)
(* savepoint whose failure is swallowed.  PostgreSQL holds the lock of an  *)
(* upserted row until the transaction (or its savepoint) ends.             *)
(*                                                                         *)
(* The rows of both tables are numbered in the order the code sorts them.  *)
(* A deadlock the database breaks is a SavepointFails or AttemptFails.     *)
(***************************************************************************)
EXTENDS Integers, FiniteSets, FiniteSetsExt

CONSTANTS
  Batches,      \* the request bodies that arrive
  ServiceRows,  \* rows of `services`, by name
  EdgeRows,     \* rows of `service_dependencies`, by (source, target)
  Share,        \* Share[b][r]: what batch b adds to row r
  MaxAttempts   \* _MAX_ATTEMPTS

Rows == ServiceRows \cup EdgeRows

Stats == [requests : Nat, errors : Nat, first : Nat, last : Nat]

\* Versions of some of the rows.
IsVersions(f) == DOMAIN f \subseteq Rows /\ f \in [DOMAIN f -> Stats]

ASSUME RowsAssumption ==
  /\ Rows \subseteq Nat
  /\ \A s \in ServiceRows, e \in EdgeRows : s < e

ASSUME ShareAssumption == \A b \in Batches : IsVersions(Share[b])

\* The requests the backend handles are finitely many.
ASSUME BatchesAssumption == IsFiniteSet(Batches)

ASSUME AttemptsAssumption == MaxAttempts \in Nat \ {0}

VARIABLES
  at,       \* at[b]: where the handler of b is
  attempt,  \* attempt[b]: number of the current attempt, 0 before the first
  todo,     \* todo[b]: rows of the current statement that are not upserted yet
  pending,  \* pending[b]: the uncommitted versions b has written, row by row
  stored,   \* stored[b]: how often b's telemetry rows have been committed
  table,    \* the committed rows of both tables
  counted   \* history: the rows b's share has been committed to

vars == <<at, attempt, todo, pending, stored, table, counted>>

Upserting == {"services", "edges"}
Unstored == {"insert", "commit", "backoff"} \cup Upserting
InFlight == Unstored \cup {"committed"}
Answers == {"persisted", "dropped", "lost"}

None == [r \in {} |-> 0]

Init ==
  /\ at = [b \in Batches |-> "new"]
  /\ attempt = [b \in Batches |-> 0]
  /\ todo = [b \in Batches |-> {}]
  /\ pending = [b \in Batches |-> None]
  /\ stored = [b \in Batches |-> 0]
  /\ table = None
  /\ counted = [b \in Batches |-> {}]

Touched(b) == DOMAIN Share[b]

Locked(b) == DOMAIN pending[b]

Only(f, rs) == [r \in DOMAIN f \cap rs |-> f[r]]

----------------------------------------------------------------------------
(* One batch.                                                              *)

Arrive(b) ==
  /\ at[b] = "new"
  /\ at' = [at EXCEPT ![b] = "insert"]
  /\ attempt' = [attempt EXCEPT ![b] = 1]
  /\ UNCHANGED <<todo, pending, stored, table, counted>>

\* The bulk INSERT of the telemetry rows locks nothing anybody waits for.
InsertRows(b) ==
  /\ at[b] = "insert"
  /\ at' = [at EXCEPT ![b] = "services"]
  /\ todo' = [todo EXCEPT ![b] = Touched(b) \cap ServiceRows]
  /\ UNCHANGED <<attempt, pending, stored, table, counted>>

\* Mutation: the metric and log handlers upsert in the order of the body.
NextRowUnsorted(b) ==
  IF Touched(b) \cap EdgeRows # {}
  THEN CHOOSE r \in todo[b] : \A s \in todo[b] : r <= s
  ELSE CHOOSE r \in todo[b] : \A s \in todo[b] : r >= s

\* The parameters of a statement are sorted.
NextRow(b) == CHOOSE r \in todo[b] : \A s \in todo[b] : r <= s

\* b waits for c: c has written the row b wants to upsert next.
WaitsFor(b, c) ==
  /\ at[b] \in Upserting
  /\ todo[b] # {}
  /\ c # b
  /\ NextRow(b) \in Locked(c)

MinOf(x, y) == IF x <= y THEN x ELSE y
MaxOf(x, y) == IF x >= y THEN x ELSE y

\* Mutation: last_seen is set to the batch's, not to the greater one.
MergedAssigns(old, new) ==
  [requests |-> old.requests + new.requests, errors |-> old.errors + new.errors,
   first |-> MinOf(old.first, new.first), last |-> new.last]

Merged(old, new) ==
  [requests |-> old.requests + new.requests, errors |-> old.errors + new.errors,
   first |-> MinOf(old.first, new.first), last |-> MaxOf(old.last, new.last)]

\* INSERT ... ON CONFLICT DO UPDATE: the version of row r that b writes.
Upserted(b, r) ==
  IF r \in DOMAIN table THEN Merged(table[r], Share[b][r]) ELSE Share[b][r]

Write(b, r) ==
  /\ pending' = [pending EXCEPT ![b] =
       [q \in Locked(b) \cup {r} |-> IF q = r THEN Upserted(b, r) ELSE pending[b][q]]]
  /\ todo' = [todo EXCEPT ![b] = @ \ {r}]
  /\ UNCHANGED <<at, attempt, stored, table, counted>>

\* Mutation: the row is read and written back without taking its lock first.
UpsertUnlocked(b) ==
  /\ at[b] \in Upserting
  /\ todo[b] # {}
  /\ Write(b, NextRow(b))

Upsert(b) ==
  /\ at[b] \in Upserting
  /\ todo[b] # {}
  /\ \A c \in Batches : ~WaitsFor(b, c)
  /\ Write(b, NextRow(b))

\* The statement is done and its savepoint released; the locks stay.
Release(b) ==
  /\ at[b] \in Upserting
  /\ todo[b] = {}
  /\ IF at[b] = "services"
     THEN /\ at' = [at EXCEPT ![b] = "edges"]
          /\ todo' = [todo EXCEPT ![b] = Touched(b) \cap EdgeRows]
     ELSE /\ at' = [at EXCEPT ![b] = "commit"]
          /\ UNCHANGED todo
  /\ UNCHANGED <<attempt, pending, stored, table, counted>>

\* The statement fails: ROLLBACK TO SAVEPOINT undoes this table's upserts and
\* releases their locks, the handler logs a warning and goes on.
SavepointFails(b) ==
  \/ /\ at[b] = "services"
     /\ Touched(b) \cap ServiceRows # {}
     /\ at' = [at EXCEPT ![b] = "edges"]
     /\ todo' = [todo EXCEPT ![b] = Touched(b) \cap EdgeRows]
     /\ pending' = [pending EXCEPT ![b] = None]
     /\ UNCHANGED <<attempt, stored, table, counted>>
  \/ /\ at[b] = "edges"
     /\ Touched(b) \cap EdgeRows # {}
     /\ at' = [at EXCEPT ![b] = "commit"]
     /\ todo' = [todo EXCEPT ![b] = {}]
     /\ pending' = [pending EXCEPT ![b] = Only(@, ServiceRows)]
     /\ UNCHANGED <<attempt, stored, table, counted>>

\* What COMMIT makes visible.
Land(b) ==
  /\ stored' = [stored EXCEPT ![b] = @ + 1]
  /\ table' = [r \in DOMAIN table \cup Locked(b) |->
                 IF r \in Locked(b) THEN pending[b][r] ELSE table[r]]
  /\ counted' = [counted EXCEPT ![b] = @ \cup Locked(b)]

\* The transaction is over, and with it its locks and versions.
EndTransaction(b) ==
  /\ pending' = [pending EXCEPT ![b] = None]
  /\ todo' = [todo EXCEPT ![b] = {}]

\* COMMIT lands; the backend does not know yet.
Commit(b) ==
  /\ at[b] = "commit"
  /\ at' = [at EXCEPT ![b] = "committed"]
  /\ Land(b)
  /\ EndTransaction(b)
  /\ UNCHANGED attempt

\* The COMMIT is confirmed: the batch is logged as persisted and answered.
Confirm(b) ==
  /\ at[b] = "committed"
  /\ at' = [at EXCEPT ![b] = "persisted"]
  /\ UNCHANGED <<attempt, todo, pending, stored, table, counted>>

\* Mutation: a lost connection counts as a transient conflict.
CommitLostRetries(b) ==
  /\ at[b] = "committed"
  /\ at' = [at EXCEPT ![b] = IF attempt[b] < MaxAttempts THEN "backoff" ELSE "dropped"]
  /\ UNCHANGED <<attempt, todo, pending, stored, table, counted>>

\* The connection breaks before the COMMIT that landed is confirmed: no deadlock
\* and no serialization failure, so the batch is logged as dropped and answered.
CommitLost(b) ==
  /\ at[b] = "committed"
  /\ at' = [at EXCEPT ![b] = "dropped"]
  /\ UNCHANGED <<attempt, todo, pending, stored, table, counted>>

\* Mutation: every retryable failure is retried, the last attempt's too.
AfterFailureUnbounded(b, retryable) ==
  IF retryable THEN "backoff" ELSE "dropped"

AfterFailure(b, retryable) ==
  IF retryable /\ attempt[b] < MaxAttempts THEN "backoff" ELSE "dropped"

\* An exception leaves the transaction, which is rolled back.  The upserts
\* raise none: they swallow theirs.
AttemptFails(b) ==
  /\ at[b] \in {"insert", "commit"}
  /\ \E retryable \in BOOLEAN : at' = [at EXCEPT ![b] = AfterFailure(b, retryable)]
  /\ EndTransaction(b)
  /\ UNCHANGED <<attempt, stored, table, counted>>

Retry(b) ==
  /\ at[b] = "backoff"
  /\ at' = [at EXCEPT ![b] = "insert"]
  /\ attempt' = [attempt EXCEPT ![b] = @ + 1]
  /\ UNCHANGED <<todo, pending, stored, table, counted>>

----------------------------------------------------------------------------
(* The backend stops.  The database rolls back the transactions that are   *)
(* open; what has landed stays, answered or not.  The collector of the     *)
(* demo does not send again what was not answered.                         *)
Crash ==
  /\ \E b \in Batches : at[b] \in InFlight
  /\ at' = [b \in Batches |-> IF at[b] \in InFlight THEN "lost" ELSE at[b]]
  /\ pending' = [b \in Batches |-> None]
  /\ todo' = [b \in Batches |-> {}]
  /\ UNCHANGED <<attempt, stored, table, counted>>

\* Every batch has been answered, or lost with its connection.
Done ==
  /\ \A b \in Batches : at[b] \in Answers
  /\ UNCHANGED vars

\* The steps a handler takes while nothing fails.
Progress(b) ==
  InsertRows(b) \/ Upsert(b) \/ Release(b) \/ Commit(b) \/ Confirm(b) \/ Retry(b)

Failure(b) == SavepointFails(b) \/ AttemptFails(b) \/ CommitLost(b)

Next ==
  \/ \E b \in Batches : Arrive(b) \/ Progress(b) \/ Failure(b)
  \/ Crash
  \/ Done

Spec == Init /\ [][Next]_vars

\* The event loop runs every handler that can go on, and the database grants
\* a lock that is free; nothing has to arrive, and nothing has to fail.
FairSpec == Spec /\ \A b \in Batches : WF_vars(Progress(b))

----------------------------------------------------------------------------
(* Properties.                                                             *)

\* Types; no batch is attempted more than MaxAttempts times, only versions of
\* rows of the batch are pending, and only while its transaction is open.
IngestTypeOK ==
  /\ at \in [Batches -> {"new"} \cup InFlight \cup Answers]
  /\ attempt \in [Batches -> 0..MaxAttempts]
  /\ todo \in [Batches -> SUBSET Rows]
  /\ pending = [b \in Batches |-> pending[b]]
  /\ stored \in [Batches -> Nat]
  /\ IsVersions(table)
  /\ counted \in [Batches -> SUBSET Rows]
  /\ \A b \in Batches :
       /\ IsVersions(pending[b])
       /\ Locked(b) \subseteq Touched(b)
       /\ at[b] \notin Upserting \cup {"commit"} => Locked(b) = {}
       /\ at[b] = "backoff" => attempt[b] < MaxAttempts

\* No two transactions hold the lock of one row.
RowLocksExclusive ==
  \A b, c \in Batches : b # c => Locked(b) \cap Locked(c) = {}

\* An uncommitted version stays based on the committed row until it is
\* committed itself, whoever commits in between: no update is lost
\* (discovery.py, "Counters are incremented atomically using SQL expressions").
NoLostUpdate ==
  \A b \in Batches : \A r \in Locked(b) : pending[b][r] = Upserted(b, r)

\* discovery.py, "consistent lock order -> no deadlocks between concurrent
\* ingest requests": in every set of batches one waits for none of the others.
NoWaitCycle ==
  \A S \in SUBSET Batches :
    S # {} => \E b \in S : \A c \in S : ~WaitsFor(b, c)

\* However often a batch is attempted and whatever fails or stops, its telemetry
\* is stored once at most, it is counted only if it is stored, and each of the
\* two tables counts all of it or none (ingest.py, discovery.py, graph.py).
\* While a batch may still be tried again nothing of it is stored, and what is
\* logged as persisted is.  Of a batch logged as dropped, or lost with the
\* backend before it was answered, nobody knows: it may be stored, but whole.
BatchAtomic ==
  \A b \in Batches :
    /\ stored[b] \in {0, 1}
    /\ counted[b] # {} => stored[b] = 1
    /\ \A t \in {ServiceRows, EdgeRows} : counted[b] \cap t \in {{}, Touched(b) \cap t}
    /\ at[b] \in {"committed", "persisted"} => stored[b] = 1
    /\ at[b] \in Unstored \cup {"new"} => stored[b] = 0

\* Every committed row holds exactly the shares committed to it, each once:
\* the sums of their counters, the earliest and the latest of their times.
\* No update is lost, whichever transactions overlap, fail or are retried.
RowsExact ==
  \A r \in Rows :
    LET parts == {b \in Batches : r \in counted[b]}
    IN  IF parts = {} THEN r \notin DOMAIN table
        ELSE /\ r \in DOMAIN table
             /\ table[r] =
                  [requests |-> SumFunction([b \in parts |-> Share[b][r].requests]),
                   errors |-> SumFunction([b \in parts |-> Share[b][r].errors]),
                   first |-> Min({Share[b][r].first : b \in parts}),
                   last |-> Max({Share[b][r].last : b \in parts})]

\* Every batch that has arrived is answered, or lost with the backend: none
\* waits for a lock or retries for ever.
Answered == \A b \in Batches : (at[b] = "insert") ~> (at[b] \in Answers)

================================================================================
