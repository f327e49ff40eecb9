------------------------------ MODULE SpanBatch ------------------------------
(***************************************************************************)
(* What one batch adds to the tables (backend/app/services/discovery.py    *)
(* and graph.py): per service and per caller-callee pair, counters and the *)
(* range of times, computed in one pass over the batch's rows.             *)
(*                                                                         *)
(* A span row is [id, parent, service, start, error]; a metric or log row  *)
(* is [service, time].  NoName stands for a missing id, parent or service, *)
(* 0 for a missing time, as in the code.                                   *)
(***************************************************************************)
EXTENDS Integers, Sequences, SequencesExt

CONSTANT NoName

First(time, error) ==
  [requests |-> 1, errors |-> IF error THEN 1 ELSE 0, first |-> time, last |-> time]

\* One more span of a service, or call of a pair.
Added(old, new) ==
  [requests |-> old.requests + new.requests,
   errors |-> old.errors + new.errors,
   first |-> IF new.first < old.first THEN new.first ELSE old.first,
   last |-> IF new.last > old.last THEN new.last ELSE old.last]

\* Mutation: a key that is met again starts over.
TallyRestarts(tallies, key, new) ==
  [k \in DOMAIN tallies \cup {key} |-> IF k # key THEN tallies[k] ELSE new]

Tally(tallies, key, new) ==
  [k \in DOMAIN tallies \cup {key} |->
     IF k # key THEN tallies[k]
     ELSE IF k \in DOMAIN tallies THEN Added(tallies[k], new)
     ELSE new]

Nothing == [k \in {} |-> 0]

\* One span more is counted for its service, if it names one.
CountSpan(agg, row) ==
  IF row.service = NoName THEN agg
  ELSE Tally(agg, row.service, First(row.start, row.error))

AggregateSpans(rows) == FoldLeft(CountSpan, Nothing, rows)

\* The latest time of each service; rows without service or time are skipped.
ServiceTimes(rows) ==
  FoldLeft(LAMBDA seen, row :
             IF row.service = NoName \/ row.time = 0 THEN seen
             ELSE [s \in DOMAIN seen \cup {row.service} |->
                     IF s # row.service THEN seen[s]
                     ELSE IF s \in DOMAIN seen /\ seen[s] >= row.time THEN seen[s]
                     ELSE row.time],
           Nothing, rows)

\* What an upsert from signals adds: no counts, the latest time as both ends.
TouchServices(rows) ==
  LET seen == ServiceTimes(rows)
  IN  [s \in DOMAIN seen |->
         [requests |-> 0, errors |-> 0, first |-> seen[s], last |-> seen[s]]]

\* Mutation: a span without a service is looked up like any other.
LookupNameless(rows) ==
  FoldLeft(LAMBDA names, row :
             IF row.id = NoName THEN names
             ELSE [i \in DOMAIN names \cup {row.id} |->
                     IF i = row.id THEN row.service ELSE names[i]],
           Nothing, rows)

\* One span more is found by its id.
Enter(names, row) ==
  IF row.id = NoName \/ row.service = NoName THEN names
  ELSE [i \in DOMAIN names \cup {row.id} |->
          IF i = row.id THEN row.service ELSE names[i]]

\* span_id -> service.  Of rows with one id, the last counts.
Lookup(rows) == FoldLeft(Enter, Nothing, rows)

\* One span more is counted as a call, if its parent is found and belongs to
\* another service.
CountCall(names, edges, row) ==
  IF /\ row.service # NoName
     /\ row.parent \in DOMAIN names
     /\ names[row.parent] # row.service
  THEN Tally(edges, <<names[row.parent], row.service>>, First(row.start, row.error))
  ELSE edges

\* Mutation: only parents that precede their child in the batch are found.
ExtractDependenciesOnePass(rows) ==
  FoldLeft(LAMBDA acc, row :
             LET prefix == Append(acc.prefix, row)
             IN  [prefix |-> prefix, edges |-> CountCall(Lookup(prefix), acc.edges, row)],
           [prefix |-> <<>>, edges |-> Nothing], rows).edges

\* One edge per (caller, callee) of a batch.
ExtractDependencies(rows) ==
  LET names == Lookup(rows)
  IN  FoldLeft(LAMBDA edges, row : CountCall(names, edges, row), Nothing, rows)

================================================================================
