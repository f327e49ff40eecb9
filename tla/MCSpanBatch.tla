----------------------------- MODULE MCSpanBatch -----------------------------
(* The collector fills a batch of at most MaxRows spans, one by one, and sends *)
(* it: every such batch is reached, with children before parents, spans sent   *)
(* twice, and rows that lack an id, a parent or a service.                     *)
EXTENDS SpanBatch, FiniteSetsExt

CONSTANTS ServiceNames, MaxRows

VARIABLE rows

Ids == 1..MaxRows

\* An early span that failed, or a late one that did not.
Kinds == {[start |-> 1, error |-> TRUE], [start |-> 2, error |-> FALSE]}

SpansInit == rows = <<>>

Arrives ==
  /\ Len(rows) < MaxRows
  /\ \E id \in {Len(rows) + 1, NoName}, parent \in Ids \cup {NoName},
        service \in ServiceNames \cup {NoName}, kind \in Kinds :
       rows' = Append(rows, [id |-> id, parent |-> parent, service |-> service,
                             start |-> kind.start, error |-> kind.error])

SentTwice ==
  /\ Len(rows) < MaxRows
  /\ \E i \in DOMAIN rows : rows' = Append(rows, rows[i])

Flushed == rows # <<>> /\ rows' = <<>>

SpansNext == Arrives \/ SentTwice \/ Flushed

SpansSpec == SpansInit /\ [][SpansNext]_rows

----------------------------------------------------------------------------
\* Row i is a call of callee by caller: its parent span is row j.
IsCall(i, j, caller, callee) ==
  /\ rows[i].parent # NoName
  /\ rows[j].id = rows[i].parent
  /\ rows[j].service = caller
  /\ rows[i].service = callee

CallRows(caller, callee) ==
  {i \in DOMAIN rows : \E j \in DOMAIN rows : IsCall(i, j, caller, callee)}

Pairs == {p \in ServiceNames \X ServiceNames : p[1] # p[2]}

\* The edges of a batch are its calls between two services, counted once per
\* child span with their failures and their time range, in whatever order the
\* spans came (graph.py, steps 1 to 3 of its algorithm).
GraphByCalls ==
  LET edges == ExtractDependencies(rows)
  IN  /\ DOMAIN edges = {p \in Pairs : CallRows(p[1], p[2]) # {}}
      /\ \A p \in DOMAIN edges :
           LET calls == CallRows(p[1], p[2])
           IN  edges[p] =
                 [requests |-> Cardinality(calls),
                  errors |-> Cardinality({i \in calls : rows[i].error}),
                  first |-> Min({rows[i].start : i \in calls}),
                  last |-> Max({rows[i].start : i \in calls})]

Before(k) == SubSeq(rows, 1, k)
After(k) == SubSeq(rows, k + 1, Len(rows))

\* What two batches add up to in a table.
Sum2(x, y) ==
  [k \in DOMAIN x \cup DOMAIN y |->
     IF k \notin DOMAIN x THEN y[k] ELSE IF k \notin DOMAIN y THEN x[k]
     ELSE Added(x[k], y[k])]

\* The services table does not depend on where the collector cuts the stream
\* of spans into batches (discovery.py, "One upsert per unique service name
\* per batch").
CutServices ==
  \A k \in 0..Len(rows) :
    Sum2(AggregateSpans(Before(k)), AggregateSpans(After(k))) = AggregateSpans(rows)

RequestsOf(edges, p) == IF p \in DOMAIN edges THEN edges[p].requests ELSE 0

\* A cut loses exactly the calls whose parent is on its other side only, and
\* never makes up an edge (graph.py, "Only intra-batch cross-service links are
\* detected").
CutDependencies ==
  \A k \in 0..Len(rows) : \A p \in Pairs :
    LET SameSide(i, j) == (i <= k) = (j <= k)
        kept == {i \in DOMAIN rows :
                   \E j \in DOMAIN rows : SameSide(i, j) /\ IsCall(i, j, p[1], p[2])}
    IN  /\ RequestsOf(ExtractDependencies(Before(k)), p)
             + RequestsOf(ExtractDependencies(After(k)), p) = Cardinality(kept)
        /\ RequestsOf(ExtractDependencies(rows), p) - Cardinality(kept)
             = Cardinality(CallRows(p[1], p[2]) \ kept)

================================================================================
