------------------------------- MODULE MCIngest -------------------------------
(* Two trace batches and a metric batch about the services cart and frontend; *)
(* what each adds to the tables is computed from its rows.                    *)
EXTENDS Ingest, FiniteSetsExt, Functions, TLC

CONSTANT NoName

SB == INSTANCE SpanBatch

Span(id, parent, service, start, error) ==
  [id |-> id, parent |-> parent, service |-> service, start |-> start, error |-> error]

Point(service, time) == [service |-> service, time |-> time]

\* The rows of each batch: a caller before its callee, a callee before its
\* caller, and metric points that are not in the order of time.
Body ==
  [t1 |-> <<Span("a", NoName, "frontend", 4, FALSE), Span("b", "a", "cart", 5, TRUE)>>,
   t2 |-> <<Span("d", "c", "cart", 3, FALSE), Span("c", NoName, "frontend", 2, TRUE),
            Span("e", "c", "cart", 7, FALSE)>>,
   m |-> <<Point("cart", 2), Point("frontend", 8), Point("cart", 6),
           Point("frontend", 0)>>]

MCBatches == DOMAIN Body

Traces == {"t1", "t2"}

MCServiceRows == {1, 2}
MCEdgeRows == {12, 21}

NameOf(row) == IF row = 1 THEN "cart" ELSE "frontend"

\* The rows in the order of their names: cart, frontend, cart -> frontend,
\* frontend -> cart.
KeyOf(row) ==
  IF row \in MCServiceRows THEN NameOf(row) ELSE <<NameOf(row \div 10), NameOf(row % 10)>>

RowsOf(tallies, rows) ==
  [r \in {q \in rows : KeyOf(q) \in DOMAIN tallies} |-> tallies[KeyOf(r)]]

Stat(requests, errors, first, last) ==
  [requests |-> requests, errors |-> errors, first |-> first, last |-> last]

MCShare ==
  [t1 |-> 1 :> Stat(1, 1, 5, 5) @@ 2 :> Stat(1, 0, 4, 4) @@ 21 :> Stat(1, 1, 5, 5),
   t2 |-> 1 :> Stat(2, 0, 3, 7) @@ 2 :> Stat(1, 1, 2, 2) @@ 21 :> Stat(2, 0, 3, 7),
   m |-> 1 :> Stat(0, 0, 6, 6) @@ 2 :> Stat(0, 0, 8, 8)]

\* The shares are what the code computes from the rows.
ASSUME ShareFromRows ==
  \A b \in MCBatches :
    MCShare[b] =
      IF b \in Traces
      THEN RowsOf(SB!AggregateSpans(Body[b]), MCServiceRows)
             @@ RowsOf(SB!ExtractDependencies(Body[b]), MCEdgeRows)
      ELSE RowsOf(SB!TouchServices(Body[b]), MCServiceRows)

\* The times of a service that a batch carries.
TimesOf(b, service) ==
  LET rows == {row \in Range(Body[b]) : row.service = service}
  IN  IF b \in Traces THEN {row.start : row \in rows} ELSE {row.time : row \in rows} \ {0}

\* models/service.py, "Epoch nanoseconds of the earliest and most recent
\* telemetry seen": no telemetry counted for a service is older than its
\* first_seen or newer than its last_seen.
SeenRange ==
  \A r \in ServiceRows \cap DOMAIN table, b \in Batches :
    r \in counted[b] =>
      \A t \in TimesOf(b, NameOf(r)) : t \in table[r].first..table[r].last

================================================================================
