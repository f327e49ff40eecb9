------------------------------ MODULE ShopProofs ------------------------------
(***************************************************************************)
(* Shop for any number of tabs, calls and products: what a customer is     *)
(* told of an order is true, a tab whose calls are through shows the cart  *)
(* that is stored, and calls made one at a time store what was chosen.     *)
(***************************************************************************)
EXTENDS Shop, TLAPS

\* As much of the types as the proofs need: which fields a call has.
CallFields ==
  {"at", "kind", "tab", "product", "chosen", "delta", "read", "alone"}

Shape ==
  /\ req = [r \in Requests |-> req[r]]
  /\ \A r \in Requests : CallFields \subseteq DOMAIN req[r]
  /\ fetch = [t \in Tabs |-> fetch[t]]
  /\ view = [t \in Tabs |-> view[t]]

\* Call r goes on to a step of its own.
Moves(r, to) ==
  /\ req'[r].at = to /\ req'[r].kind = req[r].kind /\ req'[r].tab = req[r].tab
  /\ req'[r].product = req[r].product /\ req'[r].chosen = req[r].chosen
  /\ req'[r].alone = req[r].alone
  /\ \A q \in Requests \ {r} : req'[q] = req[q]

LEMMA GoesMoves ==
  ASSUME Shape, NEW r \in Requests, NEW from, NEW to, Goes(r, from, to),
         fetch' = [t \in Tabs |-> fetch'[t]], view' = [t \in Tabs |-> view'[t]]
  PROVE  Shape' /\ Moves(r, to) /\ req[r].at = from
<1>1. req' = [req EXCEPT ![r] = [req[r] EXCEPT !.at = to]]
  BY DEF Goes, Shape
<1>2. /\ req'[r] = [req[r] EXCEPT !.at = to]
      /\ \A q \in Requests \ {r} : req'[q] = req[q]
      /\ req' = [q \in Requests |-> req'[q]]
  BY <1>1 DEF Shape, CallFields
<1>3. DOMAIN req'[r] = DOMAIN req[r]
  BY <1>2
<1>4. \A q \in Requests :
        CallFields \subseteq DOMAIN req'[q]
  BY <1>2, <1>3 DEF Shape
<1>5. Shape'
  BY <1>2, <1>4 DEF Shape
<1>6. Moves(r, to)
  BY <1>2 DEF Moves, Shape, CallFields
<1> QED
  BY <1>5, <1>6 DEF Goes

(* The steps that also change what the call read and has to add.              *)

LEMMA AddReadMoves ==
  ASSUME Shape, NEW r \in Requests, AddRead(r)
  PROVE  Shape' /\ Moves(r, "read") /\ req[r].at = "called" /\ req[r].kind # "order"
<1>1. /\ req'[r] = [[[req[r] EXCEPT !.at = "read"] EXCEPT !.read = store]
                      EXCEPT !.delta = req[r].delta]
      /\ \A q \in Requests \ {r} : req'[q] = req[q]
      /\ req' = [q \in Requests |-> req'[q]]
  BY DEF AddRead, Shape, CallFields
<1>2. /\ DOMAIN req'[r] = DOMAIN req[r]
      /\ req'[r].at = "read" /\ req'[r].kind = req[r].kind /\ req'[r].tab = req[r].tab
  BY <1>1 DEF Shape, CallFields
<1>3. \A q \in Requests :
        CallFields \subseteq DOMAIN req'[q]
  BY <1>1, <1>2 DEF Shape
<1>4. Shape'
  BY <1>1, <1>3 DEF Shape, AddRead
<1>5. Moves(r, "read")
  BY <1>1 DEF Moves, Shape, CallFields
<1> QED
  BY <1>4, <1>5 DEF AddRead, Kind

LEMMA AddWriteMoves ==
  ASSUME Shape, NEW r \in Requests, AddWrite(r)
  PROVE  Shape' /\ Moves(r, "done") /\ req[r].at = "read"
<1>1. /\ req'[r] = [[[req[r] EXCEPT !.at = "done"] EXCEPT !.read = EmptyCart]
                      EXCEPT !.delta = 0]
      /\ \A q \in Requests \ {r} : req'[q] = req[q]
      /\ req' = [q \in Requests |-> req'[q]]
  BY DEF AddWrite, Shape, CallFields
<1>2. /\ DOMAIN req'[r] = DOMAIN req[r]
      /\ req'[r].at = "done" /\ req'[r].kind = req[r].kind /\ req'[r].tab = req[r].tab
  BY <1>1 DEF Shape, CallFields
<1>3. \A q \in Requests :
        CallFields \subseteq DOMAIN req'[q]
  BY <1>1, <1>2 DEF Shape
<1>4. Shape'
  BY <1>1, <1>3 DEF Shape, AddWrite
<1>5. Moves(r, "done")
  BY <1>1 DEF Moves, Shape, CallFields
<1> QED
  BY <1>4, <1>5 DEF AddWrite

LEMMA BreaksMoves ==
  ASSUME Shape, NEW r \in Requests, Breaks(r)
  PROVE  Shape' /\ Moves(r, "failed") /\ req[r].at \in {"called", "read", "charged", "shipped"}
<1>1. /\ req'[r] = [[[req[r] EXCEPT !.at = "failed"] EXCEPT !.read = EmptyCart]
                      EXCEPT !.delta = 0]
      /\ \A q \in Requests \ {r} : req'[q] = req[q]
      /\ req' = [q \in Requests |-> req'[q]]
  BY DEF Breaks, Shape, Outcome, CallFields
<1>2. /\ DOMAIN req'[r] = DOMAIN req[r]
      /\ req'[r].at = "failed" /\ req'[r].kind = req[r].kind /\ req'[r].tab = req[r].tab
  BY <1>1 DEF Shape, CallFields
<1>3. \A q \in Requests :
        CallFields \subseteq DOMAIN req'[q]
  BY <1>1, <1>2 DEF Shape
<1>4. Shape'
  BY <1>1, <1>3 DEF Shape, Breaks
<1>5. Moves(r, "failed")
  BY <1>1 DEF Moves, Shape, CallFields
<1> QED
  BY <1>4, <1>5 DEF Breaks

\* A tab makes a call.
LEMMA CallMade ==
  ASSUME Shape, NEW r \in Requests, NEW t \in Tabs, NEW kind, NEW product, NEW chosen,
         NEW delta, Calls(r, t, kind, product, chosen, delta)
  PROVE  /\ Shape' /\ req[r].at = "unmade" /\ req'[r].at = "called"
         /\ req'[r].kind = kind /\ req'[r].tab = t
         /\ \A q \in Requests \ {r} : req'[q] = req[q]
<1>1. /\ req'[r] = [at |-> "called", kind |-> kind, tab |-> t, product |-> product,
                    chosen |-> chosen, delta |-> delta, read |-> EmptyCart,
                    alone |-> Alone(t)]
      /\ \A q \in Requests \ {r} : req'[q] = req[q]
      /\ req' = [q \in Requests |-> req'[q]]
  BY DEF Calls, Shape
<1>2. Shape'
  BY <1>1 DEF Shape, Calls, CallFields
<1> QED
  BY <1>1, <1>2 DEF Calls, IsNext, Made

LEMMA AnswerMoves ==
  ASSUME Shape, NEW r \in Requests, Answer(r)
  PROVE  Shape' /\ Moves(r, Seen(r)) /\ req[r].at = "done"
<1>1. fetch' = [t \in Tabs |-> fetch'[t]]
  BY DEF Answer, Refetched, Shape
<1>2. view' = [t \in Tabs |-> view'[t]]
  BY DEF Answer, Shape
<1> QED
  BY <1>1, <1>2, GoesMoves DEF Answer

\* The tabs' fetches.
FetchStep(t) == FetchRead(t) \/ FetchDone(t) \/ FetchFails(t) \/ Focus(t)

LEMMA FetchShape ==
  ASSUME Shape, NEW t \in Tabs, FetchStep(t)
  PROVE  /\ Shape' /\ UNCHANGED <<store, req, charged, shipped>>
         /\ \A u \in Tabs \ {t} : fetch'[u] = fetch[u] /\ view'[u] = view[u]
<1>1. UNCHANGED <<store, req, charged, shipped>>
  BY DEF FetchStep, FetchRead, FetchDone, FetchFails, Focus
<1>2. /\ fetch' = [u \in Tabs |-> fetch'[u]] /\ view' = [u \in Tabs |-> view'[u]]
      /\ \A u \in Tabs \ {t} : fetch'[u] = fetch[u] /\ view'[u] = view[u]
  BY DEF FetchStep, FetchRead, FetchDone, FetchFails, Focus, Shape
<1> QED
  BY <1>1, <1>2 DEF Shape

\* A tab makes a call, whichever.
MakesCall(r, t) ==
  \/ \E p \in Products, n \in 1..MaxQuantity :
       AddItem(r, t, p, n) \/ UpdateItemQuantity(r, t, p, n)
  \/ Empty(r, t) \/ PlaceOrder(r, t)

LEMMA MakesCallMoves ==
  ASSUME Shape, NEW r \in Requests, NEW t \in Tabs, MakesCall(r, t)
  PROVE  /\ Shape' /\ req[r].at = "unmade" /\ req'[r].at = "called"
         /\ Invalidates(req'[r].kind) /\ req'[r].tab = t
         /\ \A q \in Requests \ {r} : req'[q] = req[q]
         /\ UNCHANGED <<store, view, fetch, charged, shipped>>
<1>1. PICK kind \in {"add", "change", "empty", "order"} :
        \E product, chosen, delta : Calls(r, t, kind, product, chosen, delta)
  BY DEF MakesCall, AddItem, UpdateItemQuantity, Empty, PlaceOrder
<1>2. PICK product, chosen, delta : Calls(r, t, kind, product, chosen, delta)
  BY <1>1
<1> QED
  BY <1>1, <1>2, CallMade DEF Invalidates, Calls

--------------------------------------------------------------------------------
(* What the customer is told.                                                  *)

\* How far an order has come, in money and goods, is what its step says; one
\* that failed may have been charged and shipped, one that was declined not.
CallsInv ==
  \A r \in Requests :
    /\ req[r].at # "unmade" => Invalidates(req[r].kind)
    /\ req[r].at = "read" => req[r].kind # "order"
    /\ req[r].kind = "order" =>
         /\ req[r].at \in {"charged", "shipped", "done", "ok", "unseen"} => r \in charged
         /\ req[r].at \in {"shipped", "done", "ok", "unseen"} => r \in shipped
    /\ r \in charged =>
         req[r].at \in {"charged", "shipped", "done", "ok", "unseen", "failed"}
    /\ r \in shipped => r \in charged

\* A step that takes neither money nor goods.
LEMMA CallsFrame ==
  ASSUME CallsInv, NEW r \in Requests, NEW to, Moves(r, to), UNCHANGED <<charged, shipped>>,
         req[r].at # "unmade",
         to = "read" => req[r].kind # "order",
         to \in {"charged", "shipped"} => req[r].kind # "order",
         to \in {"done", "ok", "unseen"} =>
           req[r].kind # "order" \/ req[r].at \in {"shipped", "done", "ok", "unseen"},
         r \in charged => to \in {"charged", "shipped", "done", "ok", "unseen", "failed"}
  PROVE  CallsInv'
<1> SUFFICES ASSUME NEW q \in Requests
             PROVE  /\ req'[q].at # "unmade" => Invalidates(req'[q].kind)
                    /\ req'[q].at = "read" => req'[q].kind # "order"
                    /\ req'[q].kind = "order" =>
                         /\ req'[q].at \in {"charged", "shipped", "done", "ok", "unseen"}
                              => q \in charged
                         /\ req'[q].at \in {"shipped", "done", "ok", "unseen"}
                              => q \in shipped
                    /\ q \in charged => req'[q].at \in
                         {"charged", "shipped", "done", "ok", "unseen", "failed"}
                    /\ q \in shipped => q \in charged
  BY DEF CallsInv, Invalidates
<1>1. CASE q = r
  BY <1>1 DEF CallsInv, Moves
<1>2. CASE q # r
  BY <1>2 DEF CallsInv, Moves
<1> QED
  BY <1>1, <1>2

LEMMA GoesStays ==
  ASSUME Shape, NEW r \in Requests, NEW from, NEW to, Goes(r, from, to),
         UNCHANGED <<view, fetch>>
  PROVE  Shape' /\ Moves(r, to) /\ req[r].at = from
<1>1. /\ fetch' = [t \in Tabs |-> fetch'[t]] /\ view' = [t \in Tabs |-> view'[t]]
  BY DEF Shape
<1> QED
  BY <1>1, GoesMoves

LEMMA ChargeCalls ==
  ASSUME Shape, CallsInv, NEW r \in Requests, Charge(r) PROVE Shape' /\ CallsInv'
<1>1. PICK to \in {"charged", "failed"} : Goes(r, "prepared", to)
  BY DEF Charge, Outcome
<1>2. Shape' /\ Moves(r, to) /\ req[r].at = "prepared"
  BY <1>1, GoesStays DEF Charge
<1>3. req[r].kind = "order" /\ charged' = charged \cup {r} /\ shipped' = shipped
  BY DEF Charge, Kind
<1> QED
  BY <1>1, <1>2, <1>3 DEF CallsInv, Moves, Invalidates

LEMMA ShipCalls ==
  ASSUME Shape, CallsInv, NEW r \in Requests, Ship(r) PROVE Shape' /\ CallsInv'
<1>1. PICK to \in {"shipped", "failed"} : Goes(r, "charged", to)
  BY DEF Ship, Outcome
<1>2. Shape' /\ Moves(r, to) /\ req[r].at = "charged"
  BY <1>1, GoesStays DEF Ship
<1>3. req[r].kind = "order" /\ shipped' = shipped \cup {r} /\ charged' = charged
  BY DEF Ship, Kind
<1> QED
  BY <1>1, <1>2, <1>3 DEF CallsInv, Moves, Invalidates

\* The other steps of the services, and the answers.
ServiceStep(r) ==
  \/ AddRead(r) \/ AddWrite(r) \/ EmptyWrite(r)
  \/ Prepare(r) \/ Decline(r) \/ PaymentUnreachable(r) \/ EmptyAfter(r)
  \/ Breaks(r) \/ Answer(r) \/ AnswerFails(r)

LEMMA ServiceCalls ==
  ASSUME Shape, CallsInv, NEW r \in Requests, ServiceStep(r) PROVE Shape' /\ CallsInv'
<1>1. UNCHANGED <<charged, shipped>>
  BY DEF ServiceStep, AddRead, AddWrite, EmptyWrite, Prepare, Decline, PaymentUnreachable,
         EmptyAfter, Breaks, Answer, AnswerFails
<1>2. CASE AddRead(r)
  BY <1>1, <1>2, AddReadMoves, CallsFrame DEF CallsInv
<1>3. CASE AddWrite(r)
  BY <1>1, <1>3, AddWriteMoves, CallsFrame DEF CallsInv
<1>4. CASE EmptyWrite(r)
  <2>1. Shape' /\ Moves(r, "done") /\ req[r].at = "called" /\ req[r].kind = "empty"
    BY <1>4, GoesStays DEF EmptyWrite, Kind
  <2> QED
    BY <1>1, <2>1, CallsFrame DEF CallsInv
<1>5. CASE Prepare(r)
  <2>1. Shape' /\ Moves(r, "prepared") /\ req[r].at = "called"
    BY <1>5, GoesStays DEF Prepare
  <2> QED
    BY <1>1, <2>1, CallsFrame DEF CallsInv
<1>6. CASE Decline(r)
  <2>1. Shape' /\ Moves(r, "declined") /\ req[r].at = "prepared"
    BY <1>6, GoesStays DEF Decline, Outcome
  <2> QED
    BY <1>1, <2>1, CallsFrame DEF CallsInv
<1>7. CASE PaymentUnreachable(r)
  <2>1. Shape' /\ Moves(r, "failed") /\ req[r].at = "prepared"
    BY <1>7, GoesStays DEF PaymentUnreachable, Outcome
  <2> QED
    BY <1>1, <2>1, CallsFrame DEF CallsInv
<1>8. CASE EmptyAfter(r)
  <2>1. Shape' /\ Moves(r, "done") /\ req[r].at = "shipped"
    BY <1>8, GoesStays DEF EmptyAfter
  <2> QED
    BY <1>1, <2>1, CallsFrame DEF CallsInv
<1>9. CASE Breaks(r)
  BY <1>1, <1>9, BreaksMoves, CallsFrame DEF CallsInv
<1>10. CASE Answer(r)
  <2>1. Seen(r) \in {"unseen", "ok"}
    BY DEF Seen
  <2>2. Shape' /\ Moves(r, Seen(r)) /\ req[r].at = "done"
    BY <1>10, AnswerMoves
  <2> QED
    BY <1>1, <2>1, <2>2, CallsFrame DEF CallsInv
<1>11. CASE AnswerFails(r)
  <2>1. Shape' /\ Moves(r, "failed") /\ req[r].at = "done"
    BY <1>11, GoesStays DEF AnswerFails
  <2> QED
    BY <1>1, <2>1, CallsFrame DEF CallsInv
<1> QED
  BY <1>2, <1>3, <1>4, <1>5, <1>6, <1>7, <1>8, <1>9, <1>10, <1>11 DEF ServiceStep

LEMMA NextCases ==
  ASSUME [Next]_shopVars
  PROVE  \/ \E r \in Requests, t \in Tabs : MakesCall(r, t)
         \/ \E r \in Requests : Charge(r) \/ Ship(r) \/ ServiceStep(r)
         \/ \E t \in Tabs : FetchStep(t)
         \/ UNCHANGED shopVars
BY DEF Next, MakesCall, ServiceStep, FetchStep

LEMMA CallsStep ==
  ASSUME Shape, CallsInv, [Next]_shopVars PROVE Shape' /\ CallsInv'
<1>1. ASSUME NEW r \in Requests, NEW t \in Tabs, MakesCall(r, t) PROVE Shape' /\ CallsInv'
  <2>1. /\ Shape' /\ req[r].at = "unmade" /\ req'[r].at = "called"
        /\ Invalidates(req'[r].kind) /\ UNCHANGED <<charged, shipped>>
        /\ \A q \in Requests \ {r} : req'[q] = req[q]
    BY <1>1, MakesCallMoves
  <2> QED
    BY <2>1 DEF CallsInv, Invalidates
<1>2. ASSUME NEW t \in Tabs, FetchStep(t) PROVE Shape' /\ CallsInv'
  BY <1>2, FetchShape DEF CallsInv, Invalidates
<1>3. CASE UNCHANGED shopVars
  BY <1>3 DEF shopVars, Shape, CallsInv, Invalidates
<1> QED
  BY <1>1, <1>2, <1>3, NextCases, ChargeCalls, ShipCalls, ServiceCalls

LEMMA CallsInit == Init => Shape /\ CallsInv
BY DEF Init, Shape, CallsInv, Unmade, CallFields

\* How far each order has come, in every reachable state.
THEOREM CallsInvariant == Spec => [](Shape /\ CallsInv)
BY CallsInit, CallsStep, PTL DEF Spec

\* Whichever step of an order fails or loses its answer: a confirmed order was
\* paid and shipped, a declined one was not paid, nothing unpaid is shipped.
THEOREM OutcomeToldHolds == Spec => []OutcomeTold
<1>1. CallsInv => OutcomeTold
  BY DEF CallsInv, OutcomeTold
<1> QED
  BY <1>1, CallsInvariant, PTL

--------------------------------------------------------------------------------
(* What a tab shows.                                                           *)

\* Tab t made all the calls, and none failed or was answered unseen.
Undisturbed(t) ==
  \A r \in Requests :
    Made(r) => req[r].tab = t /\ req[r].at \notin {"failed", "unseen"}

\* A call has changed the cart, and its answer is still to invalidate the view.
Unanswered == \E r \in Requests : req[r].at = "done"

\* Of an undisturbed tab: what it has read or shows is the stored cart, unless an
\* answer is on its way that makes it read the cart again.
ViewInv ==
  \A t \in Tabs : Undisturbed(t) =>
    /\ fetch[t].at = "read" => fetch[t].cart = store \/ Unanswered
    /\ fetch[t].at = "idle" => view[t] = store \/ Unanswered

LEMMA UndisturbedBefore ==
  ASSUME NEW r \in Requests, NEW to, Moves(r, to), to # "unmade",
         req[r].at \notin {"unmade", "failed", "unseen"},
         NEW t \in Tabs, Undisturbed(t)'
  PROVE  Undisturbed(t) /\ req[r].tab = t /\ to \notin {"failed", "unseen"}
<1>1. req[r].tab = t /\ to \notin {"failed", "unseen"}
  BY DEF Undisturbed, Moves, Made
<1>2. \A q \in Requests \ {r} :
        req[q].at # "unmade" => req[q].tab = t /\ req[q].at \notin {"failed", "unseen"}
  BY DEF Undisturbed, Moves, Made
<1> QED
  BY <1>1, <1>2 DEF Undisturbed, Made

\* A step that leaves store and views alone, and answers no call that is through.
LEMMA ViewFrame ==
  ASSUME ViewInv, NEW r \in Requests, NEW to, Moves(r, to), to # "unmade",
         req[r].at \notin {"unmade", "failed", "unseen", "done"},
         UNCHANGED <<view, fetch>>, UNCHANGED store \/ to = "done"
  PROVE  ViewInv'
<1> SUFFICES ASSUME NEW t \in Tabs, Undisturbed(t)'
             PROVE  /\ fetch[t].at = "read" => fetch[t].cart = store' \/ Unanswered'
                    /\ fetch[t].at = "idle" => view[t] = store' \/ Unanswered'
  BY DEF ViewInv
<1>1. Undisturbed(t)
  BY UndisturbedBefore
<1>2. CASE to = "done"
  BY <1>2 DEF Unanswered, Moves
<1>3. CASE to # "done"
  <2>1. Unanswered => Unanswered'
    BY DEF Unanswered, Moves
  <2> QED
    BY <1>1, <1>3, <2>1 DEF ViewInv
<1> QED
  BY <1>2, <1>3

\* An answer that is not the one to the tab's first fetch starts a new fetch.
LEMMA AnswerView ==
  ASSUME Shape, CallsInv, ViewInv, NEW r \in Requests, Answer(r) PROVE ViewInv'
<1>1. Moves(r, Seen(r)) /\ req[r].at = "done"
  BY AnswerMoves
<1>2. Seen(r) \in {"unseen", "ok"}
  BY DEF Seen
<1>3. fetch' = Refetched(req[r].tab) /\ view' = view /\ store' = store
  BY <1>1 DEF Answer, CallsInv
<1> SUFFICES ASSUME NEW t \in Tabs, Undisturbed(t)'
             PROVE  /\ fetch'[t].at = "read" => fetch'[t].cart = store' \/ Unanswered'
                    /\ fetch'[t].at = "idle" => view'[t] = store' \/ Unanswered'
  BY DEF ViewInv
<1>4. req[r].tab = t /\ Seen(r) = "ok"
  BY <1>1, <1>2, UndisturbedBefore
<1>5. fetch'[t] = Fetching
  BY <1>3, <1>4 DEF Refetched, Seen, Shape
<1> QED
  BY <1>5 DEF Fetching

LEMMA FetchView ==
  ASSUME Shape, ViewInv, NEW t \in Tabs, FetchStep(t) PROVE ViewInv'
<1>1. /\ UNCHANGED <<store, req>>
      /\ \A u \in Tabs \ {t} : fetch'[u] = fetch[u] /\ view'[u] = view[u]
  BY FetchShape
<1>2. /\ Unanswered' = Unanswered
      /\ \A u \in Tabs : Undisturbed(u)' => Undisturbed(u)
  BY <1>1 DEF Unanswered, Undisturbed, Made
<1>3. /\ fetch'[t].at = "read" => fetch'[t].cart = store
      /\ fetch'[t].at = "idle" => fetch[t].at = "read" /\ view'[t] = fetch[t].cart
  BY DEF FetchStep, FetchRead, FetchDone, FetchFails, Focus, Shape, Resting, Fetching
<1>4. ASSUME NEW u \in Tabs, Undisturbed(u)'
      PROVE  /\ fetch'[u].at = "read" => fetch'[u].cart = store' \/ Unanswered'
             /\ fetch'[u].at = "idle" => view'[u] = store' \/ Unanswered'
  <2>1. CASE u = t
    BY <1>1, <1>2, <1>3, <1>4, <2>1 DEF ViewInv
  <2>2. CASE u # t
    BY <1>1, <1>2, <1>4, <2>2 DEF ViewInv
  <2> QED
    BY <2>1, <2>2
<1> QED
  BY <1>4 DEF ViewInv

\* A call that failed disturbs every tab.
LEMMA FailedView ==
  ASSUME Shape, ViewInv, NEW r \in Requests, AnswerFails(r) PROVE ViewInv'
<1>1. Moves(r, "failed") /\ req[r].at = "done"
  BY GoesStays DEF AnswerFails
<1>2. \A t \in Tabs : ~Undisturbed(t)'
  BY <1>1, UndisturbedBefore
<1> QED
  BY <1>2 DEF ViewInv

LEMMA CallView ==
  ASSUME Shape, ViewInv, NEW r \in Requests, NEW t \in Tabs, MakesCall(r, t) PROVE ViewInv'
<1>1. /\ req[r].at = "unmade" /\ req'[r].at = "called"
      /\ \A q \in Requests \ {r} : req'[q] = req[q]
      /\ UNCHANGED <<store, view, fetch>>
  BY MakesCallMoves
<1>2. Unanswered => Unanswered'
  BY <1>1 DEF Unanswered
<1>3. \A u \in Tabs : Undisturbed(u)' => Undisturbed(u)
  BY <1>1 DEF Undisturbed, Made
<1> QED
  BY <1>1, <1>2, <1>3 DEF ViewInv

\* Where the steps of a call lead, those that answer it left out.
LEMMA Onward ==
  ASSUME Shape, NEW r \in Requests, Charge(r) \/ Ship(r) \/ ServiceStep(r),
         ~Answer(r), ~AnswerFails(r)
  PROVE  \E to \in {"read", "done", "prepared", "declined", "charged", "shipped", "failed"} :
           /\ Moves(r, to)
           /\ UNCHANGED store \/ to = "done"
           /\ req[r].at \in {"called", "read", "prepared", "charged", "shipped"}
           /\ UNCHANGED <<view, fetch>>
<1>1. UNCHANGED <<view, fetch>>
  BY DEF ServiceStep, Charge, Ship, AddRead, AddWrite, EmptyWrite, Prepare, Decline,
         PaymentUnreachable, EmptyAfter, Breaks
<1>2. CASE AddRead(r)
  BY <1>1, <1>2, AddReadMoves DEF AddRead
<1>3. CASE AddWrite(r)
  BY <1>1, <1>3, AddWriteMoves
<1>4. CASE Breaks(r)
  BY <1>1, <1>4, BreaksMoves DEF Breaks
<1>5. CASE EmptyWrite(r) \/ EmptyAfter(r)
  <2>1. Goes(r, "called", "done") \/ Goes(r, "shipped", "done")
    BY <1>5 DEF EmptyWrite, EmptyAfter
  <2> QED
    BY <1>1, <2>1, GoesStays
<1>6. CASE Prepare(r)
  BY <1>1, <1>6, GoesStays DEF Prepare
<1>7. CASE Decline(r) \/ PaymentUnreachable(r) \/ Charge(r) \/ Ship(r)
  <2>1. PICK from \in {"prepared", "charged"}, to \in {"declined", "failed", "charged", "shipped"} :
          Goes(r, from, to)
    BY <1>7 DEF Decline, PaymentUnreachable, Charge, Ship, Outcome
  <2>2. UNCHANGED store
    BY <1>7 DEF Decline, PaymentUnreachable, Charge, Ship
  <2> QED
    BY <1>1, <2>1, <2>2, GoesStays
<1> QED
  BY <1>2, <1>3, <1>4, <1>5, <1>6, <1>7 DEF ServiceStep

LEMMA ViewStep ==
  ASSUME Shape, CallsInv, ViewInv, [Next]_shopVars PROVE ViewInv'
<1>1. ASSUME NEW r \in Requests, Charge(r) \/ Ship(r) \/ ServiceStep(r) PROVE ViewInv'
  <2>1. CASE Answer(r)
    BY <2>1, AnswerView
  <2>2. CASE AnswerFails(r)
    BY <2>2, FailedView
  <2>3. CASE ~Answer(r) /\ ~AnswerFails(r)
    <3>1. PICK to \in {"read", "done", "prepared", "declined", "charged", "shipped", "failed"} :
            /\ Moves(r, to)
            /\ UNCHANGED store \/ to = "done"
            /\ req[r].at \in {"called", "read", "prepared", "charged", "shipped"}
            /\ UNCHANGED <<view, fetch>>
      BY <1>1, <2>3, Onward
    <3>2. to # "unmade" /\ req[r].at \notin {"unmade", "failed", "unseen", "done"}
      BY <3>1
    <3> QED
      BY <3>1, <3>2, ViewFrame
  <2> QED
    BY <2>1, <2>2, <2>3
<1>2. CASE UNCHANGED shopVars
  BY <1>2 DEF shopVars, ViewInv, Unanswered, Undisturbed, Made
<1> QED
  BY <1>1, <1>2, NextCases, CallView, FetchView

LEMMA ViewInit == Init => ViewInv
BY DEF Init, ViewInv, Fetching

\* What an undisturbed tab has read or shows is stale only while an answer that
\* makes it read again is on its way.
THEOREM ViewInvariant == Spec => []ViewInv
BY ViewInit, ViewStep, CallsInvariant, PTL DEF Spec

\* A tab whose calls are all through and went well, and whose cart was fetched,
\* shows the stored cart, in whatever order calls and fetches overlapped.
THEOREM ViewCatchesUpHolds == Spec => []ViewCatchesUp
<1>1. ViewInv => ViewCatchesUp
  <2> SUFFICES ASSUME ViewInv, NEW t \in Tabs, fetch[t].at = "idle",
                      \A r \in Requests :
                        Made(r) => req[r].tab = t /\ req[r].at \in {"ok", "declined"}
               PROVE  view[t] = store
    BY DEF ViewCatchesUp
  <2>1. Undisturbed(t) /\ ~Unanswered
    BY DEF Undisturbed, Unanswered, Made
  <2> QED
    BY <2>1 DEF ViewInv
<1> QED
  BY <1>1, ViewInvariant, PTL

--------------------------------------------------------------------------------
(* What a change of quantity stores.                                           *)

Latest(r) == Made(r) /\ \A q \in Requests : q > r => ~Made(q)

AllAlone == \A r \in Requests : req[r].alone

Positive(cart) == \A p \in DOMAIN cart : cart[p] \in Nat \ {0}

\* The difference a call still has to add makes what was chosen of the cart.
Aims(r) ==
  /\ req[r].kind = "add" => req[r].delta \in Nat \ {0}
  /\ req[r].kind = "change" =>
       /\ req[r].product \in DOMAIN store /\ req[r].chosen \in Nat \ {0}
       /\ req[r].delta \in Int /\ store[req[r].product] + req[r].delta = req[r].chosen

Landed(r) ==
  req[r].product \in DOMAIN store /\ store[req[r].product] = req[r].chosen

\* The calls are made in the order of their numbers.
Numbered ==
  /\ \A r, q \in Requests : Made(r) /\ q < r => Made(q)
  /\ \A r \in Requests : Made(r) \/ req[r].alone
  /\ \A r \in Requests : req[r].at = "read" => req[r].kind \in {"add", "change"}

\* Of calls made one at a time: the one in flight is the latest, what it read
\* is still stored, its difference leads to what was chosen; the latest change
\* that is through is what is stored.
Alternate ==
  /\ Positive(store)
  /\ \A r \in Requests :
       /\ InFlight(r) => Latest(r)
       /\ req[r].at \in {"called", "read"} => Aims(r)
       /\ req[r].at = "read" => req[r].read = store
       /\ req[r].kind = "change" /\ req[r].at \in {"done", "ok"} /\ Latest(r) => Landed(r)

LandInv == Numbered /\ (AllAlone => Alternate)

LEMMA LatestIsOne ==
  ASSUME NEW q \in Requests, NEW r \in Requests, Latest(q), Latest(r)
  PROVE  q = r
<1>1. q \in Nat /\ r \in Nat /\ ~(q > r) /\ ~(r > q)
  BY ShopAssumption DEF Latest
<1> QED
  BY <1>1

\* A step of the call in flight.  What it leaves to show is what is stored, and
\* what the call has read or changed.
LEMMA LandFrame ==
  ASSUME Shape, LandInv, NEW r \in Requests, NEW to, Moves(r, to),
         InFlight(r), to \notin {"unmade", "called"},
         to = "read" => req[r].kind \in {"add", "change"},
         AllAlone /\ Alternate =>
           /\ Positive(store')
           /\ to = "read" => Aims(r)' /\ req'[r].read = store'
           /\ req[r].kind = "change" /\ to \in {"done", "ok"} => Landed(r)'
  PROVE  LandInv'
<1>1. \A q \in Requests : Made(q)' = Made(q) /\ Latest(q)' = Latest(q)
  <2>1. \A q \in Requests : Made(q)' = Made(q)
    BY DEF Moves, Made, InFlight
  <2> QED
    BY <2>1 DEF Latest
<1>2. Numbered'
  <2>1. \A q \in Requests : req'[q].alone = req[q].alone
    BY DEF Moves
  <2>2. \A q \in Requests : req'[q].at = "read" => req'[q].kind \in {"add", "change"}
    BY DEF Moves, LandInv, Numbered
  <2> QED
    BY <1>1, <2>1, <2>2 DEF LandInv, Numbered
<1>3. ASSUME AllAlone' PROVE Alternate'
  <2>1. AllAlone /\ Alternate
    BY <1>3 DEF Moves, AllAlone, LandInv
  <2>2. Latest(r)
    BY <2>1 DEF Alternate
  <2>3. ASSUME NEW q \in Requests \ {r} PROVE req'[q] = req[q] /\ ~Latest(q) /\ ~InFlight(q)
    BY <2>1, <2>2, <2>3, LatestIsOne DEF Alternate, Moves
  <2>4. ASSUME NEW q \in Requests \ {r}
        PROVE  ~InFlight(q)' /\ ~Latest(q)' /\ req'[q].at \notin {"called", "read"}
    BY <1>1, <2>3, <2>4 DEF InFlight, Made, Settled
  <2>5. Positive(store')
    BY <2>1
  <2>6. /\ Latest(r)'
        /\ req'[r].at = to /\ req'[r].kind = req[r].kind
        /\ to # "called"
        /\ to = "read" => Aims(r)' /\ req'[r].read = store'
        /\ req[r].kind = "change" /\ to \in {"done", "ok"} => Landed(r)'
    BY <1>1, <2>1, <2>2 DEF Moves
  <2> QED
    BY <2>4, <2>5, <2>6 DEF Alternate
<1> QED
  BY <1>2, <1>3 DEF LandInv

\* A step that stores nothing, reads nothing and finishes no change.
LEMMA LandOnward ==
  ASSUME Shape, LandInv, NEW r \in Requests, NEW to, Moves(r, to), UNCHANGED store,
         InFlight(r), to \notin {"unmade", "called", "read"},
         req[r].kind = "change" /\ to \in {"done", "ok"} => req[r].at = "done"
  PROVE  LandInv'
<1>1. ASSUME AllAlone, Alternate, req[r].kind = "change", to \in {"done", "ok"}
      PROVE  Landed(r)'
  BY <1>1 DEF Alternate, Landed, Moves
<1>2. Alternate => Positive(store')
  BY DEF Alternate
<1> QED
  BY <1>1, <1>2, LandFrame

LEMMA AddReadLand ==
  ASSUME Shape, LandInv, NEW r \in Requests, AddRead(r) PROVE LandInv'
<1>1. Moves(r, "read") /\ req[r].at = "called"
  BY AddReadMoves
<1>2. req'[r].read = store /\ req'[r].delta = req[r].delta /\ store' = store
  BY DEF AddRead, Shape, CallFields
<1>3. req[r].kind \in {"add", "change"} /\ InFlight(r)
  BY <1>1 DEF AddRead, Kind, InFlight, Made, Settled
<1>4. ASSUME AllAlone, Alternate
      PROVE  Positive(store') /\ Aims(r)' /\ req'[r].read = store'
  <2>1. Aims(r)
    BY <1>1, <1>4 DEF Alternate
  <2>2. Aims(r)'
    BY <1>1, <1>2, <2>1 DEF Aims, Moves
  <2> QED
    BY <1>2, <1>4, <2>2 DEF Alternate
<1> QED
  BY <1>1, <1>3, <1>4, LandFrame

\* What AddItemAsync writes back, when what it read is still stored.
LEMMA WithItemLands ==
  ASSUME NEW cart, NEW p, NEW n \in Int, Positive(cart),
         n > 0 \/ (p \in DOMAIN cart /\ cart[p] + n > 0)
  PROVE  /\ Positive(WithItem(cart, p, n))
         /\ p \in DOMAIN WithItem(cart, p, n)
         /\ p \in DOMAIN cart => WithItem(cart, p, n)[p] = cart[p] + n
BY DEF Positive, WithItem

LEMMA AddWriteLand ==
  ASSUME Shape, LandInv, NEW r \in Requests, AddWrite(r) PROVE LandInv'
<1>1. Moves(r, "done") /\ req[r].at = "read"
  BY AddWriteMoves
<1>2. InFlight(r) /\ req[r].kind \in {"add", "change"}
  BY <1>1 DEF InFlight, Made, Settled, LandInv, Numbered
<1>3. store' = WithItem(req[r].read, req[r].product, req[r].delta)
  BY DEF AddWrite
<1>4. ASSUME AllAlone, Alternate
      PROVE  Positive(store') /\ (req[r].kind = "change" => Landed(r)')
  <2>1. Positive(store) /\ Aims(r) /\ req[r].read = store
    BY <1>1, <1>4 DEF Alternate
  <2>2. /\ req[r].delta \in Int
        /\ \/ req[r].delta > 0
           \/ /\ req[r].product \in DOMAIN store
              /\ store[req[r].product] + req[r].delta > 0
    BY <1>2, <2>1 DEF Aims
  <2>3. Positive(store')
    BY <1>3, <2>1, <2>2, WithItemLands
  <2>4. ASSUME req[r].kind = "change" PROVE Landed(r)'
    <3>1. /\ req[r].product \in DOMAIN store
          /\ store[req[r].product] + req[r].delta = req[r].chosen
      BY <2>1, <2>4 DEF Aims
    <3>2. /\ req[r].product \in DOMAIN store'
          /\ store'[req[r].product] = req[r].chosen
      BY <1>3, <2>1, <2>2, <3>1, WithItemLands
    <3> QED
      BY <1>1, <3>2 DEF Landed, Moves
  <2> QED
    BY <2>3, <2>4
<1> QED
  BY <1>1, <1>2, <1>4, LandFrame

LEMMA EmptyLand ==
  ASSUME Shape, LandInv, NEW r \in Requests, EmptyWrite(r) \/ EmptyAfter(r) PROVE LandInv'
<1>1. /\ Moves(r, "done") /\ req[r].at \in {"called", "shipped"}
      /\ req[r].kind # "change" /\ store' \in {EmptyCart, store}
  BY GoesStays DEF EmptyWrite, EmptyAfter, Kind
<1>2. Alternate => Positive(store')
  BY <1>1 DEF Alternate, Positive, EmptyCart
<1>3. InFlight(r)
  BY <1>1 DEF InFlight, Made, Settled
<1> QED
  BY <1>1, <1>2, <1>3, LandFrame

LEMMA OtherLand ==
  ASSUME Shape, LandInv, NEW r \in Requests, Charge(r) \/ Ship(r) \/ ServiceStep(r),
         ~AddRead(r), ~AddWrite(r), ~EmptyWrite(r), ~EmptyAfter(r)
  PROVE  LandInv'
<1>1. UNCHANGED store
  BY DEF ServiceStep, Charge, Ship, Prepare, Decline, PaymentUnreachable, Breaks, Answer,
         AnswerFails
<1>2. PICK to : /\ Moves(r, to)
                /\ to \notin {"unmade", "called", "read"}
                /\ req[r].at \in {"called", "read", "prepared", "charged", "shipped", "done"}
                /\ to \in {"done", "ok"} => req[r].at = "done"
  <2>1. CASE Answer(r)
    BY <2>1, AnswerMoves DEF Seen
  <2>2. CASE AnswerFails(r)
    BY <2>2, GoesStays DEF AnswerFails
  <2>3. CASE Breaks(r)
    BY <2>3, BreaksMoves
  <2>4. CASE Prepare(r) \/ Decline(r) \/ PaymentUnreachable(r) \/ Charge(r) \/ Ship(r)
    <3>1. PICK from \in {"called", "prepared", "charged"},
               to \in {"prepared", "declined", "failed", "charged", "shipped"} :
            Goes(r, from, to)
      BY <2>4 DEF Prepare, Decline, PaymentUnreachable, Charge, Ship, Outcome
    <3>2. UNCHANGED <<view, fetch>>
      BY <2>4 DEF Prepare, Decline, PaymentUnreachable, Charge, Ship
    <3> QED
      BY <3>1, <3>2, GoesStays
  <2> QED
    BY <2>1, <2>2, <2>3, <2>4 DEF ServiceStep
<1>3. InFlight(r)
  BY <1>2 DEF InFlight, Made, Settled
<1> QED
  BY <1>1, <1>2, <1>3, LandOnward

\* A call made while nothing else is under way, by a tab that shows what is
\* stored, has a difference that leads from there to what was chosen.
LEMMA MadeAims ==
  ASSUME Shape, NEW r \in Requests, NEW t \in Tabs, MakesCall(r, t),
         Positive(store), Alone(t)
  PROVE  Aims(r)'
<1>1. PICK kind \in {"add", "change", "empty", "order"} :
        \E product, chosen, delta :
          /\ Calls(r, t, kind, product, chosen, delta)
          /\ kind = "add" => delta \in 1..MaxQuantity
          /\ kind = "change" => /\ product \in DOMAIN Shown(t) /\ chosen \in 1..MaxQuantity
                               /\ delta = Delta(t, product, chosen)
  BY DEF MakesCall, AddItem, UpdateItemQuantity, Empty, PlaceOrder
<1>2. PICK product, chosen, delta :
        /\ Calls(r, t, kind, product, chosen, delta)
        /\ kind = "add" => delta \in 1..MaxQuantity
        /\ kind = "change" => /\ product \in DOMAIN Shown(t) /\ chosen \in 1..MaxQuantity
                             /\ delta = Delta(t, product, chosen)
  BY <1>1
<1>3. /\ req'[r].kind = kind /\ req'[r].product = product
      /\ req'[r].chosen = chosen /\ req'[r].delta = delta /\ store' = store
  BY <1>2 DEF Calls, Shape
<1>4. 1..MaxQuantity \subseteq Nat \ {0}
  BY ShopAssumption
<1>5. ASSUME kind = "change"
      PROVE  /\ product \in DOMAIN store /\ chosen \in Nat \ {0}
             /\ delta \in Int /\ store[product] + delta = chosen
  <2>1. product \in DOMAIN Shown(t) /\ chosen \in 1..MaxQuantity
        /\ delta = chosen - Shown(t)[product]
    BY <1>2, <1>5 DEF Delta
  <2>2. Shown(t) = store
    BY <2>1 DEF Shown, EmptyCart, Alone
  <2>3. store[product] \in Nat
    BY <2>1, <2>2 DEF Positive
  <2> QED
    BY <1>4, <2>1, <2>2, <2>3
<1> QED
  BY <1>2, <1>3, <1>4, <1>5 DEF Aims

LEMMA CallLand ==
  ASSUME Shape, LandInv, NEW r \in Requests, NEW t \in Tabs, MakesCall(r, t)
  PROVE  LandInv'
<1>1. /\ Shape' /\ req[r].at = "unmade" /\ req'[r].at = "called"
      /\ \A q \in Requests \ {r} : req'[q] = req[q]
      /\ UNCHANGED store
  BY MakesCallMoves
<1>2. (\A q \in Requests : q < r => Made(q)) /\ req'[r].alone = Alone(t)
  <2>1. PICK kind, product, chosen, delta : Calls(r, t, kind, product, chosen, delta)
    BY DEF MakesCall, AddItem, UpdateItemQuantity, Empty, PlaceOrder
  <2> QED
    BY <2>1 DEF Calls, IsNext, Shape
<1>3. ~Made(r) /\ \A q \in Requests : q > r => ~Made(q)
  <2>1. \A q \in Requests : q > r => r < q
    BY ShopAssumption
  <2> QED
    BY <1>1, <2>1 DEF LandInv, Numbered, Made
<1>4. Made(r)' /\ \A q \in Requests \ {r} : Made(q)' = Made(q)
  BY <1>1 DEF Made
<1>5. Numbered'
  <2>1. ASSUME NEW p \in Requests, NEW q \in Requests, Made(p)', q < p PROVE Made(q)'
    <3>1. CASE p = r
      BY <1>2, <1>4, <2>1, <3>1, ShopAssumption
    <3>2. CASE p # r
      BY <1>3, <1>4, <2>1, <3>2 DEF LandInv, Numbered
    <3> QED
      BY <3>1, <3>2
  <2>2. \A q \in Requests : Made(q)' \/ req'[q].alone
    BY <1>1, <1>4 DEF LandInv, Numbered
  <2>3. \A q \in Requests : req'[q].at = "read" => req'[q].kind \in {"add", "change"}
    BY <1>1 DEF LandInv, Numbered
  <2> QED
    BY <2>1, <2>2, <2>3 DEF Numbered
<1>6. ASSUME AllAlone' PROVE Alternate'
  <2>1. Alone(t)
    BY <1>2, <1>6 DEF AllAlone
  <2>2. Alternate
    <3>1. \A q \in Requests : req[q].alone
      BY <1>1, <1>3, <1>6 DEF AllAlone, LandInv, Numbered
    <3> QED
      BY <3>1 DEF LandInv, AllAlone
  <2>3. Aims(r)' /\ Positive(store')
    BY <1>1, <2>1, <2>2, MadeAims DEF Alternate
  <2>4. Latest(r)'
    BY <1>3, <1>4, ShopAssumption DEF Latest
  <2>5. ASSUME NEW q \in Requests \ {r}
        PROVE  ~InFlight(q)' /\ ~Latest(q)' /\ req'[q].at \notin {"called", "read"}
    <3>1. ~InFlight(q) /\ req'[q] = req[q]
      BY <1>1, <2>1 DEF Alone
    <3>2. ~InFlight(q)' /\ req'[q].at \notin {"called", "read"}
      BY <3>1 DEF InFlight, Made, Settled
    <3>3. Made(q) => r > q
      BY <1>3, <2>5, ShopAssumption
    <3>4. ~Latest(q)'
      BY <1>4, <2>5, <3>3 DEF Latest
    <3> QED
      BY <3>2, <3>4
  <2> QED
    BY <1>1, <2>3, <2>4, <2>5 DEF Alternate
<1> QED
  BY <1>5, <1>6 DEF LandInv

\* The invariant speaks of the store and the calls only.
LEMMA LandStutter ==
  ASSUME LandInv, UNCHANGED <<store, req>> PROVE LandInv'
BY DEF LandInv, Numbered, AllAlone, Alternate, Positive, Aims, Landed, Latest, InFlight,
       Settled, Made

LEMMA LandStep ==
  ASSUME Shape, LandInv, [Next]_shopVars PROVE LandInv'
<1>1. ASSUME NEW r \in Requests, Charge(r) \/ Ship(r) \/ ServiceStep(r) PROVE LandInv'
  BY <1>1, AddReadLand, AddWriteLand, EmptyLand, OtherLand
<1>2. ASSUME NEW t \in Tabs, FetchStep(t) PROVE LandInv'
  BY <1>2, FetchShape, LandStutter
<1>3. CASE UNCHANGED shopVars
  BY <1>3, LandStutter DEF shopVars
<1> QED
  BY <1>1, <1>2, <1>3, NextCases, CallLand

LEMMA LandInit == Init => LandInv
BY DEF Init, LandInv, Numbered, AllAlone, Alternate, Positive, Aims, Landed, Latest, InFlight,
       Settled, Made, Unmade, EmptyCart

\* Calls made one at a time, each from the stored cart, keep every quantity
\* positive, and each change of quantity aims at what was chosen.
THEOREM LandInvariant == Spec => []LandInv
BY LandInit, LandStep, CallsInvariant, PTL DEF Spec

\* For any number of tabs and calls, whichever calls fail and however adds,
\* changes, orders and emptied carts alternate: made one at a time, the latest
\* change stores the quantity that was chosen, and no quantity reaches zero.
THEOREM ChangesLandHolds == Spec => []ChangesLand
<1>1. LandInv => ChangesLand
  <2> SUFFICES ASSUME LandInv, AllAlone PROVE ChangesLand
    BY DEF ChangesLand, AllAlone
  <2>1. Alternate
    BY DEF LandInv
  <2>2. \A p \in DOMAIN store : store[p] >= 1
    BY <2>1 DEF Alternate, Positive
  <2>3. ASSUME NEW r \in Requests, req[r].kind = "change", req[r].at \in {"done", "ok"},
               \A q \in Requests : q > r => ~Made(q)
        PROVE  store[req[r].product] = req[r].chosen
    <3>1. Latest(r)
      BY <2>3 DEF Latest, Made
    <3> QED
      BY <2>1, <2>3, <3>1 DEF Alternate, Landed
  <2> QED
    BY <2>2, <2>3 DEF ChangesLand
<1> QED
  BY <1>1, LandInvariant, PTL

================================================================================
