--------------------------------- MODULE Shop ---------------------------------
(***************************************************************************)
(* The cart and the checkout of the demo shop, for one user: browser tabs  *)
(* (frontend/providers/Cart.provider.tsx and the pages), the web tier's    *)
(* API (frontend/pages/api), the cart service over Valkey, and the         *)
(* checkout service calling payment and shipping.  A call may fail at any  *)
(* of its steps, or do its work and lose the answer.                       *)
(***************************************************************************)
EXTENDS Integers

CONSTANTS
  Products,
  Tabs,          \* browser tabs that share the session's user id
  Requests,      \* the calls of all tabs, numbered as they are made
  MaxQuantity,   \* the choices of the quantity select
  NoCart         \* no answer yet

ASSUME ShopAssumption == Requests \subseteq Nat \ {0} /\ MaxQuantity \in Nat \ {0}

VARIABLES
  store,     \* the cart in Valkey: product -> quantity
  view,      \* tab -> the cart it shows, or NoCart
  fetch,     \* tab -> its GET /api/cart
  req,       \* the other calls of the tabs
  charged,   \* calls for which the payment service took money
  shipped    \* calls for which the shipping service shipped

shopVars == <<store, view, fetch, req, charged, shipped>>

EmptyCart == <<>>

Fetching == [at |-> "asked", cart |-> EmptyCart]
Resting(at) == [at |-> at, cart |-> EmptyCart]

Unmade == [at |-> "unmade", kind |-> "none", tab |-> "none", product |-> "none",
           chosen |-> 0, delta |-> 0, read |-> EmptyCart, alone |-> TRUE]

Init ==
  /\ store = EmptyCart
  /\ view = [t \in Tabs |-> NoCart]
  /\ fetch = [t \in Tabs |-> Fetching]
  /\ req = [r \in Requests |-> Unmade]
  /\ charged = {} /\ shipped = {}

----------------------------------------------------------------------------
(* The tabs make calls.                                                      *)

Made(r) == req[r].at # "unmade"
Settled(r) == req[r].at \in {"ok", "unseen", "failed", "declined"}
InFlight(r) == Made(r) /\ ~Settled(r)
IsNext(r) == ~Made(r) /\ \A q \in Requests : q < r => Made(q)

\* What a tab renders before its first answer: an empty cart.
Shown(t) == IF view[t] = NoCart THEN EmptyCart ELSE view[t]

\* A call made while nothing is on its way and the tab shows the stored cart.
Alone(t) ==
  /\ \A q \in Requests : ~InFlight(q)
  /\ view[t] = store /\ \A u \in Tabs : fetch[u].at \in {"idle", "failed"}

Calls(r, t, kind, product, chosen, delta) ==
  /\ IsNext(r)
  /\ req' = [req EXCEPT ![r] =
               [at |-> "called", kind |-> kind, tab |-> t, product |-> product,
                chosen |-> chosen, delta |-> delta, read |-> EmptyCart,
                alone |-> Alone(t)]]
  /\ UNCHANGED <<store, view, fetch, charged, shipped>>

\* The product page.
AddItem(r, t, p, n) == Calls(r, t, "add", p, n, n)

Delta(t, p, n) == n - Shown(t)[p]

\* The quantity select of a row of the cart page.
UpdateItemQuantity(r, t, p, n) ==
  /\ p \in DOMAIN Shown(t)
  /\ Delta(t, p, n) # 0
  /\ Calls(r, t, "change", p, n, Delta(t, p, n))

\* The cart page shows its buttons when there are rows.
Empty(r, t) == Shown(t) # EmptyCart /\ Calls(r, t, "empty", "none", 0, 0)

PlaceOrder(r, t) == Shown(t) # EmptyCart /\ Calls(r, t, "order", "none", 0, 0)

----------------------------------------------------------------------------
(* The services do their work.                                               *)

Kind(r, kinds) == req[r].kind \in kinds
Goes(r, from, to) == req[r].at = from /\ req' = [req EXCEPT ![r].at = to]

\* Mutation: every error of the charge is a declined payment.
OutcomeOfAny(error) == IF error \in {"refused", "unreachable"} THEN "declined" ELSE "failed"

\* What the tab is told of an error: 422 when the payment was declined, 500 for
\* the rest (api/checkout.ts).  It tells them apart by the status in the error's
\* text: an error of charge.js has the status Unknown, a lost connection
\* Unavailable or Internal.
Outcome(error) == IF error = "refused" THEN "declined" ELSE "failed"

\* HashGet.
AddRead(r) ==
  /\ Kind(r, {"add", "change"}) /\ req[r].at = "called"
  /\ req' = [req EXCEPT ![r].at = "read", ![r].read = store]
  /\ UNCHANGED <<store, view, fetch, charged, shipped>>

\* Mutation: the quantity of a product already in the cart is replaced.
WithItemReplaced(cart, p, n) ==
  [q \in DOMAIN cart \cup {p} |-> IF q # p THEN cart[q] ELSE n]

\* The cart with n more of p; a product is never taken out of it.
WithItem(cart, p, n) ==
  [q \in DOMAIN cart \cup {p} |->
     IF q # p THEN cart[q] ELSE IF p \in DOMAIN cart THEN cart[p] + n ELSE n]

\* HashSet of the cart that was read.
AddWrite(r) ==
  /\ req[r].at = "read"
  /\ req' = [req EXCEPT ![r].at = "done", ![r].read = EmptyCart, ![r].delta = 0]
  /\ store' = WithItem(req[r].read, req[r].product, req[r].delta)
  /\ UNCHANGED <<view, fetch, charged, shipped>>

EmptyWrite(r) ==
  /\ Kind(r, {"empty"}) /\ Goes(r, "called", "done")
  /\ store' = EmptyCart
  /\ UNCHANGED <<view, fetch, charged, shipped>>

\* The user's cart, the products, the shipping quote, the currency: all must
\* answer.  What the order contains does not matter here.
Prepare(r) ==
  /\ Kind(r, {"order"}) /\ Goes(r, "called", "prepared")
  /\ UNCHANGED <<store, view, fetch, charged, shipped>>

\* charge.js throws: the card is not valid, neither VISA nor MasterCard, or
\* expired, or the feature flag paymentFailure says so.
Decline(r) ==
  /\ Kind(r, {"order"}) /\ Goes(r, "prepared", Outcome("refused"))
  /\ UNCHANGED <<store, view, fetch, charged, shipped>>

\* The payment service takes the money; its answer comes back or is lost.
Charge(r) ==
  /\ Kind(r, {"order"})
  /\ charged' = charged \cup {r}
  /\ Goes(r, "prepared", "charged") \/ Goes(r, "prepared", Outcome("unreachable"))
  /\ UNCHANGED <<store, view, fetch, shipped>>

\* paymentUnreachable, or the payment service is down.
PaymentUnreachable(r) ==
  /\ Kind(r, {"order"}) /\ Goes(r, "prepared", Outcome("unreachable"))
  /\ UNCHANGED <<store, view, fetch, charged, shipped>>

\* Shipped, with the answer or without.
Ship(r) ==
  /\ Kind(r, {"order"})
  /\ shipped' = shipped \cup {r}
  /\ Goes(r, "charged", "shipped") \/ Goes(r, "charged", Outcome("broken"))
  /\ UNCHANGED <<store, view, fetch, charged>>

\* The cart is emptied; an error of that is ignored.
EmptyAfter(r) ==
  /\ Kind(r, {"order"}) /\ Goes(r, "shipped", "done")
  /\ store' \in {EmptyCart, store}
  /\ UNCHANGED <<view, fetch, charged, shipped>>

\* A service that a call still needs does not answer.
Breaks(r) ==
  /\ req[r].at \in {"called", "read", "charged", "shipped"}
  /\ req' = [req EXCEPT ![r].at = Outcome("broken"), ![r].read = EmptyCart,
                        ![r].delta = 0]
  /\ UNCHANGED <<store, view, fetch, charged, shipped>>

----------------------------------------------------------------------------
(* The answers reach the tab.                                                *)

\* invalidateQueries: the cart is fetched again.  A fetch under way is thrown
\* away, unless it is the tab's first, which is waited for.
Refetched(t) == [fetch EXCEPT ![t] =
                   IF view[t] = NoCart /\ @.at \in {"asked", "read"} THEN @ ELSE Fetching]

\* The mutation of the Cart provider that carries each kind of call.
\* Mutation: emptyCart without the options that invalidate the cart.
InvalidatesNotEmpty(kind) == kind # "empty"

Invalidates(kind) == kind \in {"add", "change", "empty", "order"}

\* A call that only the first answer of the tab's cart may miss.
Seen(r) ==
  IF view[req[r].tab] = NoCart /\ fetch[req[r].tab].at \in {"asked", "read"}
  THEN "unseen" ELSE "ok"

Answer(r) ==
  /\ Goes(r, "done", Seen(r))
  /\ fetch' = IF Invalidates(req[r].kind) THEN Refetched(req[r].tab) ELSE fetch
  /\ UNCHANGED <<store, view, charged, shipped>>

\* The answer needs more than the work: the cart again (api/cart.ts), the
\* products of the order (api/checkout.ts); any answer may be lost.
AnswerFails(r) ==
  /\ Goes(r, "done", "failed")
  /\ UNCHANGED <<store, view, fetch, charged, shipped>>

\* GET /api/cart, with the retries of the query.
FetchRead(t) ==
  /\ fetch[t].at = "asked"
  /\ fetch' = [fetch EXCEPT ![t] = [at |-> "read", cart |-> store]]
  /\ UNCHANGED <<store, view, req, charged, shipped>>

FetchDone(t) ==
  /\ fetch[t].at = "read"
  /\ view' = [view EXCEPT ![t] = fetch[t].cart]
  /\ fetch' = [fetch EXCEPT ![t] = Resting("idle")]
  /\ UNCHANGED <<store, req, charged, shipped>>

FetchFails(t) ==
  /\ fetch[t].at \in {"asked", "read"}
  /\ fetch' = [fetch EXCEPT ![t] = Resting("failed")]
  /\ UNCHANGED <<store, view, req, charged, shipped>>

\* The window gets the focus, or the network is back: a query at rest is
\* fetched again.
Focus(t) ==
  /\ fetch[t].at \in {"idle", "failed"}
  /\ fetch' = [fetch EXCEPT ![t] = Fetching]
  /\ UNCHANGED <<store, view, req, charged, shipped>>

Next ==
  \/ \E r \in Requests, t \in Tabs :
       \/ \E p \in Products, n \in 1..MaxQuantity :
            AddItem(r, t, p, n) \/ UpdateItemQuantity(r, t, p, n)
       \/ Empty(r, t) \/ PlaceOrder(r, t)
  \/ \E r \in Requests :
       \/ AddRead(r) \/ AddWrite(r) \/ EmptyWrite(r)
       \/ Prepare(r) \/ Decline(r) \/ Charge(r) \/ PaymentUnreachable(r)
       \/ Ship(r) \/ EmptyAfter(r)
       \/ Breaks(r) \/ Answer(r) \/ AnswerFails(r)
  \/ \E t \in Tabs : FetchRead(t) \/ FetchDone(t) \/ FetchFails(t) \/ Focus(t)

Spec == Init /\ [][Next]_shopVars

----------------------------------------------------------------------------
\* A tab that made all the calls, had none fail, and has its cart fetched after
\* its last one, shows the cart that is stored: no fetch that read the cart too
\* early is what remains on the page (Cart.provider.tsx invalidates the cart
\* after every call).  A call answered during the tab's first fetch is the one
\* exception, so it is left out.
ViewCatchesUp ==
  \A t \in Tabs :
    /\ fetch[t].at = "idle"
    /\ \A r \in Requests :
         Made(r) => req[r].tab = t /\ req[r].at \in {"ok", "declined"}
    => view[t] = store

\* What the customer is told of an order is true, whichever step failed: a
\* confirmed order was paid and shipped, a declined one was not paid
\* (api/checkout.ts), and nothing is shipped without being paid.
OutcomeTold ==
  \A r \in Requests :
    /\ req[r].kind = "order" /\ req[r].at \in {"ok", "unseen"}
         => r \in charged \cap shipped
    /\ req[r].at = "declined" => r \notin charged
    /\ r \in shipped => r \in charged

\* If every call was made with nothing else under way and the stored cart in
\* view, quantities are positive and a change of quantity stores the number that
\* was chosen.  Two changes in a row made on one view would add both differences
\* and reach zero or less, which checkout converts to uint32 (main.go:357).
ChangesLand ==
  (\A r \in Requests : req[r].alone) =>
    /\ \A p \in DOMAIN store : store[p] >= 1
    /\ \A r \in Requests :
         req[r].kind = "change" /\ req[r].at \in {"done", "ok"}
           /\ (\A q \in Requests : q > r => ~Made(q))
         => store[req[r].product] = req[r].chosen

================================================================================
