----------------------------- MODULE ShopFront -----------------------------
(***************************************************************************)
(* The buyer's screens over the shop: the cart page, the checkout page for *)
(* a cart, a won lot or an agreed price, the receipt and the failure       *)
(* screen.  A tab works from the copy of the cart it last fetched; other   *)
(* tabs, and the server, do not wait for it.                               *)
(*                                                                         *)
(*   closed -> cart -> checkout -> sent -> paying -> receipt               *)
(*                        ^                     \-> failed                 *)
(***************************************************************************)
EXTENDS Shop

CONSTANTS
  Tabs,       \* browser tabs, each signed in as one buyer
  UserOf,     \* the buyer of each tab
  MaxDrops    \* bound on requests whose answer never arrives

ASSUME FrontAssumption ==
  UserOf \in [Tabs -> Buyers] /\ MaxDrops \in Nat /\ Null \notin Codes

VARIABLES
  tabs,       \* what each tab shows and holds
  drops       \* answers lost so far

frontVars == <<tabs, drops>>

\* `cart` is the cached GET /cart (Null until fetched), `picked` the selection
\* of the URL (Null: the whole cart), `shown` the total the buyer confirmed,
\* `lines` the lines behind it, `failure` what the failure screen is told.
ClosedTab == [page |-> "closed", kind |-> Null, cart |-> Null, unselected |-> {},
              picked |-> Null, target |-> Null, session |-> Null, shown |-> 0,
              lines |-> {}, failure |-> Null]

FrontInit == ShopInit /\ tabs = [t \in Tabs |-> ClosedTab] /\ drops = 0

-----------------------------------------------------------------------------
(***************************************************************************)
(* What the screens compute                                                *)
(***************************************************************************)

\* GET /cart as this tab's buyer sees it now.
FetchedCart(b) ==
  {[id |-> cart[b][p].id, productId |-> p, sellerId |-> SellerOf[p],
    quantity |-> cart[b][p].quantity,
    subtotal |-> calculateLineTotal(product[p], cart[b][p].quantity),
    issue |-> detectIssue(b, p)] : p \in Lines(b)}

\* selectedItems: ids that left the cart are dropped from the selection.
selectedItems(items, picked) == {i \in items : picked = Null \/ i.id \in picked}

\* totalsOf: added up in whole satang.
totalsOf(items) ==
  [itemCount |-> SumFunction([i \in items |-> i.quantity]),
   total |-> SumFunction([i \in items |-> i.subtotal]),
   sellerCount |-> Cardinality({i.sellerId : i \in items})]

\* The lines ticked on the cart page.
Ticked(t) == {i \in tabs[t].cart : i.id \notin tabs[t].unselected}

\* checkoutHref: everything ticked leaves no parameter.
checkoutHref(t) ==
  IF Ticked(t) = tabs[t].cart THEN Null ELSE {i.id : i \in Ticked(t)}

\* Mutant: an empty cart is looked for before a receipt.
CartGate_EmptyFirst(t) ==
  CASE tabs[t].cart = Null -> "loading"
    [] tabs[t].cart # Null /\ tabs[t].cart = {} -> "empty"
    [] OTHER -> IF tabs[t].page = "receipt" THEN "receipt" ELSE "form"

\* CartGate: the receipt first, since paying empties the cart behind it.
CartGate(t) ==
  LET paying == selectedItems(tabs[t].cart, tabs[t].picked)
  IN  CASE tabs[t].page = "receipt" -> "receipt"
        [] tabs[t].page # "receipt" /\ tabs[t].cart = Null -> "loading"
        [] tabs[t].page # "receipt" /\ tabs[t].cart # Null ->
             IF tabs[t].cart = {} THEN "empty"
             ELSE IF paying = {} THEN "gone"
             ELSE IF \E i \in paying : i.issue # Null THEN "blocked" ELSE "form"

\* AuctionGate asks the arena whether this buyer won the lot; OfferGate looks
\* for the offer among the ones still payable.
LotGate(b, l) == Lot[l].winnerUserId = b /\ Lot[l].soldPrice # Null
OfferGate(b, n) == n \in listPayableOffers(b)

\* Mutant: losing the stock race reads as any other refusal.
checkoutFailure_NoRace(code) ==
  [kind |-> "UNAVAILABLE", charged |-> FALSE, canRetry |-> FALSE]

\* checkoutFailure: what the failure screen says, from the code alone.
checkoutFailure(code) ==
  CASE code \in {"ITEMS_UNAVAILABLE", "CART_EMPTY", "AUCTION_UNPAYABLE", "OFFER_UNUSABLE"} ->
         [kind |-> "UNAVAILABLE", charged |-> FALSE, canRetry |-> FALSE]
    [] code = "STOCK_LOST_AFTER_CHARGE" ->
         [kind |-> "RACE_LOST", charged |-> TRUE, canRetry |-> FALSE]
    [] code = "AUCTION_ALREADY_PAID" ->
         [kind |-> "AUCTION_PAID", charged |-> FALSE, canRetry |-> FALSE]
    [] code = "PAYMENT_DECLINED" ->
         [kind |-> "DECLINED", charged |-> FALSE, canRetry |-> TRUE]
    [] OTHER -> [kind |-> "UNKNOWN", charged |-> FALSE, canRetry |-> TRUE]

\* summarise: a whole-cart request names no lines.
RequestedIds(t) ==
  LET paying == selectedItems(tabs[t].cart, tabs[t].picked)
  IN  IF paying = tabs[t].cart THEN {} ELSE {i.id : i \in paying}

-----------------------------------------------------------------------------
(***************************************************************************)
(* What a buyer and the network do                                         *)
(***************************************************************************)
Turn(t, new) == tabs' = [tabs EXCEPT ![t] = new]

frontElsewhere == <<drops, shopVars>>

OpenCart(t) ==
  /\ tabs[t].page \in {"closed", "failed"}
  /\ tabs[t].page = "failed" => tabs[t].kind = "CART" /\ ~tabs[t].failure.canRetry
  /\ Turn(t, [ClosedTab EXCEPT !.page = "cart", !.kind = "CART", !.cart = tabs[t].cart])
  /\ UNCHANGED frontElsewhere

\* The shared cart query answers: on arrival, and whenever it is refetched.
FetchCart(t) ==
  /\ tabs[t].page \in {"cart", "checkout", "receipt"}
  /\ tabs[t].kind = "CART"
  /\ Turn(t, [tabs[t] EXCEPT !.cart = FetchedCart(UserOf[t])])
  /\ UNCHANGED frontElsewhere

\* Ticking and unticking lines, or all of them.
Tick(t) ==
  /\ tabs[t].page = "cart" /\ tabs[t].cart # Null
  /\ \E ids \in SUBSET {i.id : i \in tabs[t].cart} :
       Turn(t, [tabs[t] EXCEPT !.unselected = ids])
  /\ UNCHANGED frontElsewhere

\* CartSummary: the button is live when something is ticked and nothing ticked
\* has an issue.
Proceed(t) ==
  /\ tabs[t].page = "cart" /\ tabs[t].cart # Null
  /\ Ticked(t) # {}
  /\ \A i \in Ticked(t) : i.issue = Null
  /\ Turn(t, [tabs[t] EXCEPT !.page = "checkout", !.picked = checkoutHref(t)])
  /\ UNCHANGED frontElsewhere

OpenLot(t) ==
  /\ tabs[t].page = "closed"
  /\ \E l \in Lots :
       /\ LotGate(UserOf[t], l)
       /\ Turn(t, [ClosedTab EXCEPT !.page = "checkout", !.kind = "AUCTION", !.target = l])
  /\ UNCHANGED frontElsewhere

OpenOffer(t) ==
  /\ tabs[t].page = "closed"
  /\ \E n \in DOMAIN offers :
       /\ OfferGate(UserOf[t], n)
       /\ Turn(t, [ClosedTab EXCEPT !.page = "checkout", !.kind = "OFFER", !.target = n])
  /\ UNCHANGED frontElsewhere

\* The total on the form, and the lines it was added up from.
Shown(t) ==
  CASE tabs[t].kind = "CART" -> totalsOf(selectedItems(tabs[t].cart, tabs[t].picked)).total
    [] tabs[t].kind = "AUCTION" -> Lot[tabs[t].target].soldPrice
    [] OTHER -> offers[tabs[t].target].offerAmount * offers[tabs[t].target].quantity

\* A session no other tab has asked for.
Unused(k) == k \in cast /\ checkouts[k].pc = "idle" /\ \A t \in Tabs : tabs[t].session # k

\* The form is submitted; the button stays disabled until an answer arrives.
Pay(t) ==
  /\ tabs[t].page = "checkout"
  /\ tabs[t].kind = "CART" => CartGate(t) = "form"
  /\ LET k == CHOOSE k \in cast \cap Sessions : Unused(k)
     IN  /\ \E j \in cast \cap Sessions : Unused(j)
         /\ Turn(t, [tabs[t] EXCEPT
              !.page = "sent", !.session = k, !.shown = Shown(t),
              !.lines = IF tabs[t].kind = "CART" THEN RequestedIds(t) ELSE {}])
  /\ UNCHANGED frontElsewhere

\* The request reaches the server, which prices what it names.
Arrive(t) ==
  /\ tabs[t].page = "sent"
  /\ \/ /\ tabs[t].kind = "CART"
        /\ PriceCart(tabs[t].session, UserOf[t], tabs[t].lines)
     \/ /\ tabs[t].kind = "AUCTION"
        /\ PriceAuction(tabs[t].session, UserOf[t], tabs[t].target)
     \/ /\ tabs[t].kind = "OFFER"
        /\ SpendOffer(tabs[t].session, UserOf[t], tabs[t].target)
  /\ Turn(t, [tabs[t] EXCEPT !.page = "paying"])
  /\ UNCHANGED <<drops, shelf, cartCalls, parcelCalls, cast>>

\* The answer: a receipt, or a failure whose refusal of stock refetches the
\* cart.
Answered(t) ==
  LET code == checkouts[tabs[t].session].code
      failure == checkoutFailure(code)
  IN  /\ tabs[t].page = "paying"
      /\ checkouts[tabs[t].session].pc = "done"
      /\ Turn(t, IF code = "OK"
                 THEN [tabs[t] EXCEPT !.page = "receipt"]
                 ELSE [tabs[t] EXCEPT !.page = "failed", !.failure = failure,
                         !.cart = IF failure.kind = "UNAVAILABLE" /\ tabs[t].kind = "CART"
                                  THEN FetchedCart(UserOf[t]) ELSE @])
      /\ UNCHANGED frontElsewhere

\* The answer never comes: the connection dropped or the server stopped.
NoAnswer(t) ==
  /\ tabs[t].page = "paying"
  /\ \/ checkouts[tabs[t].session].pc = "dead" /\ UNCHANGED drops
     \/ /\ checkouts[tabs[t].session].pc # "dead"
        /\ drops < MaxDrops
        /\ drops' = drops + 1
  /\ Turn(t, [tabs[t] EXCEPT !.page = "failed", !.failure = checkoutFailure(Null)])
  /\ UNCHANGED shopVars

\* "Try again" goes back to the form as it stands.
Retry(t) ==
  /\ tabs[t].page = "failed" /\ tabs[t].failure.canRetry
  /\ Turn(t, [tabs[t] EXCEPT !.page = "checkout", !.failure = Null])
  /\ UNCHANGED frontElsewhere

TabSteps(t) ==
  \/ OpenCart(t) \/ FetchCart(t) \/ Tick(t) \/ Proceed(t) \/ OpenLot(t) \/ OpenOffer(t)
  \/ Pay(t) \/ Arrive(t) \/ Answered(t) \/ NoAnswer(t) \/ Retry(t)

\* The server's side of a session, with nothing of the tabs changing.
Serving ==
  /\ \E k \in Sessions \cap cast : ServeCheckout(k)
  /\ UNCHANGED <<frontVars, shelf, cartCalls, parcelCalls, cast>>

FrontNext ==
  \/ \E t \in Tabs : TabSteps(t)
  \/ Serving
  \/ (Selling \/ Filling \/ Offering \/ Shipping) /\ UNCHANGED frontVars
  \/ ShopAtRest /\ UNCHANGED frontVars

FrontSpec == FrontInit /\ [][FrontNext]_<<shopVars, frontVars>>

-----------------------------------------------------------------------------
(***************************************************************************)
(* Properties                                                              *)
(***************************************************************************)
Taken(k) == payments[k] # Null /\ payments[k].status = "SUCCEEDED"
Bought(k) == {o \in OrderIds : o[1] = k}

\* A tab that shows a receipt paid: its session's orders are this buyer's and
\* add up to the charge; and nothing that happens to the cart afterwards takes
\* the receipt down.
ReceiptsStand ==
  \A t \in Tabs :
    tabs[t].page = "receipt" =>
      /\ tabs[t].kind = "CART" => CartGate(t) = "receipt"
      /\ Bought(tabs[t].session) # {}
      /\ \A o \in Bought(tabs[t].session) : orders[o].buyerId = UserOf[t]
      /\ payments[tabs[t].session].amount =
           SumFunction([o \in Bought(tabs[t].session) |-> orders[o].subtotal])

\* A refusal that says nothing was charged is right, when the API named the
\* reason and it is not a lot paid for meanwhile.
RefusalsTellTheTruth ==
  \A t \in Tabs :
    tabs[t].page = "failed" /\ tabs[t].failure.kind \in {"UNAVAILABLE", "DECLINED", "RACE_LOST"}
    => (Taken(tabs[t].session) /\ Bought(tabs[t].session) = {}) = tabs[t].failure.charged

-----------------------------------------------------------------------------
(***************************************************************************)
(* Claims of the code's comments that the code does not keep               *)
(***************************************************************************)

\* "Whether money moved is the single thing a refused buyer most needs to be
\* told": every failure screen is right about it (FailureOverlay).
MoneyMovedIsTold ==
  \A t \in Tabs :
    tabs[t].page = "failed" =>
      (Taken(tabs[t].session) /\ Bought(tabs[t].session) = {}) = tabs[t].failure.charged
=============================================================================
