------------------------------ MODULE Checkout ------------------------------
(***************************************************************************)
(* CheckoutService.checkout: a cart, a won lot or an agreed price is       *)
(* priced, charged, and turned into one order per seller.                  *)
(*                                                                         *)
(*   idle -> (offer ->) priced -> charged -> announce -> done              *)
(*                                                                         *)
(* The charge is committed on its own before the orders, so a session can  *)
(* end paid for with nothing bought; then it answers with a code that says *)
(* so.  The server may stop between any two steps ("dead").                *)
(***************************************************************************)
EXTENDS Haggling

CONSTANTS
  DECLINE_AMOUNT,   \* the one total the payment provider declines
  Wants,            \* what each session may ask for
  MaxFaults         \* bound on the crashes of a run

ASSUME CheckoutAssumption == DECLINE_AMOUNT \in Nat /\ MaxFaults \in Nat

VARIABLES
  checkouts,    \* progress of each session
  faults        \* crashes so far

checkoutVars == <<checkouts, faults>>

\* CheckoutErrorCode, and "OK".
CheckoutErrorCode == {"ITEMS_UNAVAILABLE", "STOCK_LOST_AFTER_CHARGE", "CART_EMPTY",
                      "PAYMENT_DECLINED", "AUCTION_UNPAYABLE", "AUCTION_ALREADY_PAID",
                      "OFFER_UNUSABLE"}
Codes == CheckoutErrorCode \cup {"OK"}

\* `sessionId` says whether the answer carries the checkoutSessionId.
IdleCheckout == [pc |-> "idle", buyerId |-> Null, offer |-> 0, lines |-> {},
                 ids |-> {}, code |-> Null, sessionId |-> FALSE]

CheckoutInit == /\ checkouts = [k \in Sessions |-> IdleCheckout]
                /\ faults = 0

-----------------------------------------------------------------------------
(***************************************************************************)
(* Pricing                                                                 *)
(***************************************************************************)

\* collectCheckoutIssues: every line that cannot be bought right now.
collectCheckoutIssues(b, ps) ==
  {p \in ps : \/ product[p].status # "ACTIVE"
              \/ SellerOf[p] = b
              \/ cart[b][p].quantity > product[p].stockQty}

CartPricedLine(b, p) ==
  [lineId |-> cart[b][p].id, productId |-> p, auctionId |-> Null, sellerId |-> SellerOf[p],
   quantity |-> cart[b][p].quantity,
   unitPrice |-> effectiveUnitPrice(product[p], cart[b][p].quantity),
   subtotal |-> calculateLineTotal(product[p], cart[b][p].quantity)]

LotLine(l) ==
  [lineId |-> 0, productId |-> Null, auctionId |-> l, sellerId |-> Lot[l].sellerId,
   quantity |-> 1, unitPrice |-> Lot[l].soldPrice, subtotal |-> Lot[l].soldPrice]

\* An agreed price collects no quantity discount on top.
OfferLine(n) ==
  [lineId |-> 0, productId |-> offers[n].productId, auctionId |-> Null,
   sellerId |-> SellerOf[offers[n].productId], quantity |-> offers[n].quantity,
   unitPrice |-> offers[n].offerAmount,
   subtotal |-> offers[n].offerAmount * offers[n].quantity]

\* The lots some order already holds (the unique index on order_items.auction_id).
PaidLots == {i.auctionId : i \in UNION {orders[o].items : o \in OrderIds}} \ {Null}

\* priceCart: the lines selected, or all of them; `ids` is {} for all.
CartRefusal(b, ids) ==
  LET items == {p \in Lines(b) : ids = {} \/ cart[b][p].id \in ids}
  IN  CASE items = {} -> "CART_EMPTY"
        [] items # {} /\ ids # {} /\ Cardinality(items) # Cardinality(ids) ->
             "ITEMS_UNAVAILABLE"
        [] OTHER -> IF collectCheckoutIssues(b, items) = {} THEN "OK" ELSE "ITEMS_UNAVAILABLE"

CartLines(b, ids) ==
  {CartPricedLine(b, p) : p \in {q \in Lines(b) : ids = {} \/ cart[b][q].id \in ids}}

\* priceAuction: the winner, of a lot that sold, nobody has paid for.
LotRefusal(b, l) ==
  CASE Lot[l].winnerUserId # b -> "AUCTION_UNPAYABLE"
    [] Lot[l].winnerUserId = b /\ (Lot[l].status # "SOLD" \/ Lot[l].soldPrice = Null) ->
         "AUCTION_UNPAYABLE"
    [] OTHER -> IF l \in PaidLots THEN "AUCTION_ALREADY_PAID" ELSE "OK"

\* priceOffer after the token was spent.
OfferRefusal(b, n) ==
  IF /\ offers[n].buyerId = b
     /\ product[offers[n].productId].status = "ACTIVE"
     /\ inStock(n)
  THEN "OK" ELSE "OFFER_UNUSABLE"

\* The call goes on with what it priced, or answers with the refusal.
Priced(k, b, code, lines) ==
  checkouts' = [checkouts EXCEPT
    ![k] = IF code = "OK"
           THEN [@ EXCEPT !.pc = "priced", !.buyerId = b, !.lines = lines,
                          !.ids = {l.lineId : l \in lines} \ {0}]
           ELSE [@ EXCEPT !.pc = "done", !.buyerId = b, !.code = code]]

PriceCart(k, b, ids) ==
  /\ checkouts[k].pc = "idle"
  /\ Priced(k, b, CartRefusal(b, ids), CartLines(b, ids))
  /\ UNCHANGED <<faults, hagglingVars, shopStoreVars>>

PriceAuction(k, b, l) ==
  /\ checkouts[k].pc = "idle"
  /\ Priced(k, b, LotRefusal(b, l), {LotLine(l)})
  /\ UNCHANGED <<faults, hagglingVars, shopStoreVars>>

\* Mutant: the token is checked and spent later.
verifyAndConsumeAcceptToken_Later(n) == Redeemable(n) /\ UNCHANGED offers

\* Spends the offer if it still stands; FALSE when the update matched nothing.
verifyAndConsumeAcceptToken(n) ==
  Redeemable(n) /\ offers' = [offers EXCEPT ![n].expiresAt = 0]

SpendOffer(k, b, n) ==
  /\ checkouts[k].pc = "idle"
  /\ \/ /\ verifyAndConsumeAcceptToken(n)
        /\ checkouts' = [checkouts EXCEPT ![k].pc = "offer", ![k].buyerId = b,
                                          ![k].offer = n]
     \/ /\ ~Redeemable(n)
        /\ checkouts' = [checkouts EXCEPT ![k].pc = "done", ![k].buyerId = b,
                                          ![k].code = "OFFER_UNUSABLE"]
        /\ UNCHANGED offers
  /\ UNCHANGED <<faults, now, offerCalls, shopStoreVars>>

PriceOffer(k) ==
  /\ checkouts[k].pc = "offer"
  /\ Priced(k, checkouts[k].buyerId, OfferRefusal(checkouts[k].buyerId, checkouts[k].offer),
            {OfferLine(checkouts[k].offer)})
  /\ UNCHANGED <<faults, hagglingVars, shopStoreVars>>

-----------------------------------------------------------------------------
(***************************************************************************)
(* Charging and writing the orders                                         *)
(***************************************************************************)
charge(amount) == [status |-> IF amount = DECLINE_AMOUNT THEN "FAILED" ELSE "SUCCEEDED",
                   amount |-> amount]

\* One charge and one payment row per session, committed before any order.
ChargeSession(k) ==
  LET result == charge(Total(checkouts[k].lines))
  IN  /\ checkouts[k].pc = "priced"
      /\ payments' = [payments EXCEPT ![k] = result]
      /\ checkouts' = [checkouts EXCEPT
           ![k] = IF result.status = "FAILED"
                  THEN [@ EXCEPT !.pc = "done", !.code = "PAYMENT_DECLINED",
                                 !.sessionId = TRUE]
                  ELSE [@ EXCEPT !.pc = "charged"]]
      /\ UNCHANGED <<product, adminActions, cart, lastLine, orders, notifications,
                     announced, provided, faults, hagglingVars>>

\* Mutant: nothing keeps a lot out of a second order.
LotGuard_None(k) == TRUE

\* The unique index on the auction of an order item.
LotGuard(k) == \A l \in checkouts[k].lines : l.auctionId \notin PaidLots

ProductLines(k) == {l \in checkouts[k].lines : l.productId # Null}

\* Mutant: the decrement is not guarded by what is left.
StockGuard_StatusOnly(l) == product[l.productId].status = "ACTIVE"

\* The guard of the decrement, under the row lock.
StockGuard(l) ==
  /\ product[l.productId].status = "ACTIVE"
  /\ product[l.productId].stockQty >= l.quantity

\* decrementStock: a listing that sells out goes off the shelf.
Decremented(row, quantity) ==
  [row EXCEPT !.stockQty = @ - quantity,
              !.status = IF row.stockQty = quantity THEN "OUT_OF_STOCK" ELSE @]

NewOrder(k, seller) ==
  LET lines == {l \in checkouts[k].lines : l.sellerId = seller}
  IN  [buyerId |-> checkouts[k].buyerId, subtotal |-> Total(lines),
       items |-> {[productId |-> l.productId, auctionId |-> l.auctionId,
                   quantity |-> l.quantity, unitPrice |-> l.unitPrice] : l \in lines},
       status |-> "PAID", shipment |-> "PROCESSING", tracking |-> FALSE,
       events |-> <<"PROCESSING">>]

SellersOf(k) == {l.sellerId : l \in checkouts[k].lines}

\* createOrderPlacedNotifications: the buyer and the seller of each order.
OrderPlaced(k) ==
  UNION {{Note("ORDER_PLACED", checkouts[k].buyerId, <<k, s>>, Null),
          Note("ORDER_PLACED", s, <<k, s>>, Null)} : s \in SellersOf(k)}

\* writeOrders in one transaction: orders, stock, cart, notifications.
WriteOrders(k) ==
  LET lines == ProductLines(k)
      b == checkouts[k].buyerId
  IN  /\ checkouts[k].pc = "charged"
      /\ LotGuard(k)
      /\ \A l \in lines : StockGuard(l)
      /\ orders' = [o \in Sessions \X Users |->
           IF o[1] = k /\ o[2] \in SellersOf(k) THEN NewOrder(k, o[2]) ELSE orders[o]]
      /\ product' = [p \in Products |->
           IF \E l \in lines : l.productId = p
           THEN Decremented(product[p], (CHOOSE l \in lines : l.productId = p).quantity)
           ELSE product[p]]
      /\ cart' = [cart EXCEPT ![b] = [p \in Products |->
           IF cart[b][p].id \in checkouts[k].ids THEN NoLine ELSE cart[b][p]]]
      /\ notifications' = notifications \cup OrderPlaced(k)
      /\ checkouts' = [checkouts EXCEPT ![k].pc = "announce"]
      /\ UNCHANGED <<adminActions, lastLine, payments, announced, provided, faults,
                     hagglingVars>>

\* The transaction rolls back: the lot was paid for meanwhile (P2002 becomes a
\* conflict), or a line lost the race for the stock.
LoseOrders(k) ==
  LET beaten == ~LotGuard(k)
  IN  /\ checkouts[k].pc = "charged"
      /\ beaten \/ \E l \in ProductLines(k) : ~StockGuard(l)
      /\ checkouts' = [checkouts EXCEPT ![k].pc = "done", ![k].sessionId = TRUE,
           ![k].code = IF beaten THEN "AUCTION_ALREADY_PAID" ELSE "STOCK_LOST_AFTER_CHARGE"]
      /\ UNCHANGED <<faults, hagglingVars, shopStoreVars>>

\* After the commit: the notifications are pushed and each seller's auto-reply
\* is sent, but not for a lot.
AnnounceOrders(k) ==
  /\ checkouts[k].pc = "announce"
  /\ announced' = announced \cup OrderPlaced(k)
       \cup {Note("autoReply", checkouts[k].buyerId, <<k, s>>, Null) :
               s \in {l.sellerId : l \in ProductLines(k)}}
  /\ checkouts' = [checkouts EXCEPT ![k].pc = "done", ![k].code = "OK"]
  /\ UNCHANGED <<product, adminActions, cart, lastLine, payments, orders, notifications,
                 provided, faults, hagglingVars>>

CrashCheckout(k) ==
  /\ faults < MaxFaults
  /\ checkouts[k].pc \in {"offer", "priced", "charged", "announce"}
  /\ faults' = faults + 1
  /\ checkouts' = [checkouts EXCEPT ![k].pc = "dead"]
  /\ UNCHANGED <<hagglingVars, shopStoreVars>>

\* What a request may name: exactly one of a cart, a lot and an offer.
StartCheckout(k) ==
  \/ /\ "cart" \in Wants[k]
     /\ \E b \in Buyers, ids \in SUBSET (1 .. lastLine) : PriceCart(k, b, ids)
  \/ /\ "lot" \in Wants[k]
     /\ \E b \in Buyers, l \in Lots : PriceAuction(k, b, l)
  \/ /\ "offer" \in Wants[k]
     /\ \E b \in Buyers, n \in DOMAIN offers : SpendOffer(k, b, n)

ServeCheckout(k) ==
  \/ PriceOffer(k) \/ ChargeSession(k) \/ WriteOrders(k) \/ LoseOrders(k)
  \/ AnnounceOrders(k) \/ CrashCheckout(k)

CheckoutTypeOK ==
  /\ faults \in 0 .. MaxFaults
  /\ \A k \in Sessions :
       /\ checkouts[k].pc \in {"idle", "offer", "priced", "charged", "announce", "done", "dead"}
       /\ checkouts[k].lines \subseteq PricedLine
       /\ checkouts[k].code \in Codes \cup {Null}
=============================================================================
