-------------------------------- MODULE Shop --------------------------------
(***************************************************************************)
(* The shop: sellers and admins at the catalogue, buyers at their carts,   *)
(* offers and checkouts, sellers walking parcels, all over the same rows.  *)
(***************************************************************************)
EXTENDS Catalogue, Basket, Checkout, Parcels

CONSTANT Casts   \* bound: the sets of calls that happen together in a behaviour

ASSUME ShopCasts ==
  Casts \subseteq SUBSET (ShelfCalls \cup CartCalls \cup OfferCalls \cup Sessions \cup ParcelCalls)

VARIABLE cast    \* the calls that are made in this behaviour

shopVars == <<shopStoreVars, hagglingVars, checkoutVars, shelf, cartCalls, parcelCalls, cast>>

ShopInit ==
  /\ ShopStoreInit /\ HagglingInit /\ CheckoutInit
  /\ CatalogueInit /\ BasketInit /\ ParcelsInit
  /\ cast \in Casts

\* One actor moves at a time; the others' local state stands.
Selling ==
  /\ \E k \in ShelfCalls \cap cast : ShelfStep(k)
  /\ UNCHANGED <<hagglingVars, checkoutVars, cartCalls, parcelCalls, cast>>
Filling ==
  /\ \E k \in CartCalls \cap cast : CartStep(k)
  /\ UNCHANGED <<hagglingVars, checkoutVars, shelf, parcelCalls, cast>>
Offering ==
  /\ \/ \E k \in OfferCalls \cap cast : OfferStep(k)
     \/ OfferCalls \cap cast # {} /\ TickOffers
  /\ UNCHANGED <<checkoutVars, shelf, cartCalls, parcelCalls, cast>>
Buying ==
  /\ \E k \in Sessions \cap cast : StartCheckout(k) \/ ServeCheckout(k)
  /\ UNCHANGED <<shelf, cartCalls, parcelCalls, cast>>
Shipping ==
  /\ \E k \in ParcelCalls \cap cast : ParcelStep(k)
  /\ UNCHANGED <<hagglingVars, checkoutVars, shelf, cartCalls, cast>>

\* Every call has been made and answered.
ShopAtRest ==
  /\ \A k \in Sessions : checkouts[k].pc \in {"idle", "done", "dead"}
  /\ UNCHANGED shopVars

ShopNext == Selling \/ Filling \/ Offering \/ Buying \/ Shipping \/ ShopAtRest

ShopSpec == ShopInit /\ [][ShopNext]_shopVars

-----------------------------------------------------------------------------
(***************************************************************************)
(* Properties                                                              *)
(***************************************************************************)

\* Rows, carts, offers and the progress of every call keep their types.
ShopTypeOK ==
  /\ ShopStoreTypeOK /\ CatalogueTypeOK /\ BasketTypeOK /\ HagglingTypeOK
  /\ CheckoutTypeOK /\ ParcelsTypeOK

\* Nothing is oversold, lost or put back twice: what is on the shelf is never
\* negative, and with what live orders hold it adds up to what sellers put
\* there, whatever checkouts, restocks and cancellations race (decrementStock,
\* cancelOrder).
StockConserved ==
  \A p \in Products : /\ product[p].stockQty >= 0
                       /\ product[p].stockQty + Held(p) = provided[p]

\* Orders of a session exist only against its one successful charge, add up to
\* it, and each order's lines, as order lists show them, add up to the order.
OrdersMatchCharge ==
  \A k \in Sessions :
    LET mine == {o \in OrderIds : o[1] = k}
    IN  mine # {} =>
          /\ payments[k] # Null
          /\ payments[k].status = "SUCCEEDED"
          /\ payments[k].amount = SumFunction([o \in mine |-> orders[o].subtotal])
          /\ \A o \in mine :
               orders[o].subtotal = SumFunction([i \in orders[o].items |-> lineTotal(i)])

\* A lot is in at most one order, bought by its winner at the price it fell
\* for, however many payments race for it.
LotsPaidOnce ==
  \A l \in Lots :
    LET paid == {o \in OrderIds : \E i \in orders[o].items : i.auctionId = l}
    IN  /\ Cardinality(paid) <= 1
        /\ \A o \in paid : /\ orders[o].buyerId = Lot[l].winnerUserId
                           /\ o[2] = Lot[l].sellerId
                           /\ [productId |-> Null, auctionId |-> l, quantity |-> 1,
                               unitPrice |-> Lot[l].soldPrice] \in orders[o].items

\* An accepted offer is spent by at most one session, and what it buys is the
\* quantity and the price agreed, from the buyer who agreed it.
OffersSpentOnce ==
  \A n \in DOMAIN offers :
    LET spent == {k \in Sessions : checkouts[k].offer = n}
    IN  /\ Cardinality(spent) <= 1
        /\ \A k \in spent, o \in OrderIds :
             o[1] = k => /\ orders[o].buyerId = offers[n].buyerId
                         /\ orders[o].items =
                              {[productId |-> offers[n].productId, auctionId |-> Null,
                                quantity |-> offers[n].quantity,
                                unitPrice |-> offers[n].offerAmount]}

\* A price below the one asked is only ever accepted because this buyer had been
\* offered it and still was when the server decided: an earlier counter on the
\* same listing is no higher and had not left the window by then.
Countered(x, y) ==
  /\ y.buyerId = x.buyerId /\ y.productId = x.productId /\ y.decision = "COUNTERED"
  /\ y.counterAmount <= x.offerAmount /\ y.createdAt > x.decidedAt - ATTEMPT_WINDOW_MS
DiscountsWereOffered ==
  \A n \in DOMAIN offers :
    offers[n].decision = "ACCEPTED" /\ offers[n].offerAmount < offers[n].asked =>
      \E m \in 1 .. n - 1 : Countered(offers[n], offers[m])

\* A parcel walked one step of the table at a time, its events are the walk,
\* the buyer was told of every step, and an order is cancelled exactly when
\* its parcel was.
ParcelsWalkForward ==
  \A o \in OrderIds :
    LET walk == orders[o].events
    IN  /\ walk[1] = "PROCESSING"
        /\ walk[Len(walk)] = orders[o].shipment
        /\ \A i \in 1 .. Len(walk) - 1 : canTransition(walk[i], walk[i + 1])
        /\ \A i \in 2 .. Len(walk) :
             Note("SHIPMENT_UPDATE", orders[o].buyerId, o, walk[i]) \in notifications
        /\ (orders[o].status = "CANCELLED") <=> (orders[o].shipment = "CANCELLED")
        /\ orders[o].tracking <=> orders[o].shipment \in {"SHIPPED", "IN_TRANSIT", "DELIVERED"}

-----------------------------------------------------------------------------
(***************************************************************************)
(* Claims of the code's comments that the code does not keep               *)
(***************************************************************************)

\* A listing an admin took down stays down until an admin puts it back
\* (resolveStatus: "or a restock would quietly lift an admin takedown").
TakedownStands ==
  \A p \in Products :
    adminActions[p] # <<>> /\ Last(adminActions[p]) = "DEACTIVATE_PRODUCT" =>
      product[p].status = "SUSPENDED"

\* A sold-out listing never comes back as purchasable (updateStatus).
SoldOutStaysOff ==
  \A p \in Products : product[p].status = "ACTIVE" => product[p].stockQty > 0

\* A cart line is paid for once: one bought in another tab is refused (priceCart).
LinesPaidOnce ==
  \A i \in 1 .. lastLine :
    Cardinality({k \in Sessions : /\ i \in checkouts[k].ids
                                  /\ \E o \in OrderIds : o[1] = k}) <= 1
=============================================================================
