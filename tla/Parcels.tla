------------------------------ MODULE Parcels ------------------------------
(***************************************************************************)
(* ShipmentService.updateStatus: the seller of an order walks its parcel   *)
(* forward, or cancels it before it ships, which puts the goods back.      *)
(*                                                                         *)
(*   idle -> write -> announce -> done                                     *)
(***************************************************************************)
EXTENDS ShopStore

CONSTANT ParcelCalls   \* executions of PATCH /orders/:id/shipment

VARIABLE parcelCalls   \* progress of each call

\* `seen` is the status the transition was checked against.
IdleParcelCall == [pc |-> "idle", order |-> Null, next |-> Null, seen |-> Null]

ParcelsInit == parcelCalls = [k \in ParcelCalls |-> IdleParcelCall]

SHIPMENT_TRANSITIONS ==
  [PROCESSING |-> {"SHIPPED", "CANCELLED"}, SHIPPED |-> {"IN_TRANSIT"},
   IN_TRANSIT |-> {"DELIVERED"}, DELIVERED |-> {}, CANCELLED |-> {}]

canTransition(from, to) == to \in SHIPMENT_TRANSITIONS[from]

EndParcelCall(k) ==
  parcelCalls' = [parcelCalls EXCEPT ![k] = [IdleParcelCall EXCEPT !.pc = "done"]]

\* loadOrderParties and the checks: only the order's seller moves the parcel,
\* one step of the table at a time.
LoadParcel(k) ==
  /\ parcelCalls[k].pc = "idle"
  /\ \E o \in OrderIds, user \in Users, next \in ShipmentStatus :
       IF user = o[2] /\ canTransition(orders[o].shipment, next)
       THEN parcelCalls' = [parcelCalls EXCEPT
              ![k] = [pc |-> "write", order |-> o, next |-> next, seen |-> orders[o].shipment]]
       ELSE UNCHANGED parcelCalls
  /\ UNCHANGED shopStoreVars

\* Mutant: the update names the shipment only.
ParcelGuard_IdOnly(k) == TRUE

\* The guard of the updateMany: the status the transition was checked against.
ParcelGuard(k) == orders[parcelCalls[k].order].shipment = parcelCalls[k].seen

\* The shipment, its event, the tracking number shipping issues, and the order
\* a cancelled parcel cancels.
Moved(row, next) ==
  [row EXCEPT !.shipment = next, !.events = Append(@, next),
              !.tracking = @ \/ next = "SHIPPED",
              !.status = IF next = "CANCELLED" THEN "CANCELLED" ELSE @]

\* cancelOrder: only a sold-out listing comes back.
Restocked(row, quantity) ==
  [row EXCEPT !.stockQty = @ + quantity,
              !.status = IF @ = "OUT_OF_STOCK" /\ row.stockQty + quantity > 0
                         THEN "ACTIVE" ELSE @]

buildNotifications(o, next) ==
  {Note("SHIPMENT_UPDATE", orders[o].buyerId, o, next)}
  \cup IF next = "DELIVERED" THEN {Note("DELIVERED", orders[o].buyerId, o, next)} ELSE {}

\* The transaction: status, event, the cancelled order's goods, notifications.
MoveParcel(k) ==
  LET o == parcelCalls[k].order
      next == parcelCalls[k].next
      goods == {i \in orders[o].items : i.productId # Null}
  IN  /\ parcelCalls[k].pc = "write"
      /\ ParcelGuard(k)
      /\ orders' = [orders EXCEPT ![o] = Moved(@, next)]
      /\ product' = IF next # "CANCELLED" THEN product ELSE
           [p \in Products |->
              IF \E i \in goods : i.productId = p
              THEN Restocked(product[p], (CHOOSE i \in goods : i.productId = p).quantity)
              ELSE product[p]]
      /\ notifications' = notifications \cup buildNotifications(o, next)
      /\ parcelCalls' = [parcelCalls EXCEPT ![k].pc = "announce"]
      /\ UNCHANGED <<adminActions, cart, lastLine, payments, announced, provided>>

\* The status changed in the meantime: a conflict, and nothing is written.
LoseParcel(k) ==
  /\ parcelCalls[k].pc = "write"
  /\ ~ParcelGuard(k)
  /\ EndParcelCall(k)
  /\ UNCHANGED shopStoreVars

\* After the commit both sides are told.
AnnounceParcel(k) ==
  LET o == parcelCalls[k].order
  IN  /\ parcelCalls[k].pc = "announce"
      /\ announced' = announced \cup
           {Note("order:status", user, o, parcelCalls[k].next) :
              user \in {orders[o].buyerId, o[2]}}
      /\ EndParcelCall(k)
      /\ UNCHANGED <<product, adminActions, cart, lastLine, payments, orders,
                     notifications, provided>>

ParcelStep(k) == LoadParcel(k) \/ MoveParcel(k) \/ LoseParcel(k) \/ AnnounceParcel(k)

ParcelsTypeOK ==
  \A k \in ParcelCalls :
    /\ parcelCalls[k].pc \in {"idle", "write", "announce", "done"}
    /\ parcelCalls[k].seen \in ShipmentStatus \cup {Null}
=============================================================================
