----------------------------- MODULE ShopStore -----------------------------
(***************************************************************************)
(* The rows the shop keeps: listings and their stock, carts, offers,       *)
(* payments, orders with their parcels, and what people are told.          *)
(*                                                                         *)
(* As in AuctionStore, transactions run at READ COMMITTED: a read is a     *)
(* step of its own and may be stale when it is used; a guarded update and  *)
(* what its transaction does after it are one step.                        *)
(*                                                                         *)
(* Money is in satang, percentages in hundredths of a percent, so that the *)
(* two decimals the columns keep are whole numbers here.                   *)
(***************************************************************************)
EXTENDS Integers, Sequences, FiniteSets, FiniteSetsExt, SequencesExt

CONSTANTS
  Null,
  Products,     \* ids of the listings
  Users,        \* buyers and sellers
  Buyers,       \* the users who shop
  SellerOf,     \* products.seller_id
  Shelf,        \* the listings as a run starts
  Carts,        \* the cart lines as a run starts
  Lots,         \* auctions that have ended; their rows are final
  Lot,          \* the row of each lot
  Sessions,     \* checkoutSessionId: one per POST /orders/checkout
  MaxLines      \* bound on the cart_items rows ever inserted

ProductStatus == {"NONE", "ACTIVE", "OUT_OF_STOCK", "INACTIVE", "REMOVED", "SUSPENDED"}

\* One hundred percent, and the percentages a discount may take off.
Whole == 10000
Percentage == 0 .. Whole

\* quantityDiscountMinQty and quantityDiscountPercent are set together or not at all.
Product == [status : ProductStatus, stockQty : Nat, price : Nat,
            negotiationFloor : Nat \cup {Null},
            minQty : Nat \cup {Null}, percent : Percentage \cup {Null}]

LotRow == [sellerId : Users, status : {"SOLD", "UNSOLD", "CANCELLED"},
           winnerUserId : Users \cup {Null}, soldPrice : Nat \cup {Null}]

\* A line's id is 0 when the product is not in the cart.
CartLine == [id : Nat, quantity : Nat]
NoLine == [id |-> 0, quantity |-> 0]

ASSUME ShopAssumption ==
  /\ IsFiniteSet(Users) /\ IsFiniteSet(Products) /\ IsFiniteSet(Sessions)
  /\ Null \notin Users \cup Products \cup Lots
  /\ Buyers \subseteq Users
  /\ SellerOf \in [Products -> Users]
  /\ Shelf \in [Products -> Product]
  /\ \A p \in Products : Shelf[p].status = "NONE" => Shelf[p].stockQty = 0
  /\ Carts \in [Buyers -> [Products -> CartLine]]
  /\ \A b \in Buyers, p \in Products :
       Carts[b][p].id # 0 => SellerOf[p] # b /\ Carts[b][p].id <= MaxLines
  /\ Lot \in [Lots -> LotRow]
  /\ MaxLines \in Nat

VARIABLES
  product,        \* products
  adminActions,   \* admin_actions of each product, in insertion order
  cart,           \* cart_items of each buyer, one line per product
  lastLine,       \* the last cart_items id handed out
  payments,       \* payment_transactions, and the amount the provider took
  orders,         \* orders: at most one per session and seller
  notifications,  \* notifications rows
  announced,      \* socket messages and auto-replies sent after a commit
  provided        \* history: units sellers have put on each shelf, net

shopStoreVars == <<product, adminActions, cart, lastLine, payments, orders,
                   notifications, announced, provided>>

-----------------------------------------------------------------------------
(***************************************************************************)
(* Carts and prices                                                        *)
(***************************************************************************)

Lines(b) == {p \in Products : cart[b][p].id # 0}

\* Decimal.toDecimalPlaces(2) rounds half up.
Rounded(n, d) == (2 * n + d) \div (2 * d)

\* calculateLineTotal: the discounted price is rounded before it is multiplied.
effectiveUnitPrice(row, quantity) ==
  IF row.minQty # Null /\ row.percent # Null /\ quantity >= row.minQty
  THEN Rounded(row.price * (Whole - row.percent), Whole)
  ELSE row.price

\* Mutant: the line is rounded once, after the multiplication.
calculateLineTotal_RoundedOnce(row, quantity) ==
  IF row.minQty # Null /\ row.percent # Null /\ quantity >= row.minQty
  THEN Rounded(row.price * quantity * (Whole - row.percent), Whole)
  ELSE row.price * quantity

calculateLineTotal(row, quantity) == effectiveUnitPrice(row, quantity) * quantity

-----------------------------------------------------------------------------
(***************************************************************************)
(* Orders                                                                  *)
(***************************************************************************)
ShipmentStatus == {"PROCESSING", "SHIPPED", "IN_TRANSIT", "DELIVERED", "CANCELLED"}

\* Exactly one of productId and auctionId is set.  lineId is the cart line to
\* clear (0 for a lot or an offer).
PricedLine == [lineId : Nat, productId : Products \cup {Null},
               auctionId : Lots \cup {Null}, sellerId : Users,
               quantity : Nat, unitPrice : Nat, subtotal : Nat]

Item == [productId : Products \cup {Null}, auctionId : Lots \cup {Null},
         quantity : Nat, unitPrice : Nat]

Order == [buyerId : Users, subtotal : Nat, items : SUBSET Item,
          status : {"PAID", "CANCELLED"}, shipment : ShipmentStatus,
          tracking : BOOLEAN, events : Seq(ShipmentStatus)]

OrderIds == {o \in Sessions \X Users : orders[o] # Null}

\* What an order list shows for a line, and the total of a set of lines.
lineTotal(item) == item.unitPrice * item.quantity
Total(lines) == SumFunction([l \in lines |-> l.subtotal])

\* The units of a product among an order's items, and those orders still hold.
UnitsIn(items, p) == SumFunction([i \in {j \in items : j.productId = p} |-> i.quantity])
Held(p) == SumFunction([o \in {q \in OrderIds : orders[q].status # "CANCELLED"} |->
                         UnitsIn(orders[o].items, p)])

Charge == [status : {"SUCCEEDED", "FAILED"}, amount : Nat]

ASSUME RowsAssumption == Null \notin Order /\ Null \notin Charge

Message == [event : {"ORDER_PLACED", "SHIPMENT_UPDATE", "DELIVERED",
                     "order:status", "autoReply"},
            userId : Users, order : Sessions \X Users,
            status : ShipmentStatus \cup {Null}]

Note(event, user, o, status) ==
  [event |-> event, userId |-> user, order |-> o, status |-> status]

-----------------------------------------------------------------------------
ShopStoreInit ==
  /\ product = Shelf
  /\ adminActions = [p \in Products |-> <<>>]
  /\ cart = Carts
  /\ lastLine = Max({0} \cup {Carts[b][p].id : b \in Buyers, p \in Products})
  /\ payments = [k \in Sessions |-> Null]
  /\ orders = [o \in Sessions \X Users |-> Null]
  /\ notifications = {}
  /\ announced = {}
  /\ provided = [p \in Products |-> Shelf[p].stockQty]

ShopStoreTypeOK ==
  /\ product \in [Products -> Product]
  /\ \A p \in Products :
       adminActions[p] \in Seq({"DEACTIVATE_PRODUCT", "REACTIVATE_PRODUCT"})
  /\ cart \in [Buyers -> [Products -> CartLine]]
  /\ lastLine \in 0 .. MaxLines
  /\ payments \in [Sessions -> Charge \cup {Null}]
  /\ DOMAIN orders = Sessions \X Users
  /\ \A o \in OrderIds :
       /\ orders[o].items \subseteq Item
       /\ [orders[o] EXCEPT !.items = {}] \in Order
  /\ notifications \subseteq Message
  /\ announced \subseteq Message
  /\ provided \in [Products -> Int]
=============================================================================
