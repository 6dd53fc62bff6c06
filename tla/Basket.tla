------------------------------- MODULE Basket -------------------------------
(***************************************************************************)
(* CartService: a buyer fills a cart.  Nothing is reserved; the stock read *)
(* caps a quantity when it is written and may be gone when it is paid for. *)
(*                                                                         *)
(*   idle -> write -> done                                                 *)
(*                                                                         *)
(* A call that is refused on its first read changes nothing, and leaves    *)
(* its slot for another call; so in the other modules of the shop.         *)
(***************************************************************************)
EXTENDS ShopStore

CONSTANTS
  CartCalls,    \* executions of a cart endpoint
  CartOps,      \* the operations each execution may turn out to be
  Quantities    \* quantities a body may name

ASSUME BasketAssumption ==
  /\ CartOps \in [CartCalls -> SUBSET {"addItem", "updateItem", "removeItem", "clear"}]
  /\ Quantities \subseteq Nat \ {0}

VARIABLE cartCalls  \* progress of each call

\* `line` is the id of the line read (0 when there is none), `quantity` what
\* the call is about to write.
IdleCartCall == [pc |-> "idle", op |-> Null, userId |-> Null, productId |-> Null,
                 line |-> 0, quantity |-> 0]

BasketInit == cartCalls = [k \in CartCalls |-> IdleCartCall]

basketElsewhere == <<product, adminActions, payments, orders, notifications,
                     announced, provided>>

-----------------------------------------------------------------------------
\* findPurchasableProduct: only somebody else's listing that is on sale.
Purchasable(p, b) == product[p].status = "ACTIVE" /\ SellerOf[p] # b

\* detectIssue: what GET /cart shows against a line of the cart.
detectIssue(b, p) ==
  CASE product[p].status # "ACTIVE" -> "PRODUCT_UNAVAILABLE"
    [] product[p].status = "ACTIVE" /\ cart[b][p].quantity > product[p].stockQty ->
         "INSUFFICIENT_STOCK"
    [] OTHER -> Null

\* buildCartView: each line with its price as it stands now, and the total.
CartView(b) ==
  [items |-> {[productId |-> p, quantity |-> cart[b][p].quantity,
               subtotal |-> calculateLineTotal(product[p], cart[b][p].quantity),
               issue |-> detectIssue(b, p)] : p \in Lines(b)},
   sellerCount |-> Cardinality({SellerOf[p] : p \in Lines(b)}),
   total |-> SumFunction([p \in Lines(b) |->
                            calculateLineTotal(product[p], cart[b][p].quantity)])]

EndCartCall(k) ==
  cartCalls' = [cartCalls EXCEPT ![k] = [IdleCartCall EXCEPT !.pc = "done"]]

-----------------------------------------------------------------------------
(***************************************************************************)
(* Steps                                                                   *)
(***************************************************************************)

\* The reads of addItem: the listing, then the line already in the cart,
\* whose quantity the new one is added to.
ReadForAdd(k, b, p, quantity) ==
  LET next == cart[b][p].quantity + quantity
  IN  IF Purchasable(p, b) /\ next <= product[p].stockQty
      THEN cartCalls' = [cartCalls EXCEPT
             ![k] = [pc |-> "write", op |-> "addItem", userId |-> b, productId |-> p,
                     line |-> cart[b][p].id, quantity |-> next]]
      ELSE UNCHANGED cartCalls

\* The read of updateItem and removeItem: a line of the caller's own cart.
ReadLine(k, op, b, p, quantity) ==
  IF /\ cart[b][p].id # 0
     /\ op = "updateItem" => quantity <= product[p].stockQty
  THEN cartCalls' = [cartCalls EXCEPT
         ![k] = [pc |-> "write", op |-> op, userId |-> b, productId |-> p,
                 line |-> cart[b][p].id, quantity |-> quantity]]
  ELSE UNCHANGED cartCalls

ReadCart(k) ==
  /\ cartCalls[k].pc = "idle"
  /\ \E b \in Buyers, p \in Products :
       \/ \E q \in Quantities :
            \/ "addItem" \in CartOps[k] /\ ReadForAdd(k, b, p, q)
            \/ "updateItem" \in CartOps[k] /\ ReadLine(k, "updateItem", b, p, q)
       \/ "removeItem" \in CartOps[k] /\ ReadLine(k, "removeItem", b, p, 0)
  /\ UNCHANGED shopStoreVars

\* The upsert of addItem: the row of this cart and product, or a new one.
addItem(k) ==
  LET b == cartCalls[k].userId
      p == cartCalls[k].productId
      fresh == cart[b][p].id = 0
  IN  /\ cartCalls[k].op = "addItem"
      /\ fresh => lastLine < MaxLines
      /\ lastLine' = IF fresh THEN lastLine + 1 ELSE lastLine
      /\ cart' = [cart EXCEPT ![b][p] =
           [id |-> IF fresh THEN lastLine + 1 ELSE @.id, quantity |-> cartCalls[k].quantity]]

\* update and delete name the row by id; a row gone by then fails the request.
WriteLine(k) ==
  LET b == cartCalls[k].userId
      p == cartCalls[k].productId
  IN  /\ cartCalls[k].op \in {"updateItem", "removeItem"}
      /\ cart' = IF cart[b][p].id # cartCalls[k].line
                 THEN cart
                 ELSE [cart EXCEPT ![b][p] =
                        IF cartCalls[k].op = "removeItem"
                        THEN NoLine ELSE [@ EXCEPT !.quantity = cartCalls[k].quantity]]
      /\ UNCHANGED lastLine

WriteCart(k) ==
  /\ cartCalls[k].pc = "write"
  /\ addItem(k) \/ WriteLine(k)
  /\ EndCartCall(k)
  /\ UNCHANGED basketElsewhere

\* clear deletes every line of the caller's cart in one statement.
ClearCart(k) ==
  /\ "clear" \in CartOps[k]
  /\ cartCalls[k].pc = "idle"
  /\ \E b \in Buyers : cart' = [cart EXCEPT ![b] = [p \in Products |-> NoLine]]
  /\ EndCartCall(k)
  /\ UNCHANGED <<lastLine, basketElsewhere>>

CartStep(k) == ReadCart(k) \/ WriteCart(k) \/ ClearCart(k)

BasketTypeOK ==
  \A k \in CartCalls :
    /\ cartCalls[k].pc \in {"idle", "write", "done"}
    /\ cartCalls[k].line \in 0 .. MaxLines
    /\ cartCalls[k].quantity \in Nat
=============================================================================
