----------------------------- MODULE Catalogue -----------------------------
(***************************************************************************)
(* ProductService and AdminProductsService: a seller lists, edits, pauses, *)
(* restocks and removes a listing; an admin takes it down and puts it back.*)
(*                                                                         *)
(* Every operation reads the row, decides, and writes by primary key with  *)
(* nothing that re-checks what was read.                                   *)
(*                                                                         *)
(*   idle -> read -> (count ->) write -> done                              *)
(***************************************************************************)
EXTENDS ShopStore

CONSTANTS
  ShelfCalls,   \* executions of a catalogue endpoint
  Forms,        \* create forms: a row's fields and whether the category is active
  Edits,        \* PATCH bodies; a field that is Null was not sent
  ShelfOps      \* the operations each execution may turn out to be

ShelfOp == {"create", "update", "activate", "pause", "updateStock", "remove",
            "deactivate", "reactivate"}

ASSUME CatalogueAssumption ==
  /\ ShelfOps \in [ShelfCalls -> SUBSET ShelfOp]
  /\ \A f \in Forms : f.categoryActive \in BOOLEAN /\ f.stockQty \in Nat /\ f.price \in Nat
  /\ \A e \in Edits : e.stockQty \in Nat \cup {Null} /\ e.price \in Nat \cup {Null}
  /\ \A r \in Forms \cup Edits : /\ r.negotiationFloor \in Nat \cup {Null}
                               /\ r.minQty \in Nat \cup {Null}
                               /\ r.percent \in Percentage \cup {Null}

VARIABLE shelf  \* progress of each call

\* `edit` is the body sent, `existing` the row findOwnedProduct or
\* findModerable read, `referenced` the count remove takes of its orders.
IdleShelfCall == [pc |-> "idle", op |-> Null, productId |-> Null, edit |-> Null,
                  existing |-> Null, referenced |-> FALSE]

CatalogueInit == shelf = [k \in ShelfCalls |-> IdleShelfCall]

catalogueElsewhere == <<cart, lastLine, payments, orders, notifications, announced>>

-----------------------------------------------------------------------------
(***************************************************************************)
(* What the operations decide                                              *)
(***************************************************************************)
StatusFor(stockQty) == IF stockQty > 0 THEN "ACTIVE" ELSE "OUT_OF_STOCK"

\* Stock drives the flip between ACTIVE and OUT_OF_STOCK and nothing else; in
\* any other state the status is left out of the write.
resolveStatus(status, stockQty) ==
  IF status \in {"ACTIVE", "OUT_OF_STOCK"} THEN StatusFor(stockQty) ELSE Null

\* The discount rule is complete in what the edit leaves.
assertDiscountRuleIsComplete(minQty, percent) == (minQty = Null) <=> (percent = Null)

Sent(new, old) == IF new = Null THEN old ELSE new

\* The refusals that follow the read: a suspended listing is the admin's, a
\* removed one nobody's; an admin needs something to take down or put back.
ShelfRefused(op, row) ==
  CASE op = "create" -> row.status # "NONE"
    [] op = "deactivate" -> row.status \in {"NONE", "REMOVED", "SUSPENDED"}
    [] op = "reactivate" -> row.status # "SUSPENDED"
    [] op = "remove" -> row.status \in {"NONE", "SUSPENDED"}
    [] OTHER -> row.status \in {"NONE", "SUSPENDED", "REMOVED"}

EditRefused(edit, row) ==
  \/ edit.categoryId # Null /\ ~edit.categoryActive
  \/ ~assertDiscountRuleIsComplete(Sent(edit.minQty, row.minQty),
                                   Sent(edit.percent, row.percent))

\* search and findOne: what the public and a listing's seller may open.
search == {p \in Products : product[p].status = "ACTIVE"}
findOne(p, user) ==
  /\ product[p].status \notin {"NONE", "REMOVED"}
  /\ user # SellerOf[p] => product[p].status \notin {"INACTIVE", "SUSPENDED"}
listOwnProducts(user) ==
  {p \in Products : SellerOf[p] = user /\ product[p].status \notin {"NONE", "REMOVED"}}

-----------------------------------------------------------------------------
(***************************************************************************)
(* Steps                                                                   *)
(***************************************************************************)
BodiesOf(op) ==
  CASE op = "update" -> Edits
    [] op = "updateStock" -> {e \in Edits : e.stockQty # Null}
    [] OTHER -> {Null}

EndShelfCall(k) == shelf' = [shelf EXCEPT ![k] = [IdleShelfCall EXCEPT !.pc = "done"]]

\* The row is read, the call is refused or goes on with what it saw.
ReadProduct(k) ==
  /\ shelf[k].pc = "idle"
  /\ \E p \in Products, op \in ShelfOps[k] \ {"create"} :
       \E edit \in BodiesOf(op) :
         IF \/ ShelfRefused(op, product[p])
            \/ op = "update" /\ EditRefused(edit, product[p])
         THEN UNCHANGED shelf
         ELSE shelf' = [shelf EXCEPT
                ![k] = [pc |-> IF op = "remove" THEN "count" ELSE "write", op |-> op,
                        productId |-> p, edit |-> edit, existing |-> product[p],
                        referenced |-> FALSE]]
  /\ UNCHANGED shopStoreVars

\* remove: the orders that keep the listing from being deleted.
CountOrders(k) ==
  /\ shelf[k].pc = "count"
  /\ shelf' = [shelf EXCEPT
       ![k].pc = "write",
       ![k].referenced = \E o \in OrderIds :
         /\ orders[o].status # "CANCELLED"
         /\ \E i \in orders[o].items : i.productId = shelf[k].productId]
  /\ UNCHANGED shopStoreVars

\* The one write of the call; `status` is Null where the write leaves it out.
WriteRow(k, status, stockQty, price, rest) ==
  LET p == shelf[k].productId
      old == product[p]
  IN  /\ product' = [product EXCEPT ![p] =
           [rest EXCEPT !.status = Sent(status, old.status),
                        !.stockQty = Sent(stockQty, old.stockQty),
                        !.price = Sent(price, old.price)]]
      /\ provided' = [provided EXCEPT ![p] = @ + Sent(stockQty, old.stockQty) - old.stockQty]

update(k) ==
  LET e == shelf[k].edit
      seen == shelf[k].existing
      old == product[shelf[k].productId]
  IN  /\ shelf[k].op = "update"
      /\ WriteRow(k, resolveStatus(seen.status, Sent(e.stockQty, seen.stockQty)),
                  e.stockQty, e.price,
                  [old EXCEPT !.negotiationFloor = Sent(e.negotiationFloor, @),
                              !.minQty = Sent(e.minQty, @), !.percent = Sent(e.percent, @)])
      /\ UNCHANGED adminActions

updateStatus(k) ==
  LET seen == shelf[k].existing
      old == product[shelf[k].productId]
  IN  /\ shelf[k].op \in {"activate", "pause"}
      /\ WriteRow(k, IF shelf[k].op = "pause" THEN "INACTIVE" ELSE StatusFor(seen.stockQty),
                  Null, Null, old)
      /\ UNCHANGED adminActions

updateStock(k) ==
  LET stockQty == shelf[k].edit.stockQty
      old == product[shelf[k].productId]
  IN  /\ shelf[k].op = "updateStock"
      /\ WriteRow(k, resolveStatus(shelf[k].existing.status, stockQty), stockQty, Null, old)
      /\ UNCHANGED adminActions

\* A listing that orders refer to is paused instead of removed.
remove(k) ==
  /\ shelf[k].op = "remove"
  /\ WriteRow(k, IF shelf[k].referenced THEN "INACTIVE" ELSE "REMOVED",
              Null, Null, product[shelf[k].productId])
  /\ UNCHANGED adminActions

\* The status and the admin_actions row are one transaction.
setProductActivation(k) ==
  LET p == shelf[k].productId
      down == shelf[k].op = "deactivate"
  IN  /\ shelf[k].op \in {"deactivate", "reactivate"}
      /\ WriteRow(k, IF down THEN "SUSPENDED" ELSE StatusFor(shelf[k].existing.stockQty),
                  Null, Null, product[p])
      /\ adminActions' = [adminActions EXCEPT ![p] =
           Append(@, IF down THEN "DEACTIVATE_PRODUCT" ELSE "REACTIVATE_PRODUCT")]

WriteProduct(k) ==
  /\ shelf[k].pc = "write"
  /\ \/ update(k)
     \/ updateStatus(k)
     \/ updateStock(k)
     \/ remove(k)
     \/ setProductActivation(k)
  /\ EndShelfCall(k)
  /\ UNCHANGED catalogueElsewhere

\* create: the category is read, then the row is inserted.
CreateProduct(k) ==
  /\ "create" \in ShelfOps[k]
  /\ shelf[k].pc = "idle"
  /\ \E p \in Products, f \in Forms :
       /\ product[p].status = "NONE"
       /\ f.categoryActive
       /\ assertDiscountRuleIsComplete(f.minQty, f.percent)
       /\ product' = [product EXCEPT ![p] =
            [status |-> StatusFor(f.stockQty), stockQty |-> f.stockQty, price |-> f.price,
             negotiationFloor |-> f.negotiationFloor, minQty |-> f.minQty,
             percent |-> f.percent]]
       /\ provided' = [provided EXCEPT ![p] = @ + f.stockQty]
  /\ EndShelfCall(k)
  /\ UNCHANGED <<adminActions, catalogueElsewhere>>

ShelfStep(k) == ReadProduct(k) \/ CountOrders(k) \/ WriteProduct(k) \/ CreateProduct(k)

CatalogueTypeOK ==
  \A k \in ShelfCalls :
    /\ shelf[k].pc \in {"idle", "count", "write", "done"}
    /\ shelf[k].op \in ShelfOp \cup {Null}
    /\ shelf[k].existing \in Product \cup {Null}
    /\ shelf[k].referenced \in BOOLEAN
=============================================================================
