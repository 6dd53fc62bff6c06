------------------------------- MODULE MCShop -------------------------------
(***************************************************************************)
(* Small instances of the shop for TLC.                                    *)
(***************************************************************************)
EXTENDS Shop

CONSTANTS p1, p2, p3, s1, s2, b1, b2, l1,
          k1, k2, q1, q2, h1, h2, h3, c1, c2, o1, o2, d1, d2

\* s1 sells p1 and, from an empty slot, p3; s2 sells p2.
TwoSellers == [p \in Products |-> IF p = p2 THEN s2 ELSE s1]

Row(status, stockQty, price, floor, minQty, percent) ==
  [status |-> status, stockQty |-> stockQty, price |-> price, negotiationFloor |-> floor,
   minQty |-> minQty, percent |-> percent]

\* p1 has a discount from two units that rounds (7 * 80% = 5.6), p2 is
\* negotiable, p3 is not listed yet.
SmallShelf == [p \in Products |->
  IF p = p1 THEN Row("ACTIVE", 2, 7, Null, 2, 2000)
  ELSE IF p = p2 THEN Row("ACTIVE", 1, 5, 3, Null, Null)
  ELSE Row("NONE", 0, 0, Null, Null, Null)]

Line(id, quantity) == [id |-> id, quantity |-> quantity]

\* b1 has two of p1 and one of p2, b2 one of p1.
FullCarts == [b \in Buyers |-> [p \in Products |->
  CASE b = b1 /\ p = p1 -> Line(1, 2)
    [] b = b1 /\ p = p2 -> Line(2, 1)
    [] b = b2 /\ p = p1 -> Line(3, 1)
    [] OTHER -> NoLine]]
EmptyCarts == [b \in Buyers |-> [p \in Products |-> NoLine]]

\* b1 won the one lot.
WonLot == [l \in Lots |-> [sellerId |-> s2, status |-> "SOLD", winnerUserId |-> b1,
                           soldPrice |-> 9]]

Body(stockQty, price) ==
  [stockQty |-> stockQty, price |-> price, negotiationFloor |-> Null, minQty |-> Null,
   percent |-> Null, categoryId |-> Null, categoryActive |-> FALSE]

\* A restock; an edit of stock and price; half a discount rule and a category
\* that is closed, which are refused.
Restock == Body(1, Null)
AllEdits == {Restock, Body(0, 6), [Body(Null, Null) EXCEPT !.minQty = 2],
             [Body(Null, Null) EXCEPT !.categoryId = "c"]}
OneForm == {[Body(1, 6) EXCEPT !.categoryActive = TRUE]}

\* Below the floor, countered (at four), and meeting that counter.
ThreeBids == {[amount |-> n, quantity |-> 1] : n \in 2 .. 4}

\* k1 and k2 pay for carts and lots, q1 and q2 redeem offers; h1 is the
\* seller's restock, h2 anything of the seller's, h3 anything of the admin's.
WantsOf == [k \in Sessions |-> IF k \in {k1, k2} THEN {"cart", "lot"} ELSE {"offer"}]
ShelfOpsOf == [k \in ShelfCalls |->
  IF k = h1 THEN {"updateStock"}
  ELSE IF k = h2 THEN {"create", "update", "activate", "pause", "updateStock", "remove"}
  ELSE {"deactivate", "reactivate"}]
CartOpsOf == [k \in CartCalls |-> {"addItem", "updateItem", "removeItem", "clear"}]

\* Payments against parcels and a restock; offers; the catalogue against a
\* payment and a cart; carts against each other and a payment.
PayCast == {k1, k2, h1, d1, d2}
OfferCast == {o1, o2, q1, q2, h1}
ShelfCast == {h2, h3, k1, d1}
CartCast == {c1, c2, h1, k1}
ShopCastList == {PayCast, OfferCast, ShelfCast, CartCast}
=============================================================================
