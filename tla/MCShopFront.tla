---------------------------- MODULE MCShopFront ----------------------------
(***************************************************************************)
(* Small instances of the buyer's screens for TLC: two tabs of one buyer.  *)
(***************************************************************************)
EXTENDS ShopFront, MCShop

CONSTANTS t1, t2

SameBuyer == [t \in Tabs |-> b1]

\* An offer that is accepted at once.
OneBid == {[amount |-> 5, quantity |-> 1]}

\* Two tabs pay while a third changes the cart; two tabs and a restock; one
\* offer agreed and paid for from two tabs.
FrontCasts == {{k1, k2, c1}, {k1, k2, h1}, {o1, q1, q2}}
=============================================================================
