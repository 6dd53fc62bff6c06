------------------------------ MODULE Haggling ------------------------------
(***************************************************************************)
(* NegotiatorFacadeService: a buyer offers a price for a listing, the      *)
(* server accepts, counters or rejects it, and an accepted offer can be    *)
(* redeemed once, for a while.  A spent offer is one whose expiresAt was   *)
(* moved to 0.                                                             *)
(*                                                                         *)
(*   idle -> offers -> insert -> done                                      *)
(***************************************************************************)
EXTENDS ShopStore

CONSTANTS
  OfferCalls,              \* executions of POST /products/:id/offers
  Bids,                    \* the amounts and quantities buyers offer
  COOLDOWN_MS,             \* between two offers of a buyer on a listing
  ATTEMPT_WINDOW_MS,       \* the window the attempts are counted in
  MAX_ATTEMPTS_PER_WINDOW,
  ACCEPT_TTL,              \* how long an accepted price stands
  MaxTime                  \* bound on the clock

ASSUME HagglingAssumption ==
  /\ \A n \in {COOLDOWN_MS, ATTEMPT_WINDOW_MS, MAX_ATTEMPTS_PER_WINDOW, ACCEPT_TTL,
               MaxTime} : n \in Nat
  /\ \A o \in Bids : o.amount \in Nat /\ o.quantity \in Nat \ {0}

VARIABLES
  now,          \* wall clock
  offers,       \* offers, in insertion order
  offerCalls    \* progress of each call

hagglingVars == <<now, offers, offerCalls>>

Offer == [buyerId : Users, productId : Products, quantity : Nat, offerAmount : Nat,
          decision : {"ACCEPTED", "REJECTED", "COUNTERED"},
          counterAmount : Nat \cup {Null}, createdAt : Nat, expiresAt : Nat,
          asked : Nat, decidedAt : Nat]

IdleOfferCall == [pc |-> "idle", buyerId |-> Null, productId |-> Null, bid |-> Null,
                  row |-> Null, offer |-> Null]

HagglingInit ==
  /\ now = 1
  /\ offers = <<>>
  /\ offerCalls = [k \in OfferCalls |-> IdleOfferCall]

-----------------------------------------------------------------------------
(***************************************************************************)
(* The decision                                                            *)
(***************************************************************************)

\* readRecentOffers: this buyer's offers on this listing inside the window.
recentOffers(b, p) ==
  {n \in DOMAIN offers : /\ offers[n].buyerId = b /\ offers[n].productId = p
                         /\ offers[n].createdAt > now - ATTEMPT_WINDOW_MS}

\* Mutant: a counter stands however long ago it was made.
findOutstandingCounter_Old(b, p) ==
  LET countered == {n \in DOMAIN offers : /\ offers[n].buyerId = b /\ offers[n].productId = p
                                          /\ offers[n].decision = "COUNTERED"}
  IN  IF countered = {} THEN Null ELSE offers[Max(countered)].counterAmount

\* The newest counter made to this buyer in the window; a refusal since then
\* does not withdraw it.
findOutstandingCounter(b, p) ==
  LET countered == {n \in recentOffers(b, p) : offers[n].decision = "COUNTERED"}
  IN  IF countered = {} THEN Null ELSE offers[Max(countered)].counterAmount

meetsCounter(amount, counter) == counter # Null /\ amount >= counter

\* assertWithinRateLimit: the cooldown and the attempts of the window.
withinRateLimit(b, p) ==
  LET recent == recentOffers(b, p)
  IN  recent # {} => /\ now - offers[Max(recent)].createdAt >= COOLDOWN_MS
                     /\ Cardinality(recent) < MAX_ATTEMPTS_PER_WINDOW

\* decide: the floor first, then the asking price, then a counter that was met.
decide(amount, quantity, row, counter) ==
  CASE quantity > row.stockQty \/ amount < row.negotiationFloor ->
         [decision |-> "REJECTED", counterAmount |-> Null]
    [] ~(quantity > row.stockQty \/ amount < row.negotiationFloor)
       /\ (amount >= row.price \/ meetsCounter(amount, counter)) ->
         [decision |-> "ACCEPTED", counterAmount |-> Null]
    [] OTHER -> [decision |-> "COUNTERED", counterAmount |-> Rounded(amount + row.price, 2)]

-----------------------------------------------------------------------------
(***************************************************************************)
(* Steps                                                                   *)
(***************************************************************************)
EndOfferCall(k) ==
  offerCalls' = [offerCalls EXCEPT ![k] = [IdleOfferCall EXCEPT !.pc = "done"]]

\* The listing is read: on sale, somebody else's, open to offers.
ReadListing(k) ==
  /\ offerCalls[k].pc = "idle"
  /\ \E b \in Buyers, p \in Products, bid \in Bids :
       IF /\ product[p].status = "ACTIVE"
          /\ SellerOf[p] # b
          /\ product[p].negotiationFloor # Null
       THEN offerCalls' = [offerCalls EXCEPT
              ![k] = [pc |-> "offers", buyerId |-> b, productId |-> p, bid |-> bid,
                      row |-> product[p], offer |-> Null]]
       ELSE UNCHANGED offerCalls
  /\ UNCHANGED <<now, offers, shopStoreVars>>

\* The recent offers are read, the limits checked and the offer decided; nothing
\* keeps another of the buyer's calls from reading the same before the insertion.
\* `asked` and `decidedAt` record what the decision rested on.
ReadOffers(k) ==
  LET b == offerCalls[k].buyerId
      p == offerCalls[k].productId
      bid == offerCalls[k].bid
      row == offerCalls[k].row
      counter == findOutstandingCounter(b, p)
      result == decide(bid.amount, bid.quantity, row, counter)
  IN  /\ offerCalls[k].pc = "offers"
      /\ IF meetsCounter(bid.amount, counter) \/ withinRateLimit(b, p)
         THEN offerCalls' = [offerCalls EXCEPT ![k] = [IdleOfferCall EXCEPT !.pc = "insert", !.offer =
                [buyerId |-> b, productId |-> p, quantity |-> bid.quantity,
                 offerAmount |-> bid.amount, decision |-> result.decision,
                 counterAmount |-> result.counterAmount, createdAt |-> 0,
                 expiresAt |-> IF result.decision = "ACCEPTED" THEN now + ACCEPT_TTL ELSE 0,
                 asked |-> row.price, decidedAt |-> now]]]
         ELSE EndOfferCall(k)
      /\ UNCHANGED <<now, offers, shopStoreVars>>

InsertOffer(k) ==
  /\ offerCalls[k].pc = "insert"
  /\ offers' = Append(offers, [offerCalls[k].offer EXCEPT !.createdAt = now])
  /\ EndOfferCall(k)
  /\ UNCHANGED <<now, shopStoreVars>>

\* The guard of the consuming updateMany.
Redeemable(n) == offers[n].decision = "ACCEPTED" /\ offers[n].expiresAt > now

\* listPayableOffers: what GET /offers/pending shows a buyer.
listPayableOffers(b) ==
  {n \in DOMAIN offers : /\ offers[n].buyerId = b /\ Redeemable(n)
                         /\ product[offers[n].productId].status = "ACTIVE"}
inStock(n) == product[offers[n].productId].stockQty >= offers[n].quantity

TickOffers ==
  /\ now < MaxTime
  /\ now' = now + 1
  /\ UNCHANGED <<offers, offerCalls, shopStoreVars>>

OfferStep(k) == ReadListing(k) \/ ReadOffers(k) \/ InsertOffer(k)

HagglingTypeOK ==
  /\ now \in Nat
  /\ offers \in Seq(Offer)
  /\ \A k \in OfferCalls : offerCalls[k].pc \in {"idle", "offers", "insert", "done"}
=============================================================================
