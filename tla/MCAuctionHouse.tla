--------------------------- MODULE MCAuctionHouse ---------------------------
(***************************************************************************)
(* Small instances of AuctionHouse for TLC.                                *)
(***************************************************************************)
EXTENDS AuctionHouse, TLC

CONSTANTS a1, a2, seller, u1, u2, r1, r2, r3

OneSeller == [a \in Auctions |-> seller]

NobodyWatches == [a \in Auctions |-> {}]

\* u1 mints two of the request ids, u2 one.
TwoMinters == (r1 :> u1) @@ (r2 :> u2) @@ (r3 :> u1)

Input(a, amount, r) == [auctionId |-> a, amount |-> amount, clientRequestId |-> r]

\* Two bidders racing, who may retry, outbid each other or raise their own.
RacingBids == {Input(a1, 1, r1), Input(a1, 2, r2), Input(a1, 3, r3)}

\* One id sent twice to one auction, with another amount, and to another auction.
ReusedBids == {Input(a1, 1, r1), Input(a1, 2, r1), Input(a2, 1, r1)}

\* One bid from each bidder.
TwoBids == {Input(a1, 1, r1), Input(a1, 2, r2)}

\* Both.
AllBids == RacingBids \cup ReusedBids

\* Bound: a behaviour is either the race, on one auction and without crashes,
\* or the reuse of an id, while the clock stands.
Publisher == CHOOSE k \in DeskCalls : TRUE
Asks(inputs) == \A c \in Calls : calls[c].req \in inputs \cup {Null}
OneStory ==
  \/ /\ faults = 0 /\ auction[a2].status = "NONE"
     /\ \A k \in DeskCalls : k = Publisher \/ desk[k].pc = "idle"
     /\ Asks(RacingBids)
  \/ now = 0 /\ Asks(ReusedBids)

U2Watches == [a \in Auctions |-> {u2}]

DeskSymmetry == Permutations(DeskCalls)

CallSymmetry == Permutations(Calls)

ADraft(start, end, reserve, images) ==
  [startingPrice |-> 1, minBidIncrement |-> 1, reservePrice |-> reserve,
   images |-> images, scheduledStartAt |-> start, scheduledEndAt |-> end]

\* One auction that can run at once, with a reserve above the opening bid.
RunsNow == {ADraft(0, 1, 2, 1)}

\* The same, and one that waits for its start.
RunsNowOrLater == RunsNow \cup {ADraft(1, 2, 2, 1)}

\* One that can run at once, one that waits for its start, and a bare one.
SellerDrafts == {ADraft(0, 2, Null, 1), ADraft(1, 2, 2, 1), ADraft(Null, Null, Null, 0)}

\* One auction that waits for its start, and a bare one.
PlannedOrBare == {ADraft(1, 2, 2, 1), ADraft(Null, Null, Null, 0)}

\* Edits of everything, of the gallery alone and of the schedule alone.
SellerForms == {Columns, {"images"}, {"scheduledStartAt", "scheduledEndAt"}}

\* Edits of everything.
WholeForm == {Columns}
=============================================================================
