------------------------------ MODULE MCArena -------------------------------
(* Scenes for Arena: a reader who is not signed in, two tabs of one person, *)
(* and a bidder's form.                                                     *)
EXTENDS Arena

CONSTANTS u1, t1, t2, t3

TabSet == {t1, t2, t3}
ReaderSet == {t3}
Owners == t1 :> u1 @@ t2 :> u1 @@ t3 :> Null

Lot(status, start, end) ==
  [status |-> status, scheduledStartAt |-> start, currentEndAt |-> end, extensionCount |-> 0,
   bidCount |-> 0, startingPrice |-> 1, currentPrice |-> 1, minBidIncrement |-> 1,
   reservePrice |-> 1, soldPrice |-> Null, winningBidId |-> 0, edition |-> 0]
Edit(price, start, end) ==
  [startingPrice |-> price, minBidIncrement |-> 1, reservePrice |-> Null,
   scheduledStartAt |-> start, currentEndAt |-> end]

\* Tabs not `online` have no socket; a scene with `lost` = MaxLosses has no failures.
Scene(tabs, outside, lot) ==
  [tabs |-> tabs, online |-> tabs, forms |-> {}, pages |-> {"toArena"}, outside |-> outside,
   row |-> lot, until |-> MaxClock, bids |-> 2, reads |-> 2, lost |-> MaxLosses,
   edits |-> 0, bodies |-> {}]
Still(tabs) == [Scene(tabs, {}, Lot("ACTIVE", 0, 9)) EXCEPT !.until = 0]

\* A watcher, through a bid, an extension and the end; through a sale; through a
\* start or a cancellation, with its seller editing; and with a failure near the end.
WatchScene == [Scene({t3}, {"bids"}, Lot("ACTIVE", 0, 1)) EXCEPT !.bids = 1]
SaleScene == [Scene({t3}, {"bids"}, Lot("ACTIVE", 0, 1)) EXCEPT !.reads = 1]
StartScene == [Scene({t3}, {"cancel"}, Lot("SCHEDULED", 1, 2)) EXCEPT !.edits = 1,
                 !.bodies = {Edit(2, 0, 1), Edit(1, 2, 3)}]
LossScene == [Scene({t3}, {}, Lot("ACTIVE", 0, 1)) EXCEPT !.lost = 0,
                !.pages = {"toArena", "toResult"}]
\* One person on two tabs of an auction that is far from its end; on one, with
\* failures; and a stranger who sees them come and go.
SeatScene == [Still({t1, t2}) EXCEPT !.reads = 1]
DropScene == [Still({t1}) EXCEPT !.lost = 0]
CountScene == Still({t1, t3})
\* A form, with somebody else bidding, and answers lost.
FormScene == [Scene({t1}, {"bids"}, Lot("ACTIVE", 0, 2)) EXCEPT !.online = {}, !.forms = {t1},
                !.until = 1, !.reads = 1, !.lost = 0]
EndScene == [Scene({t1}, {}, Lot("ACTIVE", 0, 1)) EXCEPT !.online = {}, !.lost = 0]
AllScenes == {WatchScene, SaleScene, StartScene, LossScene, SeatScene, DropScene, CountScene, FormScene, EndScene}
=============================================================================
