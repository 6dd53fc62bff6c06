----------------------------- MODULE Settlement -----------------------------
(***************************************************************************)
(* AuctionService.settleAuction, and AuctionService.findPublicAuction,     *)
(* which settles a due auction on the way to answering a reader.  One      *)
(* execution runs                                                          *)
(*                                                                         *)
(*   idle -> read -> decide -> write -> announce -> done                   *)
(*                                                                         *)
(* The auction row, the highest bid and the write are three statements:    *)
(* what the first two saw may be stale when the third, guarded only on     *)
(* ACTIVE, is applied.                                                     *)
(***************************************************************************)
EXTENDS AuctionStore

CONSTANTS
  Readers,      \* findPublicAuction executions
  Timer         \* the lifecycle pass, which settles one auction at a time

ASSUME SettlementAssumption == Timer \notin Readers

VARIABLE settling   \* progress of each settlement

Settlers == Readers \cup {Timer}

Settler == [pc : {"idle", "read", "decide", "write", "announce", "done"},
            auctionId : Auctions \cup {Null}, row : Row, highestBid : Nat,
            endedAt : Nat, out : SUBSET Messages]

IdleSettler == [pc |-> "idle", auctionId |-> Null, row |-> NoRow,
                highestBid |-> 0, endedAt |-> 0, out |-> {}]

SettlementInit == settling = [s \in Settlers |-> IdleSettler]

-----------------------------------------------------------------------------
\* A reader's execution is over; the timer is free for its next auction.
FinishedSettler(s) ==
  IF s = Timer THEN IdleSettler ELSE [IdleSettler EXCEPT !.pc = "done"]

Finish(s) == settling' = [settling EXCEPT ![s] = FinishedSettler(s)]

\* settleAuction(a) is called.
Settle(s, a) ==
  settling' = [settling EXCEPT ![s].pc = "read", ![s].auctionId = a]

IsDue(row, t) ==
  /\ row.status = "ACTIVE"
  /\ row.currentEndAt # Null
  /\ row.currentEndAt <= t

\* The guard of the updateMany that settles.  Mutant: the row by its id alone.
SettleGuard_ById(row) == row.status # "NONE"

SettleGuard(row) == row.status = "ACTIVE"

\* Mutant: the reserve is not looked at.
Sells_AnyBid(a, n, reservePrice) == n # 0

\* Does the bid at position n (0: none) sell the auction?
Sells(a, n, reservePrice) ==
  n # 0 /\ calculateReserveMet(bids[a][n].amount, reservePrice)

RowAfterSettlement(a, s) ==
  LET n == settling[s].highestBid
      sold == Sells(a, n, settling[s].row.reservePrice)
  IN  [auction[a] EXCEPT
         !.status = IF sold THEN "SOLD" ELSE "UNSOLD",
         !.endedAt = settling[s].endedAt,
         !.winnerUserId = IF sold THEN bids[a][n].bidderId ELSE Null,
         !.winningBidId = IF sold THEN n ELSE 0,
         !.soldPrice = IF sold THEN bids[a][n].amount ELSE Null,
         !.rowVersion = @ + 1]

\* Mutant: the winner hears both.
SettlementNotifications_WinnerToo(a, row) ==
  (IF row.winnerUserId = Null THEN {}
   ELSE {Notification("AUCTION_WON", a, row.winnerUserId, row.winningBidId)})
  \cup {Notification("AUCTION_ENDED", a, u, 0) :
          u \in findAuctionAudience(a, {}) \cup {SellerOf[a]}}

\* AUCTION_WON for the winner, AUCTION_ENDED for the seller and everybody
\* else who bid or watched.
SettlementNotifications(a, row) ==
  LET winner == row.winnerUserId
      others == (findAuctionAudience(a, {winner}) \cup {SellerOf[a]}) \ {winner}
  IN  (IF winner = Null THEN {}
       ELSE {Notification("AUCTION_WON", a, winner, row.winningBidId)})
      \cup {Notification("AUCTION_ENDED", a, u, 0) : u \in others}

-----------------------------------------------------------------------------
(***************************************************************************)
(* Steps                                                                   *)
(***************************************************************************)

\* findPublicAuction reads the row and settles only what is due.
FindPublicAuction(r) ==
  /\ settling[r].pc = "idle"
  /\ \E a \in Auctions :
       /\ auction[a].status \in PUBLIC_AUCTION_STATUSES
       /\ \/ IsDue(auction[a], now) /\ Settle(r, a)
          \/ ~IsDue(auction[a], now) /\ Finish(r)
  /\ UNCHANGED storeVars

SettleRead(s) ==
  /\ settling[s].pc = "read"
  /\ LET row == auction[settling[s].auctionId]
     IN  \/ row.status # "ACTIVE" /\ Finish(s)
         \/ /\ row.status = "ACTIVE"
            /\ settling' = [settling EXCEPT ![s].pc = "decide", ![s].row = row]
  /\ UNCHANGED storeVars

\* Still running: nothing to settle.  Otherwise the highest bid is read and
\* the end is stamped.
SettleDecide(s) ==
  /\ settling[s].pc = "decide"
  /\ \/ ~IsDue(settling[s].row, now) /\ Finish(s)
     \/ /\ IsDue(settling[s].row, now)
        /\ settling' = [settling EXCEPT
             ![s].pc = "write",
             ![s].highestBid = LeadingBid(bids[settling[s].auctionId]),
             ![s].endedAt = now]
  /\ UNCHANGED storeVars

\* The guarded write, the ENDED event and the notifications commit together.
SettleWrite(s) ==
  LET a == settling[s].auctionId
      row == RowAfterSettlement(a, s)
      told == SettlementNotifications(a, row)
  IN  /\ settling[s].pc = "write"
      /\ SettleGuard(auction[a])
      /\ auction' = [auction EXCEPT ![a] = row]
      /\ events' = [events EXCEPT ![a] = Append(@, "ENDED")]
      /\ notifications' = notifications \cup told
      /\ settling' = [settling EXCEPT
           ![s].pc = "announce",
           ![s].out = told \cup
             {RoomMessage("auction:ended", a, row.winningBidId, row.endedAt)}]
      /\ UNCHANGED <<now, bids, extensions, announced>>

\* updateMany matched nothing: somebody else settled or cancelled it.
SettleLost(s) ==
  /\ settling[s].pc = "write"
  /\ ~SettleGuard(auction[settling[s].auctionId])
  /\ Finish(s)
  /\ UNCHANGED storeVars

SettleAnnounce(s) ==
  /\ settling[s].pc = "announce"
  /\ Emit(settling[s].out)
  /\ Finish(s)

SettlementStep(s) ==
  \/ SettleRead(s)
  \/ SettleDecide(s)
  \/ SettleWrite(s)
  \/ SettleLost(s)
  \/ SettleAnnounce(s)

\* The process dies, or the pass throws: whatever was not committed is gone.
SettlerLost(s) ==
  IF settling[s].pc = "idle" THEN settling[s] ELSE FinishedSettler(s)

SettlementTypeOK == settling \in [Settlers -> Settler]
=============================================================================
