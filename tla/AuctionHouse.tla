---------------------------- MODULE AuctionHouse ----------------------------
(***************************************************************************)
(* The auction side of the API as a whole: bidding calls, readers, the     *)
(* lifecycle pass and the seller's desk over one database, in one process  *)
(* that may crash and restart.                                             *)
(***************************************************************************)
EXTENDS Bidding, Lifecycle, SellerDesk

CONSTANT MaxFaults   \* bound on crashes and failed passes

ASSUME HouseAssumption == MaxFaults \in Nat

VARIABLE faults      \* crashes and failed passes so far

vars == <<storeVars, calls, settling, pass, desk, faults>>

Init ==
  /\ StoreInit
  /\ BiddingInit
  /\ SettlementInit
  /\ LifecycleInit
  /\ DeskInit
  /\ faults = 0

-----------------------------------------------------------------------------
ClockStep == Tick /\ UNCHANGED <<calls, settling, pass, desk, faults>>

BidderStep(c) == BiddingStep(c) /\ UNCHANGED <<settling, pass, desk, faults>>

ReaderStep(r) ==
  /\ FindPublicAuction(r) \/ SettlementStep(r)
  /\ UNCHANGED <<calls, pass, desk, faults>>

TimerStep == LifecycleStep /\ UNCHANGED <<calls, desk, faults>>

SellerStep ==
  /\ (\E a \in Auctions : CreateDraft(a)) \/ (\E k \in DeskCalls : DeskStep(k))
  /\ UNCHANGED <<calls, settling, pass, faults>>

PassFailure ==
  /\ faults < MaxFaults
  /\ PassFails
  /\ faults' = faults + 1
  /\ UNCHANGED <<calls, desk>>

\* The API process dies and restarts.  PostgreSQL rolls back what was open;
\* what was committed but not yet announced never will be.
Crash ==
  /\ faults < MaxFaults
  /\ faults' = faults + 1
  /\ calls' = [c \in Calls |-> CallLost(calls[c])]
  /\ settling' = [s \in Settlers |-> SettlerLost(s)]
  /\ pass' = IdlePass
  /\ desk' = [k \in DeskCalls |-> DeskLost(desk[k])]
  /\ UNCHANGED storeVars

Next ==
  \/ ClockStep
  \/ \E c \in Calls : BidderStep(c)
  \/ \E r \in Readers : ReaderStep(r)
  \/ TimerStep
  \/ SellerStep
  \/ PassFailure
  \/ Crash

Spec == Init /\ [][Next]_vars

TypeOK ==
  /\ StoreTypeOK
  /\ BiddingTypeOK
  /\ SettlementTypeOK
  /\ LifecycleTypeOK
  /\ DeskTypeOK
  /\ faults \in Nat

-----------------------------------------------------------------------------
(***************************************************************************)
(* Safety: the ledger and the deadline                                     *)
(***************************************************************************)

\* The bid ledger is what BID-001/BID-002 promise under any interleaving of
\* calls: sequence numbers without gap or repeat, no bid below the minimum
\* its predecessor set, none by the seller, and a row whose count and price
\* are those of the last bid (bid.service.ts placeBidInTransaction).
LedgerSound ==
  \A a \in Auctions :
    LET row == auction[a]
        b == bids[a]
    IN  /\ row.bidCount = Len(b)
        /\ \A i \in DOMAIN b :
             /\ b[i].sequenceNo = i
             /\ b[i].bidderId # SellerOf[a]
             /\ b[i].amount >= row.startingPrice
        /\ \A i, j \in DOMAIN b :
             i < j => b[i].amount + row.minBidIncrement <= b[j].amount
        /\ b # <<>> => row.currentPrice = b[Len(b)].amount

\* The deadline is the published end plus the extensions on record, each
\* earned by its own bid placed inside the window before the end it moved,
\* never more than the cap (bid.service.ts, calculate-anti-sniping.util.ts).
DeadlineEarned ==
  \A a \in Auctions :
    LET row == auction[a]
        x == extensions[a]
    IN  /\ row.extensionCount = Len(x)
        /\ Len(x) <= MAX_EXTENSIONS
        /\ \A i \in DOMAIN x :
             /\ x[i].extensionNumber = i
             /\ x[i].previousEndAt = IF i = 1 THEN row.originalEndAt
                                              ELSE x[i - 1].newEndAt
             /\ x[i].newEndAt = x[i].previousEndAt + ANTI_SNIPING_EXTENSION
             /\ x[i].triggeredByBidId \in DOMAIN bids[a]
             /\ LET t == bids[a][x[i].triggeredByBidId].placedAt
                IN  t < x[i].previousEndAt /\ x[i].previousEndAt <= t + ANTI_SNIPING_WINDOW
             /\ \A j \in DOMAIN x :
                  i < j => x[i].triggeredByBidId < x[j].triggeredByBidId
        /\ row.currentEndAt = IF x = <<>> THEN row.originalEndAt
                                          ELSE x[Len(x)].newEndAt

\* However calls are retried, raced, lost in a crash or reused for another
\* amount or auction, a request id stands for at most one bid; whoever is
\* told "accepted" or "replayed" is told of exactly that bid, with their own
\* auction, amount and id; and only one call is told "accepted" (BID-002).
RetriesAreOneBid ==
  /\ \A r \in Requests : Cardinality(FindByRequest(r)) <= 1
  /\ \A c \in Calls :
       LET answer == calls[c].answer
       IN  answer.kind \in {"accepted", "replayed"} =>
             /\ answer.bid \in FindByRequest(calls[c].req.clientRequestId)
             /\ answer.bid[1] = calls[c].req.auctionId
             /\ bids[answer.bid[1]][answer.bid[2]].amount = calls[c].req.amount
             /\ \A d \in Calls \ {c} : answer.kind = "accepted" => calls[d].answer # answer

-----------------------------------------------------------------------------
(***************************************************************************)
(* Safety: outcome, audit trail, who is told                               *)
(***************************************************************************)
Positions(a, type) == {i \in DOMAIN events[a] : events[a][i] = type}
Endings(a) == Positions(a, "ENDED") \cup Positions(a, "CANCELLED")

\* The audit log tells the story the rows tell: one STARTED before every
\* bid, one BID_PLACED per bid and one EXTENDED per extension, and at most
\* one ending, there exactly when the auction is closed, after every bid
\* (auction_events writes of publish, start, bid, settle and cancel).
AuditTrailAgrees ==
  \A a \in Auctions :
    LET starts == Positions(a, "STARTED")
        placed == Positions(a, "BID_PLACED")
    IN  /\ Cardinality(placed) = Len(bids[a])
        /\ Cardinality(Positions(a, "EXTENDED")) = Len(extensions[a])
        /\ Cardinality(starts) <= 1
        /\ auction[a].status \in Settled \cup {"ACTIVE"} => starts # {}
        /\ Cardinality(Endings(a)) = IF auction[a].status \in Closed THEN 1 ELSE 0
        /\ \A i \in placed : (\E s \in starts : s < i) /\ (\A e \in Endings(a) : i < e)

\* A sale names a bid on record: its bidder is the winner, its amount the
\* price, and it clears the reserve; no other outcome names anybody
\* (auction.service.ts settleInTransaction).
SaleGrounded ==
  \A a \in Auctions :
    LET row == auction[a]
    IN  IF row.status = "SOLD"
        THEN /\ row.winningBidId \in DOMAIN bids[a]
             /\ row.winnerUserId = bids[a][row.winningBidId].bidderId
             /\ row.soldPrice = bids[a][row.winningBidId].amount
             /\ calculateReserveMet(row.soldPrice, row.reservePrice)
        ELSE row.winningBidId = 0 /\ row.winnerUserId = Null /\ row.soldPrice = Null

\* Rows that tell user u how auction a ended.
Tellings(a, u) ==
  {m \in notifications :
     /\ m.auctionId = a
     /\ m.userId = u
     /\ m.event \in {"AUCTION_WON", "AUCTION_ENDED", "AUCTION_CANCELLED"}}

\* Everybody with a stake hears one ending, the one that happened: the winner
\* of the win, the seller and every other bidder and watcher of the end, all
\* bidders and watchers of a cancellation, and the seller only of an admin's;
\* nobody hears of an end that has not happened (NOT-002..004, settleInTransaction
\* and both cancellations).  Rows are a set here: AuditTrailAgrees has the end once.
EndingsToldOnce ==
  \A a \in Auctions, u \in Users :
    LET row == auction[a]
        stake == \/ u \in Bidders(a)
                 \/ u \in Watchers[a] /\ Positions(a, "PUBLISHED") # {}
    IN  CASE row.status \in Settled /\ u = row.winnerUserId ->
               Tellings(a, u) = {Notification("AUCTION_WON", a, u, row.winningBidId)}
          [] row.status \in Settled /\ u # row.winnerUserId ->
               Tellings(a, u) = IF stake \/ u = SellerOf[a]
                                THEN {Notification("AUCTION_ENDED", a, u, 0)} ELSE {}
          [] row.status = "CANCELLED" /\ u # SellerOf[a] ->
               Tellings(a, u) = IF stake
                                THEN {Notification("AUCTION_CANCELLED", a, u, 0)} ELSE {}
          [] row.status = "CANCELLED" /\ u = SellerOf[a] ->
               Tellings(a, u) \subseteq {Notification("AUCTION_CANCELLED", a, u, 0)}
          [] OTHER -> Tellings(a, u) = {}

\* The OUTBID rows are exactly the changes of lead: each bid tells the one
\* bidder it displaced, and nobody who raised their own (NOT-001).
LeadChangesTold ==
  \A a \in Auctions :
    {m \in notifications : m.event = "OUTBID" /\ m.auctionId = a}
      = {Notification("OUTBID", a, bids[a][i - 1].bidderId, i) :
           i \in {j \in DOMAIN bids[a] :
                    j > 1 /\ bids[a][j - 1].bidderId # bids[a][j].bidderId}}

-----------------------------------------------------------------------------
(***************************************************************************)
(* Safety: what rooms and people are sent                                  *)
(***************************************************************************)
Outboxes ==
  {<<"call", c, calls[c].out>> : c \in Calls}
    \cup {<<"settle", s, settling[s].out>> : s \in Settlers}
    \cup {<<"pass", Timer, pass.out>>}
    \cup {<<"desk", k, desk[k].out>> : k \in DeskCalls}

Committed(m) ==
  LET a == m.auctionId
  IN  CASE m.userId # Null -> m \in notifications
        [] m.event = "auction:bid" -> m.n \in DOMAIN bids[a]
        [] m.event = "auction:extension" ->
             m.n \in DOMAIN extensions[a] /\ extensions[a][m.n].newEndAt = m.at
        [] m.event = "auction:started" -> Positions(a, "STARTED") # {}
        [] m.event = "auction:ended" ->
             /\ auction[a].status \in Settled
             /\ auction[a].winningBidId = m.n
             /\ auction[a].endedAt = m.at
        [] m.event = "auction:cancelled" -> auction[a].status = "CANCELLED"

\* Whatever leaves the process is on record (SRS section 6: emits follow the
\* commit), and no fact is in the hands of two workers or sent twice: a
\* replayed retry and a lost settlement race announce nothing.
AnnouncedOnceCommitted ==
  /\ \A m \in announced : Committed(m)
  /\ \A o \in Outboxes :
       /\ \A m \in o[3] : Committed(m)
       /\ o[3] \cap announced = {}
       /\ \A p \in Outboxes \ {o} : o[3] \cap p[3] = {}

-----------------------------------------------------------------------------
(***************************************************************************)
(* Action properties                                                       *)
(***************************************************************************)
Outcome(a) ==
  LET row == auction[a]
  IN  <<row.status, row.winnerUserId, row.winningBidId, row.soldPrice, row.endedAt,
        row.currentEndAt, bids[a], extensions[a]>>

\* A result is final: once sold, unsold or cancelled, no late bid, second
\* settlement, edit or cancellation that read the auction earlier changes
\* its outcome, its deadline or its ledger.
ResultsAreFinal ==
  [][\A a \in Auctions : auction[a].status \in Closed => Outcome(a)' = Outcome(a)]_vars

TermsOf(row) == <<row.startingPrice, row.minBidIncrement, row.reservePrice,
                  row.scheduledStartAt, row.originalEndAt>>

\* AUC-006: once an auction has opened, an edit that read it before that
\* does not change the terms people bid against.
OpenTermsStand ==
  [][\A a \in Auctions :
       auction[a].status \in Settled \cup {"ACTIVE"} =>
         TermsOf(auction'[a]) = TermsOf(auction[a])]_vars

-----------------------------------------------------------------------------
(***************************************************************************)
(* Refinement                                                              *)
(***************************************************************************)
PhaseOf(status) ==
  CASE status \in {"NONE", "DRAFT"} -> "private"
    [] status = "SCHEDULED" -> "announced"
    [] status = "ACTIVE" -> "open"
    [] status = "SOLD" -> "sold"
    [] status = "UNSOLD" -> "unsold"
    [] status = "CANCELLED" -> "withdrawn"

Contract == INSTANCE AuctionContract WITH
  EXTENSION <- ANTI_SNIPING_EXTENSION,
  phase <- [a \in Auctions |-> PhaseOf(auction[a].status)],
  terms <- [a \in Auctions |->
              [startingPrice |-> auction[a].startingPrice,
               minBidIncrement |-> auction[a].minBidIncrement,
               reservePrice |-> auction[a].reservePrice]],
  ledger <- [a \in Auctions |->
               [i \in DOMAIN bids[a] |-> [bidderId |-> bids[a][i].bidderId,
                                          amount |-> bids[a][i].amount]]],
  deadline <- [a \in Auctions |-> auction[a].currentEndAt],
  granted <- [a \in Auctions |-> auction[a].extensionCount],
  winner <- [a \in Auctions |-> auction[a].winningBidId]

\* Calls, transactions, version checks and the timer together behave as the
\* abstract auction: every step changes one auction by one promised step, or
\* nothing the contract speaks of.
ImplementsContract == Contract!Spec

-----------------------------------------------------------------------------
(***************************************************************************)
(* Liveness                                                                *)
(***************************************************************************)

\* Time passes, and the interval timer keeps running passes that make
\* progress (setInterval and the catch in reconcileLifecycle).  Nothing is
\* assumed of clients.
FairSpec == Spec /\ WF_vars(ClockStep) /\ WF_vars(TimerStep)

\* AUC-005/AUC-007: a published auction does not wait for ever, though nobody
\* reads it, passes fail and the process restarts: a SCHEDULED one that passes
\* its gate opens (or is called off), and an ACTIVE one with an end is closed.
\* What the race of publish and edit leaves without an end is excepted
\* (PublishedPassesGate): no pass ever picks that up.
AuctionsMoveOn ==
  \A a \in Auctions :
    /\ (auction[a].status = "SCHEDULED" /\ GateStands(auction[a]))
         ~> (auction[a].status # "SCHEDULED")
    /\ (auction[a].status = "ACTIVE" /\ auction[a].currentEndAt # Null)
         ~> (auction[a].status \in Closed)

-----------------------------------------------------------------------------
(***************************************************************************)
(* Claims of the code's comments that the code does not keep               *)
(***************************************************************************)

\* auction.service.ts:551 "The highest valid bid that clears the reserve
\* makes it SOLD and records the winner and the winning price; no bids at
\* all, or a top bid under the reserve, makes it UNSOLD".
SoldToHighestBid ==
  \A a \in Auctions :
    auction[a].status \in Settled =>
      auction[a].winningBidId =
        LET n == LeadingBid(bids[a])
        IN  IF Sells(a, n, auction[a].reservePrice) THEN n ELSE 0

\* auction.service.ts:555 "Nothing happens unless the auction is ACTIVE and
\* its end time has passed": a settled auction was not settled before its
\* deadline, extensions included.
SettledAfterItsEnd ==
  \A a \in Auctions :
    auction[a].status \in Settled => auction[a].currentEndAt <= auction[a].endedAt

\* auction.service.ts:765 "a published auction never sits in a state its own
\* publish gate would have refused".
PublishedPassesGate ==
  \A a \in Auctions :
    auction[a].status \in {"SCHEDULED", "ACTIVE"} => GateStands(auction[a])

\* auction-lifecycle.service.ts:91 "a SCHEDULED auction has no bids, so
\* nothing can have moved its end time since this read": the end the room is
\* told when an auction opens is the end it opened with.
StartedWithItsEnd ==
  \A m \in announced :
    m.event = "auction:started" => m.at = auction[m.auctionId].originalEndAt
=============================================================================
