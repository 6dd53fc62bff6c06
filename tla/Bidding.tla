------------------------------- MODULE Bidding -------------------------------
(***************************************************************************)
(* BidService.placeBid: one HTTP call from its arrival to its answer.      *)
(*                                                                         *)
(*   idle -> lookup -> read -> write -> announce -> done                   *)
(*                              |  \                                       *)
(*                              |   recheck (updateMany matched nothing)   *)
(*                              replay (unique index on client_request_id) *)
(*                                                                         *)
(* The time a bid is judged by is captured on arrival, before the          *)
(* transaction opens, so it may lie behind the clock when the row is       *)
(* written.                                                                *)
(***************************************************************************)
EXTENDS AuctionStore

CONSTANTS
  Calls,        \* POST /auctions/:id/bids executions; a retry is another call
  Inputs,       \* the bids clients send: auction, amount, request id
  MinterOf      \* the user whose client minted each request id

ASSUME BiddingAssumption ==
  /\ Inputs \subseteq [auctionId : Auctions, amount : Nat \ {0},
                       clientRequestId : Requests]
  /\ MinterOf \in [Requests -> Users]

VARIABLE calls  \* progress of each call

\* "accepted" and "replayed" hand back a bid (its auction and position).
BidAnswer == [kind : {"none", "refused", "lost"}]
             \cup [kind : {"accepted", "replayed"}, bid : Auctions \X Nat]

NoAnswer == [kind |-> "none"]
Refused == [kind |-> "refused"]

Call == [pc : {"idle", "lookup", "read", "write", "recheck", "replay",
               "announce", "done"},
         req : Inputs \cup {Null}, now : Nat, row : Row,
         answer : BidAnswer, out : SUBSET Messages]

IdleCall == [pc |-> "idle", req |-> Null, now |-> 0, row |-> NoRow,
             answer |-> NoAnswer, out |-> {}]

BiddingInit == calls = [c \in Calls |-> IdleCall]

-----------------------------------------------------------------------------
\* The call's progress; the rows it read are dropped once it has answered.
Goto(c, pc) == calls' = [calls EXCEPT ![c].pc = pc]

Answer(c, answer) ==
  calls' = [calls EXCEPT ![c] = [IdleCall EXCEPT !.pc = "done", !.req = calls[c].req,
                                                 !.answer = answer]]

\* Mutant: whatever is recorded under the id is handed back.
replayOrRefuse_AnyBid(existing, req) == [kind |-> "replayed", bid |-> existing]

\* A repeated request id is a retry only of the same bid: another auction or
\* another amount under the same id is refused.
replayOrRefuse(existing, req) ==
  IF existing[1] = req.auctionId /\ bids[existing[1]][existing[2]].amount = req.amount
  THEN [kind |-> "replayed", bid |-> existing]
  ELSE Refused

\* Answers from the bid recorded under the call's request id.
AnswerFromLedger(c) ==
  \E existing \in FindByRequest(calls[c].req.clientRequestId) :
    Answer(c, replayOrRefuse(existing, calls[c].req))

NothingRecorded(c) == FindByRequest(calls[c].req.clientRequestId) = {}

\* The refusals of placeBidInTransaction, judged on the row just read.
BidRefused(row, c) ==
  \/ row.status # "ACTIVE"
  \/ row.currentEndAt = Null
  \/ row.currentEndAt <= calls[c].now
  \/ SellerOf[calls[c].req.auctionId] = MinterOf[calls[c].req.clientRequestId]
  \/ calls[c].req.amount < calculateMinimumBid(row)

\* Mutant: no optimistic lock.
BidGuard_Unversioned(row, c) ==
  /\ row.status = "ACTIVE"
  /\ row.currentEndAt # Null
  /\ row.currentEndAt > calls[c].now

\* The guard of the updateMany, evaluated under the row lock.
BidGuard(row, c) ==
  /\ row.status = "ACTIVE"
  /\ row.currentEndAt # Null
  /\ row.currentEndAt > calls[c].now
  /\ row.rowVersion = calls[c].row.rowVersion

-----------------------------------------------------------------------------
(***************************************************************************)
(* What an accepted bid writes                                             *)
(***************************************************************************)
RowAfterBid(row, amount, extends, newEndAt) ==
  [row EXCEPT !.currentPrice = amount,
              !.bidCount = @ + 1,
              !.rowVersion = @ + 1,
              !.currentEndAt = IF extends THEN newEndAt ELSE @,
              !.extensionCount = IF extends THEN @ + 1 ELSE @]

NewBid(c) ==
  [bidderId |-> MinterOf[calls[c].req.clientRequestId],
   amount |-> calls[c].req.amount,
   sequenceNo |-> calls[c].row.bidCount + 1,
   clientRequestId |-> calls[c].req.clientRequestId,
   placedAt |-> calls[c].now]

NewExtension(c, n) ==
  [triggeredByBidId |-> n,
   extensionNumber |-> calls[c].row.extensionCount + 1,
   previousEndAt |-> calls[c].row.currentEndAt,
   newEndAt |-> ExtendedEnd(calls[c].row)]

\* Mutant: bidders who raise their own bid are told they were outbid.
OutbidNotifications_Self(a, bidder, n) ==
  LET leader == LeadingBid(bids[a])
  IN  IF leader # 0
      THEN {Notification("OUTBID", a, bids[a][leader].bidderId, n)}
      ELSE {}

\* The person who was leading hears, if that is somebody else.
OutbidNotifications(a, bidder, n) ==
  LET leader == LeadingBid(bids[a])
  IN  IF leader # 0 /\ bids[a][leader].bidderId # bidder
      THEN {Notification("OUTBID", a, bids[a][leader].bidderId, n)}
      ELSE {}

-----------------------------------------------------------------------------
(***************************************************************************)
(* Steps                                                                   *)
(***************************************************************************)
ReceiveBid(c) ==
  /\ calls[c].pc = "idle"
  /\ \E req \in Inputs :
       calls' = [calls EXCEPT ![c].pc = "lookup", ![c].req = req, ![c].now = now]
  /\ UNCHANGED storeVars

LookupRequest(c) ==
  /\ calls[c].pc = "lookup"
  /\ \/ AnswerFromLedger(c)
     \/ NothingRecorded(c) /\ Goto(c, "read")
  /\ UNCHANGED storeVars

ReadAuction(c) ==
  /\ calls[c].pc = "read"
  /\ LET row == auction[calls[c].req.auctionId]
     IN  IF BidRefused(row, c)
         THEN Answer(c, Refused)
         ELSE calls' = [calls EXCEPT ![c].pc = "write", ![c].row = row]
  /\ UNCHANGED storeVars

\* updateMany matched, the bid is inserted, and the transaction commits.
AcceptBid(c) ==
  LET a == calls[c].req.auctionId
      n == Len(bids[a]) + 1
      extends == calculateAntiSniping(calls[c].row, calls[c].now)
      row == RowAfterBid(auction[a], calls[c].req.amount, extends,
                         ExtendedEnd(calls[c].row))
      outbid == OutbidNotifications(a, MinterOf[calls[c].req.clientRequestId], n)
  IN  /\ calls[c].pc = "write"
      /\ BidGuard(auction[a], c)
      /\ NothingRecorded(c)
      /\ auction' = [auction EXCEPT ![a] = row]
      /\ bids' = [bids EXCEPT ![a] = Append(@, NewBid(c))]
      /\ extensions' = [extensions EXCEPT
           ![a] = IF extends THEN Append(@, NewExtension(c, n)) ELSE @]
      /\ events' = [events EXCEPT
           ![a] = IF extends THEN @ \o <<"BID_PLACED", "EXTENDED">>
                             ELSE Append(@, "BID_PLACED")]
      /\ notifications' = notifications \cup outbid
      /\ calls' = [calls EXCEPT
           ![c].pc = "announce",
           ![c].answer = [kind |-> "accepted", bid |-> <<a, n>>],
           ![c].out = {RoomMessage("auction:bid", a, n, row.currentEndAt)}
                      \cup outbid
                      \cup IF extends
                           THEN {RoomMessage("auction:extension", a,
                                             row.extensionCount, row.currentEndAt)}
                           ELSE {}]
      /\ UNCHANGED <<now, announced>>

\* updateMany matched, but another copy of the request got its bid in after
\* the lookup: the insert violates the unique index and all is rolled back.
CollideOnRequest(c) ==
  /\ calls[c].pc = "write"
  /\ BidGuard(auction[calls[c].req.auctionId], c)
  /\ ~NothingRecorded(c)
  /\ Goto(c, "replay")
  /\ UNCHANGED storeVars

\* updateMany matched nothing: the row changed since it was read.
LoseRace(c) ==
  /\ calls[c].pc = "write"
  /\ ~BidGuard(auction[calls[c].req.auctionId], c)
  /\ Goto(c, "recheck")
  /\ UNCHANGED storeVars

\* The winner of the race may be this same request; replayExistingBid reads
\* the same way after a collision.
AnswerLostRace(c) ==
  /\ calls[c].pc \in {"recheck", "replay"}
  /\ \/ AnswerFromLedger(c)
     \/ NothingRecorded(c) /\ Answer(c, Refused)
  /\ UNCHANGED storeVars

\* After the commit: room, extension and personal emits, then the answer.
AnnounceBid(c) ==
  /\ calls[c].pc = "announce"
  /\ Emit(calls[c].out)
  /\ Answer(c, calls[c].answer)

BiddingStep(c) ==
  \/ ReceiveBid(c)
  \/ LookupRequest(c)
  \/ ReadAuction(c)
  \/ AcceptBid(c)
  \/ CollideOnRequest(c)
  \/ LoseRace(c)
  \/ AnswerLostRace(c)
  \/ AnnounceBid(c)

\* The process dies: an open transaction is rolled back, a committed bid is
\* never announced, and the caller hears nothing either way.
CallLost(call) ==
  IF call.pc \in {"idle", "done"} THEN call
  ELSE [IdleCall EXCEPT !.pc = "done", !.req = call.req, !.answer = [kind |-> "lost"]]

BiddingTypeOK == calls \in [Calls -> Call]
=============================================================================
