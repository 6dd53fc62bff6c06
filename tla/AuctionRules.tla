---------------------------- MODULE AuctionRules ----------------------------
(***************************************************************************)
(* The pure rules of an auction: the next minimum bid, anti-sniping, the   *)
(* reserve, the publish gate, what a seller or an admin may still change,  *)
(* and which bid leads.  Money and time are natural numbers (satang and    *)
(* clock ticks); Null is SQL NULL.                                         *)
(***************************************************************************)
EXTENDS Naturals, Sequences

CONSTANTS
  Null,                       \* SQL NULL, a value that is no number and no user
  ANTI_SNIPING_WINDOW,        \* a bid this close to the end extends the auction
  ANTI_SNIPING_EXTENSION,     \* ... by this much
  MAX_EXTENSIONS,             \* ... at most this many times
  MAX_AUCTION_IMAGES          \* pictures a draft may carry

ASSUME RulesAssumption ==
  /\ Null \notin Nat
  /\ ANTI_SNIPING_WINDOW \in Nat
  /\ ANTI_SNIPING_EXTENSION \in Nat \ {0}
  /\ MAX_EXTENSIONS \in Nat
  /\ MAX_AUCTION_IMAGES \in Nat

\* A DateTime? or Decimal? column
NatOrNull == Nat \cup {Null}

-----------------------------------------------------------------------------
(***************************************************************************)
(* Bidding rules                                                           *)
(***************************************************************************)

\* Mutant: every bid is measured against the starting price.
calculateMinimumBid_StartingPrice(row) == row.startingPrice

\* The opening bid is measured against the starting price; from the second
\* bid on, the price plus the increment.
calculateMinimumBid(row) ==
  IF row.bidCount = 0 THEN row.startingPrice
                      ELSE row.currentPrice + row.minBidIncrement

\* Mutant: the cap is off by one.
calculateAntiSniping_OverCap(row, t) ==
  /\ row.currentEndAt <= t + ANTI_SNIPING_WINDOW
  /\ row.extensionCount <= MAX_EXTENSIONS

\* Does a bid arriving at time t push the end out?  The end is set: the
\* caller refuses an auction without one, or one whose end is not after t.
calculateAntiSniping(row, t) ==
  /\ row.currentEndAt <= t + ANTI_SNIPING_WINDOW
  /\ row.extensionCount < MAX_EXTENSIONS

\* Where it is pushed to: measured from the end, not from the bid.
ExtendedEnd(row) == row.currentEndAt + ANTI_SNIPING_EXTENSION

\* LEADING_BID_ORDER: the highest amount, on a tie the lowest sequence number
Outranks(b, c) ==
  \/ b.amount > c.amount
  \/ b.amount = c.amount /\ b.sequenceNo <= c.sequenceNo

\* findFirst under that order: the position of the leading bid, 0 when none
LeadingBid(ledger) ==
  IF ledger = <<>> THEN 0
  ELSE CHOOSE i \in DOMAIN ledger :
         \A j \in DOMAIN ledger : Outranks(ledger[i], ledger[j])

calculateReserveMet(amount, reservePrice) ==
  IF reservePrice = Null THEN TRUE ELSE amount >= reservePrice

-----------------------------------------------------------------------------
(***************************************************************************)
(* Publishing and changing                                                 *)
(***************************************************************************)

\* The half of validateDraftForPublish that does not look at the clock.  The
\* columns a DTO can never leave blank (title, description, condition) are
\* not carried by the model; the category is taken to stay active.
GateStands(row) ==
  /\ row.startingPrice > 0
  /\ row.minBidIncrement > 0
  /\ row.scheduledStartAt # Null
  /\ row.originalEndAt # Null
  /\ row.originalEndAt > row.scheduledStartAt
  /\ row.images > 0
  /\ row.reservePrice # Null => row.reservePrice >= row.startingPrice

validateDraftForPublish(row, t) ==
  /\ GateStands(row)
  /\ row.originalEndAt > t

\* assertAuctionIsEditable / assertAuctionIsCancellable
assertSellerMayChange(row) ==
  /\ row.status \in {"DRAFT", "SCHEDULED"}
  /\ row.bidCount = 0

CANCELLABLE_BY_ADMIN == {"DRAFT", "SCHEDULED", "ACTIVE"}

PUBLIC_AUCTION_STATUSES == {"SCHEDULED", "ACTIVE", "SOLD", "UNSOLD"}
=============================================================================
