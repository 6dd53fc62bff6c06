---------------------------- MODULE AuctionStore ----------------------------
(***************************************************************************)
(* The database rows every auction operation reads and writes, the wall    *)
(* clock, and what has been told to the rooms and to people.               *)
(*                                                                         *)
(* Transactions run at READ COMMITTED (nothing sets another level).  A     *)
(* read sees what is committed when it runs and holds nothing, so every    *)
(* read is a step of its own and what it saw may be stale when it is used. *)
(* A guarded updateMany re-checks its guard under the row lock and keeps   *)
(* the lock until the commit, so that update and everything the            *)
(* transaction does after it is one step.                                  *)
(***************************************************************************)
EXTENDS AuctionRules, FiniteSets

CONSTANTS
  Auctions,     \* ids of the auctions
  Users,        \* users who sell, bid and watch
  Requests,     \* clientRequestIds the clients mint
  SellerOf,     \* auctions.seller_id
  Watchers,     \* watchlist rows: the users watching each auction once it is public
  MaxTime       \* bound on the wall clock

ASSUME StoreAssumption ==
  /\ Null \notin Users
  /\ SellerOf \in [Auctions -> Users]
  /\ Watchers \in [Auctions -> SUBSET Users]
  /\ MaxTime \in Nat

VARIABLES
  now,            \* wall clock of the API process
  auction,        \* auctions: one row per auction
  bids,           \* bids of each auction, in the order they were inserted
  extensions,     \* auction_extensions of each auction, in insertion order
  events,         \* auction_events of each auction, in insertion order
  notifications,  \* notifications rows
  announced       \* messages emitted to rooms and to people's sockets

storeVars == <<now, auction, bids, extensions, events, notifications, announced>>

-----------------------------------------------------------------------------
(***************************************************************************)
(* Rows                                                                    *)
(***************************************************************************)

\* "NONE" is an auction nobody has created yet.
Status == {"NONE", "DRAFT", "SCHEDULED", "ACTIVE", "SOLD", "UNSOLD", "CANCELLED"}
Settled == {"SOLD", "UNSOLD"}
Closed == Settled \cup {"CANCELLED"}

Row == [status : Status,
        startingPrice : Nat, minBidIncrement : Nat, reservePrice : NatOrNull,
        images : Nat,
        scheduledStartAt : NatOrNull, originalEndAt : NatOrNull,
        currentEndAt : NatOrNull, startedAt : NatOrNull, endedAt : NatOrNull,
        currentPrice : Nat, bidCount : Nat, extensionCount : Nat,
        winnerUserId : Users \cup {Null}, winningBidId : Nat,
        soldPrice : NatOrNull, rowVersion : Nat]

Bid == [bidderId : Users, amount : Nat, sequenceNo : Nat,
        clientRequestId : Requests, placedAt : Nat]

\* triggeredByBidId is the position of the bid in the auction's ledger.
Extension == [triggeredByBidId : Nat, extensionNumber : Nat,
              previousEndAt : Nat, newEndAt : Nat]

EventType == {"CREATED", "PUBLISHED", "STARTED", "BID_PLACED", "EXTENDED",
              "ENDED", "CANCELLED"}

\* Room events, then the types of the notifications.
MessageType == {"auction:started", "auction:bid", "auction:extension",
                "auction:ended", "auction:cancelled",
                "OUTBID", "AUCTION_WON", "AUCTION_ENDED", "AUCTION_CANCELLED"}

\* A message to a room (userId Null) or a notification to a person.  `n` is
\* the bid or extension number it is about, `at` the time it carries.
Messages == [event : MessageType, auctionId : Auctions, userId : Users \cup {Null},
             n : Nat, at : NatOrNull]

RoomMessage(event, a, n, at) ==
  [event |-> event, auctionId |-> a, userId |-> Null, n |-> n, at |-> at]

Notification(type, a, user, n) ==
  [event |-> type, auctionId |-> a, userId |-> user, n |-> n, at |-> Null]

NoRow == [status |-> "NONE",
          startingPrice |-> 0, minBidIncrement |-> 0, reservePrice |-> Null,
          images |-> 0,
          scheduledStartAt |-> Null, originalEndAt |-> Null,
          currentEndAt |-> Null, startedAt |-> Null, endedAt |-> Null,
          currentPrice |-> 0, bidCount |-> 0, extensionCount |-> 0,
          winnerUserId |-> Null, winningBidId |-> 0, soldPrice |-> Null,
          rowVersion |-> 0]

-----------------------------------------------------------------------------
(***************************************************************************)
(* Queries                                                                 *)
(***************************************************************************)

\* bid.findUnique({ where: { clientRequestId } }): the bids recorded under a
\* request id, over every auction (at most one, by the unique index).
FindByRequest(req) ==
  {b \in UNION {{a} \X (DOMAIN bids[a]) : a \in Auctions} :
     bids[b[1]][b[2]].clientRequestId = req}

Bidders(a) == {bids[a][i].bidderId : i \in DOMAIN bids[a]}

\* Only a public auction can be watched, so a draft has nobody.
Watching(a) == IF auction[a].status = "DRAFT" THEN {} ELSE Watchers[a]

\* Everybody who bid on it or watches it, but those excluded.
findAuctionAudience(a, excluded) == (Bidders(a) \cup Watching(a)) \ excluded

-----------------------------------------------------------------------------
StoreInit ==
  /\ now = 0
  /\ auction = [a \in Auctions |-> NoRow]
  /\ bids = [a \in Auctions |-> <<>>]
  /\ extensions = [a \in Auctions |-> <<>>]
  /\ events = [a \in Auctions |-> <<>>]
  /\ notifications = {}
  /\ announced = {}

\* The wall clock moves between any two steps, up to the bound.
Tick ==
  /\ now < MaxTime
  /\ now' = now + 1
  /\ UNCHANGED <<auction, bids, extensions, events, notifications, announced>>

\* The emits after a commit: sockets are written to, nothing is stored.
Emit(messages) ==
  /\ announced' = announced \cup messages
  /\ UNCHANGED <<now, auction, bids, extensions, events, notifications>>

StoreTypeOK ==
  /\ now \in Nat
  /\ auction \in [Auctions -> Row]
  /\ bids \in [Auctions -> Seq(Bid)]
  /\ extensions \in [Auctions -> Seq(Extension)]
  /\ events \in [Auctions -> Seq(EventType)]
  /\ notifications \subseteq Messages
  /\ announced \subseteq Messages
=============================================================================
