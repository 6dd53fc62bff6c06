------------------------------ MODULE LiveRoom ------------------------------
(***************************************************************************)
(* The server's side of one live auction: LiveService (the arena, joining  *)
(* and leaving), AuctionGateway and PresenceRegistry.                      *)
(*                                                                         *)
(* Bidding and settlement are the ones of Bidding and Settlement, with     *)
(* only the interleavings a watcher can tell apart: a bid is judged at the *)
(* time its request arrived and may land a tick later, a settlement picks  *)
(* its winner before it writes, and what is announced is announced after   *)
(* the commit (a seller's edit is not).  Every subscriber ignores the      *)
(* payload, so an announcement is its name.                                *)
(***************************************************************************)
EXTENDS AuctionRules, FiniteSets, SequencesExt

CONSTANTS
  Tabs,           \* browser tabs
  OwnerOf,        \* who is signed in on each, Null for nobody
  Outsider,       \* bids from elsewhere
  MaxClock        \* bound on time

VARIABLES
  scene,          \* the auction, the tabs and the bounds of this run, never changed
  row,            \* the auction row
  bids,           \* its bids, in order of sequenceNo
  now,            \* the clock
  settling,       \* the timer's verdict, Null or the bid it picked (0: none)
  seats,          \* users with a JOINED participant row
  seating,        \* participant writes under way
  registry,       \* PresenceRegistry: the connections counted, as <<tab, number>>
  joining,        \* auction:join handlers awaiting the token check
  ended,          \* connections gone, with or without a goodbye, not yet noticed
  outbox          \* announcements committed but not emitted

\* The columns of the auction row that a watcher is told of; `edition` (history)
\* counts the edits of its seller.
AuctionRow ==
  [status : PUBLIC_AUCTION_STATUSES \cup {"CANCELLED"},
   scheduledStartAt : Nat, currentEndAt : Nat, extensionCount : Nat, bidCount : Nat,
   startingPrice : Nat, currentPrice : Nat, minBidIncrement : Nat \ {0},
   reservePrice : NatOrNull, soldPrice : NatOrNull, winningBidId : Nat, edition : Nat]

\* A PATCH body, the columns not sent as they are.
AuctionEdit ==
  [startingPrice : Nat, minBidIncrement : Nat \ {0}, reservePrice : NatOrNull,
   scheduledStartAt : Nat, currentEndAt : Nat]

roomVars == <<row, bids, now, settling, seats, seating, registry, joining, ended, outbox>>

Settled == {"SOLD", "UNSOLD"}
JOINABLE_AUCTION_STATUSES == {"SCHEDULED", "ACTIVE"}
NotBefore(t) == {t, IF t = 0 THEN 0 ELSE t - 1}

-----------------------------------------------------------------------------
(***************************************************************************)
(* Bids, the clock and the timer                                           *)
(***************************************************************************)
Tick == now < scene.until /\ now' = now + 1
        /\ UNCHANGED <<row, bids, settling, seats, seating, registry, joining, ended, outbox>>

\* The lifecycle pass starts what is scheduled.
StartAuction ==
  /\ row.status = "SCHEDULED" /\ row.scheduledStartAt <= now
  /\ row' = [row EXCEPT !.status = "ACTIVE"]
  /\ outbox' = Append(outbox, "auction:started")
  /\ UNCHANGED <<bids, now, settling, seats, seating, registry, joining, ended>>

CancelAuction ==
  /\ row.status \in {"SCHEDULED", "ACTIVE"}
  /\ row' = [row EXCEPT !.status = "CANCELLED"]
  /\ outbox' = Append(outbox, "auction:cancelled")
  /\ UNCHANGED <<bids, now, settling, seats, seating, registry, joining, ended>>

\* updateOwnAuction of an auction that is on show: the write is guarded on what
\* was read, the publish gate must still stand, and the room is told nothing.
updateOwnAuction(edit) ==
  /\ row.status = "SCHEDULED" /\ row.bidCount = 0 /\ row.edition < scene.edits
  /\ edit.startingPrice > 0 /\ edit.currentEndAt > edit.scheduledStartAt
  /\ edit.currentEndAt > now
  /\ edit.reservePrice # Null => edit.reservePrice >= edit.startingPrice
  /\ row' = [row EXCEPT !.startingPrice = edit.startingPrice,
                        !.minBidIncrement = edit.minBidIncrement,
                        !.reservePrice = edit.reservePrice,
                        !.scheduledStartAt = edit.scheduledStartAt,
                        !.currentEndAt = edit.currentEndAt, !.edition = @ + 1]
  /\ UNCHANGED <<bids, now, settling, seats, seating, registry, joining, ended, outbox>>

\* placeBid, for a request that arrived at time t: taken, replayed or refused.
Taken(amount, t) ==
  /\ row.status = "ACTIVE" /\ row.currentEndAt > t
  /\ amount >= calculateMinimumBid(row)

RecordedUnder(id) == {n \in DOMAIN bids : bids[n].clientRequestId = id}

RecordBid(id, amount, t) ==
  LET extends == calculateAntiSniping(row, t)
  IN  /\ Len(bids) < scene.bids
      /\ bids' = Append(bids, [amount |-> amount, sequenceNo |-> Len(bids) + 1,
                               clientRequestId |-> id])
      /\ row' = [row EXCEPT !.currentPrice = amount, !.bidCount = @ + 1,
                            !.currentEndAt = IF extends THEN ExtendedEnd(row) ELSE @,
                            !.extensionCount = IF extends THEN @ + 1 ELSE @]
      /\ outbox' = outbox \o IF extends THEN <<"auction:bid", "auction:extension">>
                                        ELSE <<"auction:bid">>

OutsideBid ==
  /\ \E t \in NotBefore(now) :
       LET amount == calculateMinimumBid(row)
       IN  Taken(amount, t) /\ RecordBid(<<Outsider, 0>>, amount, t)
  /\ UNCHANGED <<now, settling, seats, seating, registry, joining, ended>>

\* settleAuction as the timer runs it: the verdict, then the guarded write.
Due(r, t) == r.status = "ACTIVE" /\ r.currentEndAt <= t

SettleDecide ==
  /\ settling = Null /\ Due(row, now)
  /\ settling' = LeadingBid(bids)
  /\ UNCHANGED <<row, bids, now, seats, seating, registry, joining, ended, outbox>>

SettledRow(n) ==
  LET sold == n # 0 /\ calculateReserveMet(bids[n].amount, row.reservePrice)
  IN  [row EXCEPT !.status = IF sold THEN "SOLD" ELSE "UNSOLD",
                  !.winningBidId = IF sold THEN n ELSE 0,
                  !.soldPrice = IF sold THEN bids[n].amount ELSE Null]

SettleWrite ==
  /\ settling # Null /\ settling' = Null
  /\ IF row.status = "ACTIVE"
     THEN row' = SettledRow(settling) /\ outbox' = Append(outbox, "auction:ended")
     ELSE UNCHANGED <<row, outbox>>
  /\ UNCHANGED <<bids, now, seats, seating, registry, joining, ended>>

-----------------------------------------------------------------------------
(***************************************************************************)
(* The arena: an auction, and then what belongs to it, read separately     *)
(***************************************************************************)

\* findPublicAuction: a due auction is settled on the way (in one step: the
\* interleavings inside are Settlement's), unless the timer gets there first,
\* when the row as it was read stands.  Either way what was seen is row'.
findPublicAuction ==
  /\ row.status \in PUBLIC_AUCTION_STATUSES
  /\ \/ /\ Due(row, now)
        /\ row' = SettledRow(LeadingBid(bids))
        /\ outbox' = Append(outbox, "auction:ended")
     \/ /\ Due(row, now) => settling # Null
        /\ UNCHANGED <<row, outbox>>

\* Mutant: whoever leads is the winner.
WinnerRead_Leader == LeadingBid(bids)

\* The bid the auction row names as the one that won it.
WinnerRead == row.winningBidId

\* What a reader is told at time t of an auction row r read just before.
calculateCountdown(r, t) ==
  LET msUntil(target) == IF target <= t THEN 0 ELSE target - t
  IN  [msUntilStart |-> msUntil(r.scheduledStartAt), msUntilEnd |-> msUntil(r.currentEndAt)]

describeSuddenDeath(r, t) ==
  r.status = "ACTIVE" /\ calculateCountdown(r, t).msUntilEnd \in 1..ANTI_SNIPING_WINDOW

describeAuctionResult(a) ==
  IF a.row.status \notin Settled THEN Null
  ELSE [outcome |-> a.row.status, soldPrice |-> a.row.soldPrice,
        winner |-> IF a.row.status = "SOLD" THEN a.winner ELSE 0]

\* canBid: open, and signed in as somebody who is neither seller nor admin.
describeBiddingAccess(a) == a.you /\ a.row.status = "ACTIVE"

-----------------------------------------------------------------------------
(***************************************************************************)
(* Taking part: LiveService.join and leave                                 *)
(***************************************************************************)
\* A call: POST (join) or DELETE (leave) for a tab, or the leave a lost
\* connection runs for its user.  `was` is whether the user was JOINED.
\* `left` says that the screen that asked has let go since.
Call(op, t, user) ==
  [op |-> op, tab |-> t, user |-> user, step |-> "ask", was |-> FALSE, left |-> FALSE]

\* assertJoinable, and the look at the participant row.
JoinAsked(c) ==
  /\ c.op = "join" /\ c.step = "ask"
  /\ seating' = (seating \ {c}) \cup
       {[c EXCEPT !.step = IF row.status \in JOINABLE_AUCTION_STATUSES THEN "write" ELSE "refused",
                  !.was = c.user \in seats]}
  /\ UNCHANGED <<row, bids, now, settling, seats, registry, joining, ended, outbox>>

\* The upsert, and the announcement when it changed anything as far as the
\* look before it could tell.
JoinWritten(c) ==
  /\ c.op = "join" /\ c.step = "write"
  /\ seats' = seats \cup {c.user}
  /\ outbox' = IF c.was THEN outbox ELSE Append(outbox, "auction:presence")
  /\ seating' = (seating \ {c}) \cup {[c EXCEPT !.step = "joined"]}
  /\ UNCHANGED <<row, bids, now, settling, registry, joining, ended>>

\* updateMany where JOINED; the count says whether there was one.  The
\* answer is not waited for.
LeaveWritten(c) ==
  /\ c.op = "leave"
  /\ seats' = seats \ {c.user}
  /\ outbox' = IF c.user \in seats THEN Append(outbox, "auction:presence") ELSE outbox
  /\ seating' = seating \ {c}
  /\ UNCHANGED <<row, bids, now, settling, registry, joining, ended>>

-----------------------------------------------------------------------------
(***************************************************************************)
(* AuctionGateway and PresenceRegistry                                     *)
(***************************************************************************)
ConnectionsOf(user, all) == {c \in all : OwnerOf[c[1]] = user}

\* join, after the room: the token names somebody, who is registered on this
\* connection; nothing asks whether it is still there.
Register(c) ==
  /\ c \in joining
  /\ joining' = joining \ {c}
  /\ registry' = IF OwnerOf[c[1]] = Null THEN registry ELSE registry \cup {c}
  /\ UNCHANGED <<row, bids, now, settling, seats, seating, ended, outbox>>

\* Mutant: a person is let go while one more connection is counted.
releaseSocket_OneLeft(c) ==
  IF c \in registry /\ Cardinality(ConnectionsOf(OwnerOf[c[1]], registry)) # 2
  THEN {} ELSE IF c \in registry THEN {OwnerOf[c[1]]} ELSE {}

\* Whose last connection this was: {user}, or nobody.
releaseSocket(c) ==
  IF c \in registry /\ ConnectionsOf(OwnerOf[c[1]], registry) = {c} THEN {OwnerOf[c[1]]} ELSE {}

\* handleDisconnect: forget the connection and let its person leave.  After a
\* goodbye (auction:leave) it was forgotten already, and nobody leaves by it.
handleDisconnect(e) ==
  /\ e \in ended
  /\ ended' = ended \ {e}
  /\ registry' = registry \ {e.conn}
  /\ seating' = seating \cup
       IF e.left THEN {} ELSE {Call("leave", e.conn[1], u) : u \in releaseSocket(e.conn)}
  /\ UNCHANGED <<row, bids, now, settling, seats, joining, outbox>>
=============================================================================
