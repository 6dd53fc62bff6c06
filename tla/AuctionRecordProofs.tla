------------------------ MODULE AuctionRecordProofs ------------------------
(***************************************************************************)
(* Further proofs about AuctionHouse: the deadline, retries, the audit     *)
(* trail, who is told what and what leaves the process, and that the       *)
(* whole implements AuctionContract.                                       *)
(*                                                                         *)
(* Every step of the system either leaves the record alone or is one of    *)
(* eight kinds of write (StepKinds).  Each property is then shown once per *)
(* kind, whichever worker, stale read or crash lies behind the step.       *)
(***************************************************************************)
EXTENDS AuctionHouseProofs, FiniteSetTheorems, SequenceTheorems

-----------------------------------------------------------------------------
(***************************************************************************)
(* Kinds of step                                                           *)
(***************************************************************************)

\* One row is rewritten; log and told are the audit events and notifications
\* of the same transaction.
Wrote(a, r, log, told) ==
  /\ r \in Row
  /\ auction' = [auction EXCEPT ![a] = r]
  /\ events' = [events EXCEPT ![a] = @ \o log]
  /\ notifications' = notifications \cup told
  /\ UNCHANGED <<bids, extensions, announced>>

\* The record stands as it is.
Quiet == UNCHANGED <<auction, bids, extensions, events, notifications>>

\* The terms and the deadline stand.
Stands(r, old) ==
  /\ r.startingPrice = old.startingPrice
  /\ r.minBidIncrement = old.minBidIncrement
  /\ r.reservePrice = old.reservePrice
  /\ r.originalEndAt = old.originalEndAt
  /\ r.currentEndAt = old.currentEndAt
  /\ r.extensionCount = old.extensionCount

Creates(a, r) ==
  /\ Wrote(a, r, <<"CREATED">>, {})
  /\ auction[a].status = "NONE"
  /\ r.status = "DRAFT"
  /\ r.extensionCount = 0
  /\ r.currentEndAt = r.originalEndAt
  /\ r.winningBidId = 0

Rewrites(a, r) ==
  /\ Wrote(a, r, <<>>, {})
  /\ auction[a].status \in {"DRAFT", "SCHEDULED"}
  /\ r.status = auction[a].status
  /\ r.extensionCount = auction[a].extensionCount
  /\ r.winningBidId = auction[a].winningBidId
  /\ auction[a].currentEndAt = auction[a].originalEndAt => r.currentEndAt = r.originalEndAt

Publishes(a, r) ==
  /\ auction[a].status = "DRAFT"
  /\ Stands(r, auction[a])
  /\ r.winningBidId = auction[a].winningBidId
  /\ \/ r.status = "SCHEDULED" /\ Wrote(a, r, <<"PUBLISHED">>, {})
     \/ r.status = "ACTIVE" /\ Wrote(a, r, <<"PUBLISHED", "STARTED">>, {})

Opens(a, r) ==
  /\ Wrote(a, r, <<"STARTED">>, {})
  /\ auction[a].status = "SCHEDULED"
  /\ r.status = "ACTIVE"
  /\ Stands(r, auction[a])
  /\ r.winningBidId = auction[a].winningBidId

\* A picture added or taken off, whatever the status has become.
Pictures(a, r) ==
  /\ Wrote(a, r, <<>>, {})
  /\ Stands(r, auction[a])
  /\ r.status = auction[a].status
  /\ r.winningBidId = auction[a].winningBidId
  /\ r.winnerUserId = auction[a].winnerUserId
  /\ r.endedAt = auction[a].endedAt

Cancels(a, r, told) ==
  /\ Wrote(a, r, <<"CANCELLED">>,
           {Notification("AUCTION_CANCELLED", a, u, 0) : u \in told})
  /\ auction[a].status \in {"DRAFT", "SCHEDULED", "ACTIVE"}
  /\ r.status = "CANCELLED"
  /\ Stands(r, auction[a])
  /\ r.winningBidId = auction[a].winningBidId
  /\ \/ told = findAuctionAudience(a, {SellerOf[a]})
     \/ told = findAuctionAudience(a, {}) \cup {SellerOf[a]}

Settles(a, r) ==
  /\ Wrote(a, r, <<"ENDED">>, SettlementNotifications(a, r))
  /\ auction[a].status = "ACTIVE"
  /\ r.status \in Settled
  /\ Stands(r, auction[a])
  /\ SaleOf(r, bids[a])

\* One bid is added to the ledger, and with it at most one extension.
Extended(a, n, placedAt, r) ==
  LET old == auction[a]
  IN  /\ old.extensionCount < MAX_EXTENSIONS
      /\ old.currentEndAt <= placedAt + ANTI_SNIPING_WINDOW
      /\ r.currentEndAt = old.currentEndAt + ANTI_SNIPING_EXTENSION
      /\ r.extensionCount = old.extensionCount + 1
      /\ extensions' = [extensions EXCEPT
           ![a] = Append(@, [triggeredByBidId |-> n,
                             extensionNumber |-> old.extensionCount + 1,
                             previousEndAt |-> old.currentEndAt,
                             newEndAt |-> r.currentEndAt])]
      /\ events' = [events EXCEPT ![a] = @ \o <<"BID_PLACED", "EXTENDED">>]

NotExtended(a, r) ==
  /\ r.currentEndAt = auction[a].currentEndAt
  /\ r.extensionCount = auction[a].extensionCount
  /\ extensions' = extensions
  /\ events' = [events EXCEPT ![a] = @ \o <<"BID_PLACED">>]

Accepts(a, r, bid) ==
  LET old == auction[a]
      n == Len(bids[a]) + 1
  IN  /\ r \in Row /\ bid \in Bid
      /\ old.status = "ACTIVE" /\ r.status = "ACTIVE"
      /\ old.currentEndAt \in Nat /\ bid.placedAt < old.currentEndAt
      /\ bid.bidderId # SellerOf[a]
      /\ bid.amount >= calculateMinimumBid(old)
      /\ FindByRequest(bid.clientRequestId) = {}
      /\ r.startingPrice = old.startingPrice
      /\ r.minBidIncrement = old.minBidIncrement
      /\ r.reservePrice = old.reservePrice
      /\ r.originalEndAt = old.originalEndAt
      /\ r.winningBidId = old.winningBidId
      /\ auction' = [auction EXCEPT ![a] = r]
      /\ bids' = [bids EXCEPT ![a] = Append(@, bid)]
      /\ NotExtended(a, r) \/ Extended(a, n, bid.placedAt, r)
      /\ notifications' = notifications \cup OutbidNotifications(a, bid.bidderId, n)
      /\ announced' = announced

-----------------------------------------------------------------------------
\* create writes a new draft.
LEMMA CreateIsKind ==
  ASSUME Inv, NEW a \in Auctions, CreateDraft(a)
  PROVE  \E r : Creates(a, r)
<1>1. PICK d \in Drafts :
        auction' = [auction EXCEPT
          ![a] = [WithContents(NoRow, d, Columns) EXCEPT !.status = "DRAFT", !.rowVersion = 1]]
  BY DEF CreateDraft
<1> DEFINE w == WithContents(NoRow, d, Columns)
<1> DEFINE r == [w EXCEPT !.status = "DRAFT", !.rowVersion = 1]
<1>2. Edited(w, NoRow)
  BY NoRowTyped, ContentsTyped
<1>3. /\ w.currentEndAt = d.scheduledEndAt /\ w.originalEndAt = d.scheduledEndAt
      /\ w.extensionCount = 0
  BY DEF WithContents, Columns, NoRow
<1> HIDE DEF w
<1>4. /\ r \in Row /\ r.status = "DRAFT" /\ r.extensionCount = 0 /\ r.winningBidId = 0
      /\ r.currentEndAt = r.originalEndAt
  BY <1>2, <1>3 DEF Edited, NoRow, Row, Status
<1>5. events' = [events EXCEPT ![a] = @ \o <<"CREATED">>]
  <2>1. events[a] \in Seq(EventType) /\ "CREATED" \in EventType
    BY DEF Inv, TypeOK, StoreTypeOK, EventType
  <2>2. Append(events[a], "CREATED") = events[a] \o <<"CREATED">>
    BY <2>1, AppendIsConcat
  <2>3. QED
    BY <2>2 DEF CreateDraft
<1>6. auction' = [auction EXCEPT ![a] = r]
  BY <1>1 DEF w
<1> HIDE DEF r
<1>7. Creates(a, r)
  BY <1>4, <1>5, <1>6 DEF Creates, Wrote, CreateDraft
<1>8. QED
  BY <1>7

\* What a row keeps when its status, its times or its pictures are written
\* and its version is bumped.
LEMMA Bumped ==
  ASSUME NEW row \in Row
  PROVE  LET r == [row EXCEPT !.rowVersion = @ + 1]
         IN  /\ r \in Row /\ Stands(r, row) /\ r.status = row.status
             /\ r.winningBidId = row.winningBidId /\ r.winnerUserId = row.winnerUserId
             /\ r.endedAt = row.endedAt
<1> DEFINE v == row.rowVersion + 1
<1> DEFINE r == [row EXCEPT !.rowVersion = v]
<1>1. v \in Nat /\ [row EXCEPT !.rowVersion = @ + 1] = r
  BY DEF Row
<1> HIDE DEF v
<1>2. /\ r \in Row /\ Stands(r, row) /\ r.status = row.status
      /\ r.winningBidId = row.winningBidId /\ r.winnerUserId = row.winnerUserId
      /\ r.endedAt = row.endedAt
  BY <1>1 DEF Row, Stands
<1>3. QED
  BY <1>1, <1>2

\* A write of the seller's desk goes to the auction its call names.
LEMMA DeskWriteIs ==
  ASSUME Inv, NEW k, NEW row \in Row, NEW log, NEW told, WriteRow(k, row, log),
         notifications' = notifications \cup told
  PROVE  \E r : /\ Wrote(desk[k].auctionId, r, log, told)
                /\ Stands(r, row) /\ r.status = row.status
                /\ r.winningBidId = row.winningBidId /\ r.winnerUserId = row.winnerUserId
                /\ r.endedAt = row.endedAt
<1> DEFINE r == [row EXCEPT !.rowVersion = @ + 1]
<1>1. /\ r \in Row /\ Stands(r, row) /\ r.status = row.status
      /\ r.winningBidId = row.winningBidId /\ r.winnerUserId = row.winnerUserId
      /\ r.endedAt = row.endedAt
  BY Bumped
<1>2. /\ auction' = [auction EXCEPT ![desk[k].auctionId] = r]
      /\ events' = [events EXCEPT ![desk[k].auctionId] = @ \o log]
      /\ UNCHANGED <<bids, extensions, announced>>
  BY DEF WriteRow
<1> HIDE DEF r
<1>3. Wrote(desk[k].auctionId, r, log, told)
  BY <1>1, <1>2 DEF Wrote
<1>4. QED
  BY <1>1, <1>3

\* publish is one kind of write.
LEMMA PublishIsKind ==
  ASSUME Inv, NEW k \in DeskCalls, Publish(k)
  PROVE  \E a \in Auctions : \E r : Publishes(a, r)
<1> DEFINE a == desk[k].auctionId
<1> DEFINE old == auction[a]
<1> DEFINE at == desk[k].row.scheduledStartAt <= desk[k].now
<1>1. a \in Auctions /\ old.status = "DRAFT" /\ old \in Row /\ desk[k].now \in NatOrNull
  BY DEF Publish, Writing, PublishGuard, Inv, DeskOK, TypeOK, StoreTypeOK, DeskTypeOK,
     DeskCall, NatOrNull
<1>2. PICK status \in {"ACTIVE", "SCHEDULED"}, started \in NatOrNull :
        WriteRow(k, [old EXCEPT !.status = status, !.startedAt = started],
                 IF status = "ACTIVE" THEN <<"PUBLISHED", "STARTED">> ELSE <<"PUBLISHED">>)
  <2>1. CASE at
    BY <1>1, <2>1 DEF Publish
  <2>2. CASE ~at
    BY <1>1, <2>2 DEF Publish, NatOrNull
  <2>3. QED
    BY <2>1, <2>2
<1> DEFINE row == [old EXCEPT !.status = status, !.startedAt = started]
<1>3. /\ row \in Row /\ row.status = status /\ Stands(row, old)
      /\ row.winningBidId = old.winningBidId
  BY <1>1 DEF Row, Status, Stands
<1>4. notifications' = notifications \cup {}
  BY DEF Publish
<1> HIDE DEF row
<1>5. WriteRow(k, row, IF status = "ACTIVE" THEN <<"PUBLISHED", "STARTED">>
                                            ELSE <<"PUBLISHED">>)
  BY <1>2 DEF row
<1>6. PICK r : /\ Wrote(a, r, IF status = "ACTIVE" THEN <<"PUBLISHED", "STARTED">>
                                                   ELSE <<"PUBLISHED">>, {})
               /\ Stands(r, row) /\ r.status = row.status
               /\ r.winningBidId = row.winningBidId
  BY <1>3, <1>4, <1>5, DeskWriteIs
<1>7. Publishes(a, r)
  BY <1>1, <1>3, <1>6 DEF Publishes, Stands
<1>8. QED
  BY <1>1, <1>7

\* An edit rewrites a draft.
LEMMA EditIsKind ==
  ASSUME Inv, NEW k \in DeskCalls, UpdateOwnAuction(k)
  PROVE  \E a \in Auctions : \E r : Rewrites(a, r)
<1> DEFINE a == desk[k].auctionId
<1> DEFINE old == auction[a]
<1> DEFINE row == EditedRow(k)
<1>1. desk[k].pc = "write" /\ desk[k].op = "edit" /\ SellerGuard(k) /\ DeskOK(k)
  BY DEF UpdateOwnAuction, Writing, Inv
<1>2. /\ a \in Auctions /\ desk[k].draft \in Drafts /\ old \in Row
      /\ old.status \in {"DRAFT", "SCHEDULED"}
  BY <1>1 DEF SellerGuard, DeskOK, Inv, TypeOK, StoreTypeOK
<1>3. Edited(row, old)
  BY <1>2, ContentsTyped DEF EditedRow
<1>4. /\ row.extensionCount = old.extensionCount
      /\ old.currentEndAt = old.originalEndAt => row.currentEndAt = row.originalEndAt
  <2> DEFINE d == desk[k].draft
  <2> DEFINE sent == desk[k].sent
  <2>1. row = WithContents(old, d, sent)
    BY DEF EditedRow
  <2> HIDE DEF d, sent, row, old
  <2>2. CASE "scheduledEndAt" \in sent
    BY <1>2, <2>1, <2>2 DEF WithContents, Row
  <2>3. CASE "scheduledEndAt" \notin sent
    BY <1>2, <2>1, <2>3 DEF WithContents, Row
  <2>4. QED
    BY <2>2, <2>3
<1> DEFINE log == <<>>
<1>5. WriteRow(k, row, log) /\ notifications' = notifications \cup {}
  BY DEF UpdateOwnAuction
<1> HIDE DEF row, log
<1>6. row \in Row /\ row.status = old.status /\ row.winningBidId = old.winningBidId
  BY <1>3 DEF Edited
<1>7. PICK r : /\ Wrote(a, r, log, {}) /\ Stands(r, row) /\ r.status = row.status
               /\ r.winningBidId = row.winningBidId
  BY <1>5, <1>6, DeskWriteIs
<1>8. Rewrites(a, r)
  BY <1>2, <1>4, <1>6, <1>7 DEF Rewrites, Stands, log
<1>9. QED
  BY <1>2, <1>8

\* A change of pictures leaves the rest of the row.
LEMMA PicturesAreKind ==
  ASSUME Inv, NEW k \in DeskCalls, AddDraftImage(k) \/ RemoveDraftImage(k)
  PROVE  \E a \in Auctions : \E r : Pictures(a, r)
<1> DEFINE a == desk[k].auctionId
<1> DEFINE old == auction[a]
<1>1. a \in Auctions /\ old \in Row /\ old.images \in Nat
  BY DEF AddDraftImage, RemoveDraftImage, Writing, Inv, DeskOK, TypeOK, StoreTypeOK, Row
<1>2. PICK n \in Nat : WriteRow(k, [old EXCEPT !.images = n], <<>>)
  <2>1. CASE AddDraftImage(k)
    <3>1. WriteRow(k, [old EXCEPT !.images = old.images + 1], <<>>) /\ old.images + 1 \in Nat
      BY <1>1, <2>1 DEF AddDraftImage
    <3>2. QED
      BY <3>1
  <2>2. CASE RemoveDraftImage(k)
    <3>1. WriteRow(k, [old EXCEPT !.images = old.images - 1], <<>>) /\ old.images - 1 \in Nat
      BY <1>1, <2>2 DEF RemoveDraftImage
    <3>2. QED
      BY <3>1
  <2>3. QED
    BY <2>1, <2>2
<1> DEFINE row == [old EXCEPT !.images = n]
<1>3. /\ row \in Row /\ row.status = old.status /\ Stands(row, old)
      /\ row.winningBidId = old.winningBidId /\ row.winnerUserId = old.winnerUserId
      /\ row.endedAt = old.endedAt
  BY <1>1 DEF Row, Stands
<1> DEFINE log == <<>>
<1>4. WriteRow(k, row, log) /\ notifications' = notifications \cup {}
  BY <1>2 DEF AddDraftImage, RemoveDraftImage
<1> HIDE DEF row, log
<1>5. PICK r : /\ Wrote(a, r, log, {}) /\ Stands(r, row) /\ r.status = row.status
               /\ r.winningBidId = row.winningBidId /\ r.winnerUserId = row.winnerUserId
               /\ r.endedAt = row.endedAt
  <2>1. row \in Row
    BY <1>3
  <2>2. QED
    BY <1>4, <2>1, DeskWriteIs
<1>6. Pictures(a, r)
  BY <1>3, <1>5 DEF Pictures, Stands, log
<1>7. QED
  BY <1>1, <1>6

\* A cancellation, with the people it tells.
LEMMA CancelIsKind ==
  ASSUME Inv, NEW k \in DeskCalls, Cancel(k)
  PROVE  /\ desk[k].auctionId \in Auctions
         /\ \E r, told :
              /\ Cancels(desk[k].auctionId, r, told)
              /\ CancelNotifications(k) =
                   {Notification("AUCTION_CANCELLED", desk[k].auctionId, u, 0) : u \in told}
<1> DEFINE a == desk[k].auctionId
<1> DEFINE old == auction[a]
<1> DEFINE row == [old EXCEPT !.status = "CANCELLED", !.endedAt = desk[k].now]
<1> DEFINE told == IF desk[k].op = "cancel"
                   THEN findAuctionAudience(a, {SellerOf[a]})
                   ELSE findAuctionAudience(a, {}) \cup {SellerOf[a]}
<1>1. /\ desk[k].pc = "write" /\ CancelGuard(k) /\ DeskOK(k)
      /\ WriteRow(k, row, <<"CANCELLED">>)
      /\ notifications' = notifications \cup CancelNotifications(k)
  BY DEF Cancel, Inv
<1>2. a \in Auctions /\ old.status \in {"DRAFT", "SCHEDULED", "ACTIVE"}
  BY <1>1 DEF CancelGuard, SellerGuard, DeskOK, CANCELLABLE_BY_ADMIN
<1>3. old \in Row /\ desk[k].now \in NatOrNull
  BY <1>2 DEF Inv, TypeOK, StoreTypeOK, DeskTypeOK, DeskCall, NatOrNull
<1>4. /\ row \in Row /\ row.status = "CANCELLED" /\ Stands(row, old)
      /\ row.winningBidId = old.winningBidId
  BY <1>3 DEF Row, Status, Stands
<1>5. CancelNotifications(k) = {Notification("AUCTION_CANCELLED", a, u, 0) : u \in told}
  BY DEF CancelNotifications
<1>6. \/ told = findAuctionAudience(a, {SellerOf[a]})
      \/ told = findAuctionAudience(a, {}) \cup {SellerOf[a]}
  OBVIOUS
<1> HIDE DEF row, told
<1>7. PICK r : /\ Wrote(a, r, <<"CANCELLED">>, CancelNotifications(k))
               /\ Stands(r, row) /\ r.status = row.status
               /\ r.winningBidId = row.winningBidId
  BY <1>1, <1>4, DeskWriteIs
<1>8. Cancels(a, r, told)
  BY <1>2, <1>4, <1>5, <1>6, <1>7 DEF Cancels, Stands
<1>9. QED
  BY <1>2, <1>5, <1>8

\* The timer opens a due auction and announces it.
LEMMA StartIsKind ==
  ASSUME Inv, StartAuction
  PROVE  \E d \in pass.due : \E r :
           /\ d.auctionId \in Auctions
           /\ Opens(d.auctionId, r)
           /\ pass' = [pass EXCEPT
                !.pc = "announce", !.due = @ \ {d},
                !.out = {RoomMessage("auction:started", d.auctionId, 0, d.endsAt)}]
<1>0. /\ pass \in Pass /\ pass.now \in Nat /\ pass.due \in SUBSET DueAuction
      /\ auction \in [Auctions -> Row] /\ events \in [Auctions -> Seq(EventType)]
  BY DEF Inv, TypeOK, LifecycleTypeOK, StoreTypeOK, Pass
<1>1. PICK d \in pass.due :
        LET a == d.auctionId
        IN  /\ StartGuard(auction[a], pass.now)
            /\ auction' = [auction EXCEPT ![a].status = "ACTIVE",
                                          ![a].startedAt = pass.now,
                                          ![a].rowVersion = @ + 1]
            /\ events' = [events EXCEPT ![a] = Append(@, "STARTED")]
            /\ pass' = [pass EXCEPT
                 !.pc = "announce",
                 !.due = @ \ {d},
                 !.out = {RoomMessage("auction:started", a, 0, d.endsAt)}]
  BY DEF StartAuction
<1> DEFINE a == d.auctionId
<1> DEFINE old == auction[a]
<1> DEFINE v == old.rowVersion + 1
<1> DEFINE r == [old EXCEPT !.status = "ACTIVE", !.startedAt = pass.now, !.rowVersion = v]
<1>2. a \in Auctions
  BY <1>0 DEF DueAuction
<1>3. old \in Row /\ v \in Nat /\ old.status = "SCHEDULED"
  <2>1. old \in Row /\ old.status = "SCHEDULED"
    BY <1>0, <1>1, <1>2 DEF StartGuard
  <2>2. old.rowVersion \in Nat
    BY <2>1 DEF Row
  <2>3. QED
    BY <2>1, <2>2
<1>4. auction' = [auction EXCEPT ![a] = r]
  BY <1>0, <1>1, <1>2, <1>3
<1>5. /\ r \in Row /\ r.status = "ACTIVE" /\ Stands(r, old)
      /\ r.winningBidId = old.winningBidId
  <2> HIDE DEF v, old
  <2>1. QED
    BY <1>0, <1>3 DEF Row, Status, NatOrNull, Stands
<1> HIDE DEF r
<1>6. events' = [events EXCEPT ![a] = @ \o <<"STARTED">>]
  <2>1. events[a] \in Seq(EventType) /\ "STARTED" \in EventType
    BY <1>0, <1>2 DEF EventType
  <2>2. Append(events[a], "STARTED") = events[a] \o <<"STARTED">>
    BY <2>1, AppendIsConcat
  <2>3. QED
    BY <1>1, <2>2
<1>7. UNCHANGED <<bids, extensions, notifications, announced>>
  BY DEF StartAuction
<1>8. Opens(a, r)
  BY <1>3, <1>4, <1>5, <1>6, <1>7 DEF Opens, Wrote
<1>9. QED
  BY <1>1, <1>2, <1>8

\* A settlement closes an auction.
LEMMA SettleIsKind ==
  ASSUME Inv, NEW s \in Settlers, SettleWrite(s)
  PROVE  LET a == settling[s].auctionId
             r == RowAfterSettlement(a, s)
         IN  a \in Auctions /\ Settles(a, r)
<1> DEFINE a == settling[s].auctionId
<1> DEFINE r == RowAfterSettlement(a, s)
<1>1. /\ settling[s].pc = "write" /\ SettleGuard(auction[a])
      /\ auction' = [auction EXCEPT ![a] = r]
      /\ events' = [events EXCEPT ![a] = Append(@, "ENDED")]
      /\ notifications' = notifications \cup SettlementNotifications(a, r)
      /\ UNCHANGED <<now, bids, extensions, announced>>
  BY DEF SettleWrite
<1>2. a \in Auctions /\ Replaces(a, r)
  BY <1>1, SettledRowReplaces
<1>3. auction[a] \in Row /\ auction[a].status = "ACTIVE"
  BY <1>1, <1>2 DEF Inv, TypeOK, StoreTypeOK, SettleGuard
<1>4. r.status \in Settled /\ Stands(r, auction[a])
  BY <1>3 DEF RowAfterSettlement, Row, Stands, Settled
<1> HIDE DEF r
<1>5. events' = [events EXCEPT ![a] = @ \o <<"ENDED">>]
  <2>1. events[a] \in Seq(EventType) /\ "ENDED" \in EventType
    BY <1>2 DEF EventType, Inv, TypeOK, StoreTypeOK
  <2>2. Append(events[a], "ENDED") = events[a] \o <<"ENDED">>
    BY <2>1, AppendIsConcat
  <2>3. QED
    BY <1>1, <2>2
<1>6. Settles(a, r)
  BY <1>1, <1>2, <1>3, <1>4, <1>5 DEF Settles, Wrote, Replaces
<1>7. QED
  BY <1>2, <1>6 DEF r
\* The bid is judged and written over the same row, so what was read is what
\* stands when it commits.
LEMMA AcceptIsKind ==
  ASSUME Inv, NEW c \in Calls, AcceptBid(c)
  PROVE  LET a == calls[c].req.auctionId
         IN  a \in Auctions /\ calls[c].req \in Inputs /\ Accepts(a, auction'[a], NewBid(c))
<1> DEFINE req == calls[c].req
<1> DEFINE a == req.auctionId
<1> DEFINE old == auction[a]
<1> DEFINE n == Len(bids[a]) + 1
<1> DEFINE extends == calculateAntiSniping(calls[c].row, calls[c].now)
<1> DEFINE end == ExtendedEnd(calls[c].row)
<1> DEFINE r == RowAfterBid(old, req.amount, extends, end)
<1> DEFINE bid == NewBid(c)
<1>1. /\ calls[c].pc = "write" /\ BidGuard(old, c) /\ NothingRecorded(c)
      /\ auction' = [auction EXCEPT ![a] = r]
      /\ bids' = [bids EXCEPT ![a] = Append(@, bid)]
      /\ extensions' = [extensions EXCEPT
           ![a] = IF extends THEN Append(@, NewExtension(c, n)) ELSE @]
      /\ events' = [events EXCEPT
           ![a] = IF extends THEN @ \o <<"BID_PLACED", "EXTENDED">>
                             ELSE Append(@, "BID_PLACED")]
      /\ notifications' = notifications \cup
           OutbidNotifications(a, MinterOf[req.clientRequestId], n)
      /\ announced' = announced
  BY DEF AcceptBid
<1>2. /\ calls \in [Calls -> Call] /\ auction \in [Auctions -> Row] /\ CallOK(c)
      /\ extensions \in [Auctions -> Seq(Extension)]
      /\ events \in [Auctions -> Seq(EventType)]
  BY DEF Inv, TypeOK, BiddingTypeOK, StoreTypeOK
<1>3. /\ req \in Inputs /\ a \in Auctions /\ req.amount \in Nat
      /\ req.clientRequestId \in Requests
      /\ MinterOf[req.clientRequestId] \in Users
  <2>1. req \in Inputs
    BY <1>1, <1>2 DEF CallOK
  <2>2. QED
    BY <2>1, BiddingAssumption
<1>4. old = calls[c].row /\ ~BidRefused(old, c)
  BY <1>1, <1>2 DEF CallOK, BidGuard
<1>5. old \in Row /\ calls[c].now \in Nat /\ old.currentEndAt \in NatOrNull
      /\ old.extensionCount \in Nat /\ old.bidCount \in Nat
  BY <1>2, <1>3 DEF Row, Call
<1>6. /\ old.status = "ACTIVE" /\ old.currentEndAt \in Nat
      /\ calls[c].now < old.currentEndAt
  BY <1>1, <1>5 DEF BidGuard, NatOrNull
<1>7. SellerOf[a] # MinterOf[req.clientRequestId] /\ req.amount >= calculateMinimumBid(old)
  <2>1. calculateMinimumBid(old) \in Nat
    BY <1>5 DEF calculateMinimumBid, Row
  <2>2. QED
    BY <1>3, <1>4, <2>1 DEF BidRefused
<1>8. /\ bid \in Bid /\ bid.amount = req.amount /\ bid.placedAt = calls[c].now
      /\ bid.bidderId = MinterOf[req.clientRequestId]
      /\ bid.clientRequestId = req.clientRequestId
  BY <1>3, <1>4, <1>5 DEF NewBid, Bid
<1>9. extends \in BOOLEAN /\ end \in Nat /\ end = old.currentEndAt + ANTI_SNIPING_EXTENSION
  BY <1>4, <1>6, RulesAssumption DEF calculateAntiSniping, ExtendedEnd
<1>10. /\ r \in Row /\ r.status = old.status
       /\ r.startingPrice = old.startingPrice /\ r.minBidIncrement = old.minBidIncrement
       /\ r.reservePrice = old.reservePrice /\ r.winningBidId = old.winningBidId
       /\ r.originalEndAt = old.originalEndAt
       /\ r.currentEndAt = IF extends THEN end ELSE old.currentEndAt
       /\ r.extensionCount = IF extends THEN old.extensionCount + 1 ELSE old.extensionCount
  <2> HIDE DEF old, req, extends, end
  <2>1. BidMoved(r, old, req.amount)
    BY <1>3, <1>5, <1>9, RowAfterBidTyped
  <2>2. /\ r.originalEndAt = old.originalEndAt
        /\ r.currentEndAt = IF extends THEN end ELSE old.currentEndAt
        /\ r.extensionCount = IF extends THEN old.extensionCount + 1 ELSE old.extensionCount
    BY <1>5 DEF RowAfterBid, Row
  <2>3. QED
    BY <2>1, <2>2 DEF BidMoved
<1>11. auction'[a] = r
  BY <1>1, <1>2, <1>3
<1>12. NotExtended(a, r) \/ Extended(a, n, bid.placedAt, r)
  <2>1. CASE extends
    <3>1. /\ old.extensionCount < MAX_EXTENSIONS
          /\ old.currentEndAt <= calls[c].now + ANTI_SNIPING_WINDOW
      BY <1>4, <2>1 DEF calculateAntiSniping
    <3>2. NewExtension(c, n) = [triggeredByBidId |-> n,
                                extensionNumber |-> old.extensionCount + 1,
                                previousEndAt |-> old.currentEndAt,
                                newEndAt |-> end]
      BY <1>4 DEF NewExtension
    <3>3. /\ extensions' = [extensions EXCEPT ![a] = Append(@, NewExtension(c, n))]
          /\ events' = [events EXCEPT ![a] = @ \o <<"BID_PLACED", "EXTENDED">>]
      BY <1>1, <2>1
    <3> HIDE DEF r, end, bid, extends, n
    <3>4. QED
      BY <1>8, <1>9, <1>10, <2>1, <3>1, <3>2, <3>3 DEF Extended
  <2>2. CASE ~extends
    <3>1. extensions' = [extensions EXCEPT ![a] = @]
      BY <1>1, <2>2
    <3>2. extensions' = extensions
      BY <1>2, <1>3, <3>1
    <3>3. events[a] \in Seq(EventType) /\ "BID_PLACED" \in EventType
      BY <1>2, <1>3 DEF EventType
    <3>4. Append(events[a], "BID_PLACED") = events[a] \o <<"BID_PLACED">>
      BY <3>3, AppendIsConcat
    <3>5. events' = [events EXCEPT ![a] = @ \o <<"BID_PLACED">>]
      BY <1>1, <2>2, <3>4
    <3> HIDE DEF r, end, bid, extends, n
    <3>6. QED
      BY <1>10, <2>2, <3>2, <3>5 DEF NotExtended
  <2>3. QED
    BY <2>1, <2>2
<1>13. FindByRequest(bid.clientRequestId) = {}
  BY <1>1, <1>8 DEF NothingRecorded
<1> HIDE DEF r, bid, extends, end
<1>14. Accepts(a, r, bid)
  BY <1>1, <1>6, <1>7, <1>8, <1>10, <1>12, <1>13 DEF Accepts
<1>15. QED
  BY <1>3, <1>11, <1>14 DEF bid

\* Every step leaves the record alone or is a write of one kind to one auction.
LEMMA StepKinds ==
  ASSUME Inv, [Next]_vars
  PROVE  \/ Quiet
         \/ \E a \in Auctions : \E r :
              \/ Creates(a, r) \/ Rewrites(a, r) \/ Publishes(a, r) \/ Opens(a, r)
              \/ Pictures(a, r) \/ (\E told : Cancels(a, r, told)) \/ Settles(a, r)
              \/ \E bid : Accepts(a, r, bid)
<1> DEFINE Goal == \/ Quiet
                   \/ \E a \in Auctions : \E r :
                        \/ Creates(a, r) \/ Rewrites(a, r) \/ Publishes(a, r) \/ Opens(a, r)
                        \/ Pictures(a, r) \/ (\E told : Cancels(a, r, told)) \/ Settles(a, r)
                        \/ \E bid : Accepts(a, r, bid)
<1>1. ASSUME UNCHANGED storeVars PROVE Quiet
  BY <1>1 DEF storeVars, Quiet
<1>2. ASSUME NEW m, Emit(m) PROVE Quiet
  BY <1>2 DEF Emit, Quiet
<1>3. CASE ClockStep
  BY <1>3 DEF ClockStep, Tick, Quiet
<1>4. ASSUME NEW c \in Calls, BidderStep(c) PROVE Goal
  BY <1>1, <1>2, <1>4, AcceptIsKind DEF BidderStep, BiddingStep, ReceiveBid, LookupRequest,
     ReadAuction, CollideOnRequest, LoseRace, AnswerLostRace, AnnounceBid
<1>5. ASSUME NEW s \in Settlers, FindPublicAuction(s) \/ SettlementStep(s)
      PROVE  Goal
  BY <1>1, <1>2, <1>5, SettleIsKind DEF FindPublicAuction, SettlementStep, SettleRead,
     SettleDecide, SettleLost, SettleAnnounce
<1>6. ASSUME NEW r \in Readers, ReaderStep(r) PROVE Goal
  BY <1>5, <1>6 DEF ReaderStep, Settlers
<1>7. CASE TimerStep
  <2>1. Timer \in Settlers
    BY DEF Settlers
  <2>2. CASE StartAuction
    BY <2>2, StartIsKind
  <2>3. CASE SettlementStep(Timer)
    BY <1>5, <2>1, <2>3
  <2>4. CASE BeginPass \/ SkipStart \/ BeginSettling \/ SettleNext \/ EndPass
    BY <1>1, <2>4 DEF BeginPass, SkipStart, BeginSettling, SettleNext, EndPass
  <2>5. CASE AnnounceStart
    BY <1>2, <2>5 DEF AnnounceStart
  <2>6. QED
    BY <1>7, <2>2, <2>3, <2>4, <2>5 DEF TimerStep, LifecycleStep
<1>8. CASE SellerStep
  <2>1. ASSUME NEW a \in Auctions, CreateDraft(a) PROVE Goal
    BY <2>1, CreateIsKind
  <2>2. ASSUME NEW k \in DeskCalls, DeskStep(k) PROVE Goal
    <3>1. CASE Begin(k) \/ Refuse(k) \/ AnnounceCancel(k)
      BY <1>1, <1>2, <3>1 DEF Begin, Refuse, AnnounceCancel
    <3>2. CASE Publish(k)
      BY <3>2, PublishIsKind
    <3>3. CASE UpdateOwnAuction(k)
      BY <3>3, EditIsKind
    <3>4. CASE Cancel(k)
      BY <3>4, CancelIsKind
    <3>5. CASE AddDraftImage(k) \/ RemoveDraftImage(k)
      BY <3>5, PicturesAreKind
    <3>6. QED
      BY <2>2, <3>1, <3>2, <3>3, <3>4, <3>5 DEF DeskStep
  <2>3. QED
    BY <1>8, <2>1, <2>2 DEF SellerStep
<1>9. CASE PassFailure \/ Crash \/ UNCHANGED vars
  BY <1>1, <1>9 DEF PassFailure, PassFails, Crash, vars
<1>10. QED
  BY <1>3, <1>4, <1>6, <1>7, <1>8, <1>9 DEF Next

-----------------------------------------------------------------------------
(***************************************************************************)
(* What a write leaves alone                                               *)
(***************************************************************************)
\* One write: the row it names, its log, and nothing else.
LEMMA WroteAt ==
  ASSUME Inv, NEW a \in Auctions, NEW r, NEW log, NEW told, Wrote(a, r, log, told)
  PROVE  /\ auction'[a] = r /\ events'[a] = events[a] \o log
         /\ bids' = bids /\ extensions' = extensions
         /\ \A x \in Auctions \ {a} : auction'[x] = auction[x] /\ events'[x] = events[x]
BY DEF Wrote, Inv, TypeOK, StoreTypeOK

\* What an accepted bid does to the row it is on.
LEMMA AcceptsAt ==
  ASSUME Inv, NEW a \in Auctions, NEW r, NEW bid, Accepts(a, r, bid)
  PROVE  /\ auction'[a] = r /\ bids'[a] = Append(bids[a], bid)
         /\ bids[a] \in Seq(Bid) /\ bids'[a] \in Seq(Bid)
         /\ Len(bids'[a]) = Len(bids[a]) + 1 /\ Len(bids[a]) \in Nat
         /\ DOMAIN bids[a] = 1 .. Len(bids[a])
         /\ DOMAIN bids'[a] = 1 .. (Len(bids[a]) + 1)
         /\ bids'[a][Len(bids[a]) + 1] = bid
         /\ \A i \in DOMAIN bids[a] : bids'[a][i] = bids[a][i]
         /\ \A x \in Auctions \ {a} : /\ auction'[x] = auction[x] /\ bids'[x] = bids[x]
                                      /\ extensions'[x] = extensions[x]
                                      /\ events'[x] = events[x]
<1>1. /\ auction \in [Auctions -> Row] /\ bids \in [Auctions -> Seq(Bid)]
      /\ extensions \in [Auctions -> Seq(Extension)]
      /\ events \in [Auctions -> Seq(EventType)]
  BY DEF Inv, TypeOK, StoreTypeOK
<1>2. auction'[a] = r /\ bids'[a] = Append(bids[a], bid) /\ bid \in Bid
  BY <1>1 DEF Accepts
<1>3. \A x \in Auctions \ {a} : auction'[x] = auction[x] /\ bids'[x] = bids[x]
  BY <1>1 DEF Accepts
<1>4. \A x \in Auctions \ {a} : extensions'[x] = extensions[x] /\ events'[x] = events[x]
  BY <1>1 DEF Accepts, NotExtended, Extended
<1>5. /\ bids[a] \in Seq(Bid) /\ Append(bids[a], bid) \in Seq(Bid)
      /\ Len(Append(bids[a], bid)) = Len(bids[a]) + 1 /\ Len(bids[a]) \in Nat
      /\ Append(bids[a], bid)[Len(bids[a]) + 1] = bid
      /\ \A i \in 1 .. Len(bids[a]) : Append(bids[a], bid)[i] = bids[a][i]
  BY <1>1, <1>2, AppendProperties
<1>6. QED
  BY <1>2, <1>3, <1>4, <1>5

-----------------------------------------------------------------------------
(***************************************************************************)
(* The deadline                                                            *)
(***************************************************************************)

\* DeadlineEarned of one auction.
DeadlineOf(row, x, b) ==
  /\ row.extensionCount = Len(x)
  /\ Len(x) <= MAX_EXTENSIONS
  /\ \A i \in DOMAIN x :
       /\ x[i].extensionNumber = i
       /\ x[i].previousEndAt = IF i = 1 THEN row.originalEndAt ELSE x[i - 1].newEndAt
       /\ x[i].newEndAt = x[i].previousEndAt + ANTI_SNIPING_EXTENSION
       /\ x[i].triggeredByBidId \in DOMAIN b
       /\ LET t == b[x[i].triggeredByBidId].placedAt
          IN  t < x[i].previousEndAt /\ x[i].previousEndAt <= t + ANTI_SNIPING_WINDOW
       /\ \A j \in DOMAIN x : i < j => x[i].triggeredByBidId < x[j].triggeredByBidId
  /\ row.currentEndAt = IF x = <<>> THEN row.originalEndAt ELSE x[Len(x)].newEndAt

\* Before an auction opens nothing has been extended.
NotYetExtended ==
  \A a \in Auctions :
    auction[a].status \in {"NONE", "DRAFT", "SCHEDULED"} => extensions[a] = <<>>

\* Deadlines may be looked at one auction at a time.
LEMMA DeadlineEach ==
  DeadlineEarned <=> \A a \in Auctions : DeadlineOf(auction[a], extensions[a], bids[a])
BY DEF DeadlineEarned, DeadlineOf

\* A row that keeps its end, its extensions and its ledger keeps its deadline.
LEMMA DeadlineStands ==
  ASSUME NEW row, NEW r, NEW x, NEW b, DeadlineOf(row, x, b), Stands(r, row)
  PROVE  DeadlineOf(r, x, b)
BY DEF DeadlineOf, Stands

\* An auction nobody has extended keeps the end it was published with.
LEMMA DeadlineUnextended ==
  ASSUME NEW row, NEW b, row.extensionCount = 0, row.currentEndAt = row.originalEndAt
  PROVE  DeadlineOf(row, <<>>, b)
BY RulesAssumption DEF DeadlineOf

\* The accepting write: the extension is measured from the end it moves.
LEMMA DeadlineAccepts ==
  ASSUME Inv, NEW a \in Auctions, NEW r, NEW bid, Accepts(a, r, bid),
         DeadlineOf(auction[a], extensions[a], bids[a])
  PROVE  DeadlineOf(r, extensions'[a], bids'[a])
<1> DEFINE old == auction[a]
<1> DEFINE x == extensions[a]
<1> DEFINE b == bids[a]
<1> DEFINE c == bids'[a]
<1> DEFINE n == Len(b) + 1
<1>1. /\ x \in Seq(Extension) /\ Len(x) \in Nat /\ DOMAIN x = 1 .. Len(x)
      /\ \A i \in DOMAIN x : x[i] \in Extension
  BY DEF Inv, TypeOK, StoreTypeOK
<1>2. /\ DOMAIN c = 1 .. n /\ DOMAIN b = 1 .. Len(b) /\ Len(b) \in Nat /\ c[n] = bid
      /\ \A i \in DOMAIN b : c[i] = b[i]
  BY AcceptsAt
<1>3. /\ r.originalEndAt = old.originalEndAt /\ old.currentEndAt \in Nat /\ bid \in Bid
      /\ bid.placedAt < old.currentEndAt
  BY DEF Accepts
<1>4. CASE NotExtended(a, r)
  <2>1. /\ r.currentEndAt = old.currentEndAt /\ r.extensionCount = old.extensionCount
        /\ extensions'[a] = x
    BY <1>4 DEF NotExtended
  <2> HIDE DEF x, b, c, n, old
  <2>2. \A i \in DOMAIN x : x[i].triggeredByBidId \in DOMAIN b =>
          /\ x[i].triggeredByBidId \in DOMAIN c
          /\ c[x[i].triggeredByBidId] = b[x[i].triggeredByBidId]
    BY <1>2 DEF n
  <2>3. DeadlineOf(r, x, c)
    BY <1>3, <2>1, <2>2 DEF DeadlineOf, x, b, old
  <2>4. QED
    BY <2>1, <2>3 DEF c
<1>5. CASE Extended(a, n, bid.placedAt, r)
  <2> DEFINE e == [triggeredByBidId |-> n, extensionNumber |-> old.extensionCount + 1,
                   previousEndAt |-> old.currentEndAt, newEndAt |-> r.currentEndAt]
  <2> DEFINE y == extensions'[a]
  <2> DEFINE m == Len(x) + 1
  <2>1. /\ old.extensionCount < MAX_EXTENSIONS
        /\ old.currentEndAt <= bid.placedAt + ANTI_SNIPING_WINDOW
        /\ r.currentEndAt = old.currentEndAt + ANTI_SNIPING_EXTENSION
        /\ r.extensionCount = old.extensionCount + 1
        /\ extensions' = [extensions EXCEPT ![a] = Append(@, e)]
    BY <1>5 DEF Extended
  <2>2. y = Append(x, e)
    BY <2>1 DEF Inv, TypeOK, StoreTypeOK
  <2>3. e \in Extension
    <3>1. old.extensionCount \in Nat
      BY DEF Inv, TypeOK, StoreTypeOK, Row
    <3>2. QED
      BY SMTT(60), <1>2, <1>3, <2>1, <3>1, RulesAssumption DEF Extension
  <2>4. /\ Len(y) = m /\ DOMAIN y = 1 .. m /\ y[m] = e
        /\ \A i \in 1 .. Len(x) : y[i] = x[i]
        /\ \A i \in 1 .. m : i = m \/ i \in 1 .. Len(x)
    BY <1>1, <2>2, <2>3, AppendProperties
  <2>5. /\ e.triggeredByBidId = n /\ e.extensionNumber = old.extensionCount + 1
        /\ e.previousEndAt = old.currentEndAt /\ e.newEndAt = r.currentEndAt
    OBVIOUS
  <2>6. /\ old.extensionCount = Len(x)
        /\ \A i \in 1 .. Len(x) :
             /\ x[i].extensionNumber = i
             /\ x[i].previousEndAt = IF i = 1 THEN old.originalEndAt ELSE x[i - 1].newEndAt
             /\ x[i].newEndAt = x[i].previousEndAt + ANTI_SNIPING_EXTENSION
             /\ x[i].triggeredByBidId \in DOMAIN b
             /\ b[x[i].triggeredByBidId].placedAt < x[i].previousEndAt
             /\ x[i].previousEndAt <= b[x[i].triggeredByBidId].placedAt + ANTI_SNIPING_WINDOW
             /\ \A j \in 1 .. Len(x) : i < j => x[i].triggeredByBidId < x[j].triggeredByBidId
        /\ old.currentEndAt = IF x = <<>> THEN old.originalEndAt ELSE x[Len(x)].newEndAt
    BY <1>1 DEF DeadlineOf
  <2>7. (x = <<>>) <=> (m = 1)
    BY <1>1
  <2>8. y # <<>>
    BY <1>1, <2>4
  <2> HIDE DEF e, y, m, x, b, c, n, old
  <2>9. m \in Nat /\ m = Len(x) + 1 /\ Len(x) \in Nat
    BY <1>1 DEF m
  <2>10. y[m].previousEndAt = IF m = 1 THEN r.originalEndAt ELSE y[m - 1].newEndAt
    <3>1. CASE m = 1
      BY <1>3, <2>4, <2>5, <2>6, <2>7, <3>1
    <3>2. CASE m # 1
      <4>1. Len(x) \in 1 .. Len(x) /\ m - 1 = Len(x)
        BY <2>9, <3>2
      <4>2. QED
        BY <2>4, <2>5, <2>6, <2>7, <3>2, <4>1
    <3>3. QED
      BY <3>1, <3>2
  <2>11. ASSUME NEW i \in 1 .. m
         PROVE  /\ y[i].extensionNumber = i
                /\ y[i].previousEndAt = IF i = 1 THEN r.originalEndAt ELSE y[i - 1].newEndAt
                /\ y[i].newEndAt = y[i].previousEndAt + ANTI_SNIPING_EXTENSION
                /\ y[i].triggeredByBidId \in DOMAIN c
                /\ c[y[i].triggeredByBidId].placedAt < y[i].previousEndAt
                /\ y[i].previousEndAt <= c[y[i].triggeredByBidId].placedAt
                                           + ANTI_SNIPING_WINDOW
    <3>1. CASE i = m
      <4>1. n \in DOMAIN c
        BY <1>2 DEF n
      <4>2. QED
        BY <1>2, <1>3, <2>1, <2>4, <2>5, <2>6, <2>9, <2>10, <3>1, <4>1
    <3>2. CASE i \in 1 .. Len(x)
      <4>1. y[i] = x[i] /\ (i # 1 => i - 1 \in 1 .. Len(x) /\ y[i - 1] = x[i - 1])
        BY <2>4, <2>9, <3>2
      <4>2. x[i].triggeredByBidId \in DOMAIN b
        BY <2>6, <3>2
      <4>3. /\ x[i].triggeredByBidId \in DOMAIN c
            /\ c[x[i].triggeredByBidId] = b[x[i].triggeredByBidId]
        BY <1>2, <4>2 DEF n
      <4>4. QED
        BY <1>3, <2>6, <3>2, <4>1, <4>3
    <3>3. QED
      BY <2>4, <3>1, <3>2
  <2>12. \A i, j \in 1 .. m : i < j => y[i].triggeredByBidId < y[j].triggeredByBidId
    <3> SUFFICES ASSUME NEW i \in 1 .. m, NEW j \in 1 .. m, i < j
                 PROVE  y[i].triggeredByBidId < y[j].triggeredByBidId
      OBVIOUS
    <3>1. i \in 1 .. Len(x) /\ y[i] = x[i]
      BY <2>4, <2>9
    <3>2. CASE j = m
      <4>1. x[i].triggeredByBidId \in DOMAIN b
        BY <2>6, <3>1
      <4>2. x[i].triggeredByBidId < n
        BY <1>2, <4>1 DEF n
      <4>3. QED
        BY <2>4, <2>5, <3>1, <3>2, <4>2
    <3>3. CASE j \in 1 .. Len(x)
      BY <2>4, <2>6, <3>1, <3>3
    <3>4. QED
      BY <2>4, <3>2, <3>3
  <2>13. Len(y) <= MAX_EXTENSIONS /\ r.extensionCount = Len(y)
    BY <2>1, <2>4, <2>6, <2>9, RulesAssumption
  <2>14. r.currentEndAt = y[Len(y)].newEndAt
    BY <2>4, <2>5
  <2>15. DeadlineOf(r, y, c)
    BY <2>4, <2>8, <2>11, <2>12, <2>13, <2>14 DEF DeadlineOf
  <2>16. QED
    BY <2>15 DEF y, c
<1>6. QED
  BY <1>4, <1>5 DEF Accepts

\* Every step keeps the deadlines earned.
LEMMA DeadlineStep ==
  ASSUME Inv, DeadlineEarned, NotYetExtended, [Next]_vars
  PROVE  DeadlineEarned' /\ NotYetExtended'
<1> DEFINE OK(x) == DeadlineOf(auction[x], extensions[x], bids[x])
<1> DEFINE Blank(x) ==
      auction[x].status \in {"NONE", "DRAFT", "SCHEDULED"} => extensions[x] = <<>>
<1>0. \A x \in Auctions : OK(x) /\ Blank(x)
  BY DeadlineEach DEF NotYetExtended
<1> SUFFICES \A x \in Auctions : OK(x)' /\ Blank(x)'
  BY DEF DeadlineEarned, DeadlineOf, NotYetExtended
<1>1. CASE Quiet
  BY <1>0, <1>1 DEF Quiet
<1>2. ASSUME NEW a \in Auctions, NEW r, NEW log, NEW told, Wrote(a, r, log, told),
             DeadlineOf(r, extensions[a], bids[a]),
             r.status \in {"NONE", "DRAFT", "SCHEDULED"} => extensions[a] = <<>>
      PROVE  \A x \in Auctions : OK(x)' /\ Blank(x)'
  <2>1. /\ auction'[a] = r /\ bids' = bids /\ extensions' = extensions
        /\ \A x \in Auctions \ {a} : auction'[x] = auction[x]
    BY <1>2, WroteAt
  <2>2. OK(a)' /\ Blank(a)'
    BY <1>2, <2>1
  <2>3. \A x \in Auctions \ {a} : OK(x)' /\ Blank(x)'
    BY <1>0, <2>1
  <2>4. QED
    BY <2>2, <2>3
<1>3. ASSUME NEW a \in Auctions, NEW r, Creates(a, r)
      PROVE  \A x \in Auctions : OK(x)' /\ Blank(x)'
  <2>1. extensions[a] = <<>> /\ r.extensionCount = 0 /\ r.currentEndAt = r.originalEndAt
        /\ Wrote(a, r, <<"CREATED">>, {})
    BY <1>0, <1>3 DEF Creates
  <2>2. DeadlineOf(r, extensions[a], bids[a])
    BY <2>1, DeadlineUnextended
  <2>3. QED
    BY <1>2, <2>1, <2>2
<1>4. ASSUME NEW a \in Auctions, NEW r, Rewrites(a, r)
      PROVE  \A x \in Auctions : OK(x)' /\ Blank(x)'
  <2>1. extensions[a] = <<>> /\ Wrote(a, r, <<>>, {})
    BY <1>0, <1>4 DEF Rewrites
  <2>2. /\ auction[a].extensionCount = 0
        /\ auction[a].currentEndAt = auction[a].originalEndAt
    BY <1>0, <2>1 DEF DeadlineOf
  <2>3. DeadlineOf(r, extensions[a], bids[a])
    BY <1>4, <2>1, <2>2, DeadlineUnextended DEF Rewrites
  <2>4. QED
    BY <1>2, <2>1, <2>3
<1>5. ASSUME NEW a \in Auctions, NEW r, NEW log, NEW told, Wrote(a, r, log, told),
             Stands(r, auction[a]),
             r.status \in {"NONE", "DRAFT", "SCHEDULED"} =>
               auction[a].status \in {"NONE", "DRAFT", "SCHEDULED"}
      PROVE  \A x \in Auctions : OK(x)' /\ Blank(x)'
  <2>1. DeadlineOf(r, extensions[a], bids[a])
    BY <1>0, <1>5, DeadlineStands
  <2>2. QED
    BY <1>0, <1>2, <1>5, <2>1
<1>6. ASSUME NEW a \in Auctions, NEW r,
             \/ Publishes(a, r) \/ Opens(a, r) \/ Pictures(a, r)
             \/ (\E told : Cancels(a, r, told)) \/ Settles(a, r)
      PROVE  \A x \in Auctions : OK(x)' /\ Blank(x)'
  <2>1. CASE Publishes(a, r)
    BY <1>5, <2>1 DEF Publishes
  <2>2. CASE Opens(a, r)
    BY <1>5, <2>2 DEF Opens
  <2>3. CASE Pictures(a, r)
    BY <1>5, <2>3 DEF Pictures
  <2>4. CASE \E told : Cancels(a, r, told)
    BY <1>5, <2>4 DEF Cancels
  <2>5. CASE Settles(a, r)
    BY <1>5, <2>5 DEF Settles, Settled
  <2>6. QED
    BY <1>6, <2>1, <2>2, <2>3, <2>4, <2>5
<1>7. ASSUME NEW a \in Auctions, NEW r, NEW bid, Accepts(a, r, bid)
      PROVE  \A x \in Auctions : OK(x)' /\ Blank(x)'
  <2>1. /\ auction'[a] = r
        /\ \A x \in Auctions \ {a} : /\ auction'[x] = auction[x] /\ bids'[x] = bids[x]
                                     /\ extensions'[x] = extensions[x]
    BY <1>7, AcceptsAt
  <2>2. OK(a)'
    BY <1>0, <1>7, <2>1, DeadlineAccepts
  <2>3. Blank(a)'
    BY <1>7, <2>1 DEF Accepts
  <2>4. \A x \in Auctions \ {a} : OK(x)' /\ Blank(x)'
    BY <1>0, <2>1
  <2>5. QED
    BY <2>2, <2>3, <2>4
<1> HIDE DEF OK, Blank
<1>8. QED
  BY <1>1, <1>3, <1>4, <1>6, <1>7, StepKinds

\* Deadlines are earned throughout.
LEMMA DeadlineHolds == Spec => [](DeadlineEarned /\ NotYetExtended)
<1>1. Init => DeadlineEarned /\ NotYetExtended
  <2> SUFFICES ASSUME Init PROVE DeadlineEarned /\ NotYetExtended
    OBVIOUS
  <2>1. \A a \in Auctions : auction[a] = NoRow /\ extensions[a] = <<>>
    BY DEF Init, StoreInit
  <2>2. \A a \in Auctions : DeadlineOf(auction[a], extensions[a], bids[a])
    BY <2>1, DeadlineUnextended DEF NoRow
  <2>3. QED
    BY <2>1, <2>2, DeadlineEach DEF NotYetExtended
<1>2. Inv /\ DeadlineEarned /\ NotYetExtended /\ [Next]_vars
        => DeadlineEarned' /\ NotYetExtended'
  BY DeadlineStep
<1>3. QED
  BY <1>1, <1>2, Invariance, PTL DEF Spec

\* Anti-sniping moves a deadline only by what bids inside the window earned,
\* one extension each and never past the cap, whatever row a bid was judged
\* by and however edits, settlements and crashes fall between.
THEOREM DeadlinesAreEarned == Spec => []DeadlineEarned
BY DeadlineHolds, PTL

-----------------------------------------------------------------------------
(***************************************************************************)
(* Who hears of a change of lead                                           *)
(***************************************************************************)
EndingType == {"AUCTION_WON", "AUCTION_ENDED", "AUCTION_CANCELLED"}

\* A write that is no bid tells people at most of an ending.
LEMMA WritesTellEndings ==
  ASSUME NEW a \in Auctions, NEW r,
         \/ Creates(a, r) \/ Rewrites(a, r) \/ Publishes(a, r) \/ Opens(a, r)
         \/ Pictures(a, r) \/ (\E told : Cancels(a, r, told)) \/ Settles(a, r)
  PROVE  \E log, told :
           /\ Wrote(a, r, log, told)
           /\ \A m \in told : m.event \in EndingType /\ m.auctionId = a
<1> DEFINE Goal == \E log, told :
                     /\ Wrote(a, r, log, told)
                     /\ \A m \in told : m.event \in EndingType /\ m.auctionId = a
<1>1. ASSUME NEW log, NEW told, Wrote(a, r, log, told),
             \A m \in told : m.event \in EndingType /\ m.auctionId = a
      PROVE  Goal
  BY <1>1
<1> HIDE DEF Goal
<1>2. ASSUME NEW log, Wrote(a, r, log, {}) PROVE Goal
  BY <1>1, <1>2
<1>3. CASE \/ Creates(a, r) \/ Rewrites(a, r) \/ Publishes(a, r) \/ Opens(a, r)
           \/ Pictures(a, r)
  BY <1>2, <1>3 DEF Creates, Rewrites, Publishes, Opens, Pictures
<1>4. ASSUME NEW told, Cancels(a, r, told) PROVE Goal
  <2> DEFINE sent == {Notification("AUCTION_CANCELLED", a, u, 0) : u \in told}
  <2>1. \A m \in sent : m.event \in EndingType /\ m.auctionId = a
    BY DEF Notification, EndingType
  <2>2. Wrote(a, r, <<"CANCELLED">>, sent)
    BY <1>4 DEF Cancels
  <2> HIDE DEF sent
  <2>3. QED
    BY <1>1, <2>1, <2>2
<1>5. CASE Settles(a, r)
  <2> DEFINE sent == SettlementNotifications(a, r)
  <2>1. \A m \in sent : m.event \in EndingType /\ m.auctionId = a
    BY DEF SettlementNotifications, Notification, EndingType
  <2>2. Wrote(a, r, <<"ENDED">>, sent)
    BY <1>5 DEF Settles
  <2> HIDE DEF sent
  <2>3. QED
    BY <1>1, <2>1, <2>2
<1>6. QED
  BY <1>3, <1>4, <1>5 DEF Goal

\* The changes of lead in a ledger, as OUTBID rows.
LeadChanges(a, b) ==
  {Notification("OUTBID", a, b[i - 1].bidderId, i) :
     i \in {j \in DOMAIN b : j > 1 /\ b[j - 1].bidderId # b[j].bidderId}}

\* The one made at position n + 1.
LeadChange(a, b, n) ==
  IF n # 0 /\ b[n].bidderId # b[n + 1].bidderId
  THEN {Notification("OUTBID", a, b[n].bidderId, n + 1)} ELSE {}

Outbids(a) == {m \in notifications : m.event = "OUTBID" /\ m.auctionId = a}

\* An appended bid adds the one change of lead it makes, if it makes any.
LEMMA LeadChangesGrow ==
  ASSUME NEW a, NEW b, NEW d, NEW n \in Nat, DOMAIN b = 1 .. n, DOMAIN d = 1 .. (n + 1),
         \A i \in 1 .. n : d[i] = b[i]
  PROVE  LeadChanges(a, d) = LeadChanges(a, b) \cup LeadChange(a, d, n)
<1> DEFINE J(s) == {j \in DOMAIN s : j > 1 /\ s[j - 1].bidderId # s[j].bidderId}
<1>1. J(b) \subseteq 1 .. n /\ J(d) \subseteq 1 .. (n + 1)
  OBVIOUS
<1>2. \A i \in 1 .. n : i > 1 => i - 1 \in 1 .. n /\ d[i - 1] = b[i - 1] /\ d[i] = b[i]
  OBVIOUS
<1>3. J(d) \ {n + 1} = J(b)
  BY <1>1, <1>2
<1>4. n + 1 \in J(d) <=> (n # 0 /\ d[n].bidderId # d[n + 1].bidderId)
  OBVIOUS
<1> HIDE DEF J
<1>5. n + 1 - 1 = n
  OBVIOUS
<1>6. \A i \in J(b) : d[i - 1] = b[i - 1]
  BY <1>2 DEF J
<1>7. /\ LeadChanges(a, d) = {Notification("OUTBID", a, d[i - 1].bidderId, i) : i \in J(d)}
      /\ LeadChanges(a, b) = {Notification("OUTBID", a, b[i - 1].bidderId, i) : i \in J(b)}
  BY DEF LeadChanges, J
<1>8. {Notification("OUTBID", a, b[i - 1].bidderId, i) : i \in J(b)}
        = {Notification("OUTBID", a, d[i - 1].bidderId, i) : i \in J(b)}
  BY <1>6
<1> DEFINE F(i) == Notification("OUTBID", a, d[i - 1].bidderId, i)
<1>9. F(n + 1) = Notification("OUTBID", a, d[n].bidderId, n + 1)
  BY <1>5
<1>10. CASE n + 1 \in J(d)
  <2>1. J(d) = J(b) \cup {n + 1}
    BY <1>3, <1>10
  <2>2. {F(i) : i \in J(d)} = {F(i) : i \in J(b)} \cup {F(n + 1)}
    BY <2>1
  <2>3. QED
    BY <1>4, <1>7, <1>8, <1>9, <1>10, <2>2 DEF LeadChange
<1>11. CASE n + 1 \notin J(d)
  BY <1>3, <1>4, <1>7, <1>8, <1>11 DEF LeadChange
<1>12. QED
  BY <1>10, <1>11

\* Every step tells of the lead it changes.
LEMMA LeadStep ==
  ASSUME Inv, LeadChangesTold, [Next]_vars
  PROVE  LeadChangesTold'
<1>0. \A x \in Auctions : Outbids(x) = LeadChanges(x, bids[x])
  BY DEF LeadChangesTold, Outbids, LeadChanges
<1> SUFFICES \A x \in Auctions : Outbids(x)' = LeadChanges(x, bids'[x])
  BY DEF LeadChangesTold, Outbids, LeadChanges
<1>1. CASE Quiet
  BY <1>0, <1>1 DEF Quiet, Outbids
<1>2. ASSUME NEW a \in Auctions, NEW r,
             \/ Creates(a, r) \/ Rewrites(a, r) \/ Publishes(a, r) \/ Opens(a, r)
             \/ Pictures(a, r) \/ (\E told : Cancels(a, r, told)) \/ Settles(a, r)
      PROVE  \A x \in Auctions : Outbids(x)' = LeadChanges(x, bids'[x])
  <2>1. PICK log, told : /\ Wrote(a, r, log, told)
                         /\ \A m \in told : m.event \in EndingType /\ m.auctionId = a
    BY <1>2, WritesTellEndings
  <2>2. bids' = bids /\ notifications' = notifications \cup told
    BY <2>1 DEF Wrote
  <2>3. \A x \in Auctions : Outbids(x)' = Outbids(x)
    BY <2>1, <2>2 DEF Outbids, EndingType
  <2>4. QED
    BY <1>0, <2>2, <2>3
<1>3. ASSUME NEW a \in Auctions, NEW r, NEW bid, Accepts(a, r, bid)
      PROVE  \A x \in Auctions : Outbids(x)' = LeadChanges(x, bids'[x])
  <2> DEFINE n == Len(bids[a])
  <2> DEFINE d == bids'[a]
  <2> DEFINE new == LeadChange(a, d, n)
  <2>1. /\ n \in Nat /\ DOMAIN bids[a] = 1 .. n /\ DOMAIN d = 1 .. (n + 1)
        /\ d[n + 1] = bid /\ \A i \in 1 .. n : d[i] = bids[a][i]
        /\ \A x \in Auctions \ {a} : bids'[x] = bids[x]
    BY <1>3, AcceptsAt
  <2>2. LeadingBid(bids[a]) = n
    BY LeadingBidIsLast DEF Inv, TypeOK
  <2>3. notifications' = notifications \cup OutbidNotifications(a, bid.bidderId, n + 1)
    BY <1>3 DEF Accepts
  <2>4. n # 0 => d[n] = bids[a][n]
    BY <2>1
  <2>5. OutbidNotifications(a, bid.bidderId, n + 1) = new
    BY <2>1, <2>2, <2>4 DEF OutbidNotifications, LeadChange
  <2>6. \A m \in new : m.event = "OUTBID" /\ m.auctionId = a
    BY DEF LeadChange, Notification
  <2> HIDE DEF n, d
  <2>7. LeadChanges(a, d) = LeadChanges(a, bids[a]) \cup new
    BY <2>1, LeadChangesGrow
  <2> HIDE DEF new
  <2>8. Outbids(a)' = Outbids(a) \cup new
    BY <2>3, <2>5, <2>6 DEF Outbids
  <2>9. \A x \in Auctions \ {a} : Outbids(x)' = Outbids(x)
    BY <2>3, <2>5, <2>6 DEF Outbids
  <2>10. QED
    BY <1>0, <2>1, <2>7, <2>8, <2>9 DEF d
<1>4. QED
  BY <1>1, <1>2, <1>3, StepKinds

\* Whatever races, retries and rollbacks lie between, the OUTBID rows are the
\* changes of lead in the ledger, no more and no fewer.
THEOREM LeadsAreTold == Spec => []LeadChangesTold
<1>1. Init => LeadChangesTold
  BY DEF Init, StoreInit, LeadChangesTold
<1>2. Inv /\ LeadChangesTold /\ [Next]_vars => LeadChangesTold'
  BY LeadStep
<1>3. QED
  BY <1>1, <1>2, Invariance, PTL DEF Spec

-----------------------------------------------------------------------------
(***************************************************************************)
(* Retries                                                                 *)
(***************************************************************************)

\* A request id stands for at most one bid.
OneBidEach == \A q \in Requests : \A x, y \in FindByRequest(q) : x = y

\* What a caller was told is the bid under their id, as they asked for it.
ToldTheirBid(c) ==
  LET call == calls[c]
  IN  /\ call.pc \notin {"announce", "done"} => call.answer.kind = "none"
      /\ call.answer.kind \in {"accepted", "replayed"} =>
           /\ call.answer.bid \in FindByRequest(call.req.clientRequestId)
           /\ call.answer.bid[1] = call.req.auctionId
           /\ bids[call.answer.bid[1]][call.answer.bid[2]].amount = call.req.amount

\* Nobody else was told what an accepted call was told.
ToldAlone(c) ==
  calls[c].answer.kind = "accepted" =>
    \A d \in Calls \ {c} : calls[d].answer # calls[c].answer

RetryInv ==
  /\ OneBidEach
  /\ \A c \in Calls : ToldTheirBid(c) /\ ToldAlone(c)

\* FindByRequest over given ledgers, so that it can be said of the next state.
FindIn(b, q) ==
  {x \in UNION {{a} \X (DOMAIN b[a]) : a \in Auctions} : b[x[1]][x[2]].clientRequestId = q}

\* What a search of the ledger by request finds.
LEMMA Found ==
  ASSUME NEW b, NEW q, NEW x
  PROVE  x \in FindIn(b, q) <=>
           \E a \in Auctions : \E i \in DOMAIN b[a] :
             x = <<a, i>> /\ b[a][i].clientRequestId = q
<1>1. \A a, i : <<a, i>>[1] = a /\ <<a, i>>[2] = i
  OBVIOUS
<1>2. ASSUME NEW a \in Auctions, NEW i \in DOMAIN b[a], x = <<a, i>>,
             b[a][i].clientRequestId = q
      PROVE  x \in FindIn(b, q)
  <2>1. x \in {a} \X (DOMAIN b[a])
    BY <1>2
  <2>2. x \in UNION {{c} \X (DOMAIN b[c]) : c \in Auctions}
    BY <2>1
  <2>3. b[x[1]][x[2]].clientRequestId = q
    BY <1>1, <1>2
  <2>4. QED
    BY <2>2, <2>3 DEF FindIn
<1>3. ASSUME x \in FindIn(b, q)
      PROVE  \E a \in Auctions : \E i \in DOMAIN b[a] :
               x = <<a, i>> /\ b[a][i].clientRequestId = q
  <2>1. /\ x \in UNION {{c} \X (DOMAIN b[c]) : c \in Auctions}
        /\ b[x[1]][x[2]].clientRequestId = q
    BY <1>3 DEF FindIn
  <2>2. PICK a \in Auctions : x \in {a} \X (DOMAIN b[a])
    BY <2>1
  <2>3. x[1] = a /\ x[2] \in DOMAIN b[a] /\ x = <<x[1], x[2]>>
    BY <2>2
  <2>4. QED
    BY <2>1, <2>3
<1>4. QED
  BY <1>2, <1>3

\* An accepted bid is found under its own id, and nothing else changes.
LEMMA FoundGrows ==
  ASSUME Inv, NEW a \in Auctions, NEW r, NEW bid, Accepts(a, r, bid)
  PROVE  /\ \A q, x : x \in FindByRequest(q) => x \in FindByRequest(q)'
         /\ \A q, x : x \in FindByRequest(q)' =>
              x \in FindByRequest(q) \/ (q = bid.clientRequestId /\ x = <<a, Len(bids[a]) + 1>>)
         /\ <<a, Len(bids[a]) + 1>> \in FindByRequest(bid.clientRequestId)'
         /\ \A q, x : x \in FindByRequest(q) =>
              x # <<a, Len(bids[a]) + 1>> /\ bids'[x[1]][x[2]] = bids[x[1]][x[2]]
<1> DEFINE n == Len(bids[a]) + 1
<1>1. /\ DOMAIN bids[a] = 1 .. Len(bids[a]) /\ DOMAIN bids'[a] = 1 .. n
      /\ Len(bids[a]) \in Nat /\ bids'[a][n] = bid
      /\ \A i \in DOMAIN bids[a] : bids'[a][i] = bids[a][i]
      /\ \A x \in Auctions \ {a} : bids'[x] = bids[x]
  BY AcceptsAt
<1>2. \A b \in Auctions : \A i \in DOMAIN bids[b] :
        i \in DOMAIN bids'[b] /\ bids'[b][i] = bids[b][i] /\ (b = a => i # n)
  BY <1>1
<1>3. \A b \in Auctions : \A i \in DOMAIN bids'[b] :
        i \in DOMAIN bids[b] \/ (b = a /\ i = n)
  BY <1>1
<1>4. n \in DOMAIN bids'[a]
  BY <1>1
<1>5. \A q, x : x \in FindByRequest(q)' <=>
        \E b \in Auctions : \E i \in DOMAIN bids'[b] :
          x = <<b, i>> /\ bids'[b][i].clientRequestId = q
  <2> SUFFICES ASSUME NEW q, NEW x
               PROVE  x \in FindIn(bids', q) <=>
                        \E b \in Auctions : \E i \in DOMAIN bids'[b] :
                          x = <<b, i>> /\ bids'[b][i].clientRequestId = q
    BY DEF FindByRequest, FindIn
  <2>1. QED
    BY Found
<1>0. \A q : FindByRequest(q) = FindIn(bids, q)
  BY DEF FindByRequest, FindIn
<1>6. ASSUME NEW q, NEW x, x \in FindByRequest(q)
      PROVE  /\ x \in FindByRequest(q)' /\ x # <<a, n>>
             /\ bids'[x[1]][x[2]] = bids[x[1]][x[2]]
  <2>1. PICK b \in Auctions : \E i \in DOMAIN bids[b] :
          x = <<b, i>> /\ bids[b][i].clientRequestId = q
    BY <1>0, <1>6, Found
  <2>2. PICK i \in DOMAIN bids[b] : x = <<b, i>> /\ bids[b][i].clientRequestId = q
    BY <2>1
  <2>3. x[1] = b /\ x[2] = i
    BY <2>2
  <2>4. QED
    BY <1>2, <1>5, <2>2, <2>3
<1>7. ASSUME NEW q, NEW x, x \in FindByRequest(q)'
      PROVE  x \in FindByRequest(q) \/ (q = bid.clientRequestId /\ x = <<a, n>>)
  <2>1. PICK b \in Auctions : \E i \in DOMAIN bids'[b] :
          x = <<b, i>> /\ bids'[b][i].clientRequestId = q
    BY <1>5, <1>7
  <2>2. PICK i \in DOMAIN bids'[b] : x = <<b, i>> /\ bids'[b][i].clientRequestId = q
    BY <2>1
  <2>3. CASE i \in DOMAIN bids[b]
    BY <1>0, <1>2, <2>2, <2>3, Found
  <2>4. CASE b = a /\ i = n
    BY <1>1, <2>2, <2>4
  <2>5. QED
    BY <1>3, <2>3, <2>4
<1>8. <<a, n>> \in FindByRequest(bid.clientRequestId)'
  BY <1>1, <1>4, <1>5
<1>9. QED
  BY <1>6, <1>7, <1>8

\* Nothing is recorded and one call moves on: it keeps its answer, or is told
\* something that is no acceptance.
LEMMA RetryFrame ==
  ASSUME Inv, RetryInv, bids' = bids, NEW c \in Calls,
         \A d \in Calls \ {c} : calls'[d] = calls[d],
         ToldTheirBid(c)',
         calls'[c].answer = calls[c].answer \/ calls'[c].answer.kind # "accepted"
  PROVE  RetryInv'
<1>1. \A q : FindByRequest(q)' = FindByRequest(q)
  BY DEF FindByRequest
<1>2. OneBidEach'
  BY <1>1 DEF RetryInv, OneBidEach
<1>3. \A d \in Calls \ {c} : ToldTheirBid(d)'
  BY <1>1 DEF RetryInv, ToldTheirBid
<1>4. \A d \in Calls : ToldAlone(d)'
  BY DEF RetryInv, ToldAlone
<1>5. QED
  BY <1>2, <1>3, <1>4 DEF RetryInv

\* A call that has not answered yet.
LEMMA RetryMoves ==
  ASSUME Inv, RetryInv, bids' = bids, NEW c \in Calls, NEW w \in Call,
         calls' = [calls EXCEPT ![c] = w], w.answer = calls[c].answer,
         calls[c].pc \notin {"announce", "done"}
  PROVE  RetryInv'
<1>1. calls'[c] = w /\ \A d \in Calls \ {c} : calls'[d] = calls[d]
  BY DEF Inv, TypeOK, BiddingTypeOK
<1>2. w.answer.kind = "none"
  BY DEF RetryInv, ToldTheirBid
<1>3. ToldTheirBid(c)'
  BY <1>1, <1>2 DEF ToldTheirBid
<1>4. QED
  BY <1>1, <1>3, RetryFrame

\* A call answers without having recorded anything.
LEMMA RetryAnswers ==
  ASSUME Inv, RetryInv, bids' = bids, NEW c \in Calls, NEW answer, Answer(c, answer),
         \/ answer.kind \in {"refused", "lost"}
         \/ answer = calls[c].answer
         \/ /\ answer.kind = "replayed"
            /\ answer.bid \in FindByRequest(calls[c].req.clientRequestId)
            /\ answer.bid[1] = calls[c].req.auctionId
            /\ bids[answer.bid[1]][answer.bid[2]].amount = calls[c].req.amount
  PROVE  RetryInv'
<1> DEFINE w == [IdleCall EXCEPT !.pc = "done", !.req = calls[c].req, !.answer = answer]
<1>1. calls' = [calls EXCEPT ![c] = w]
  BY DEF Answer
<1>2. w.pc = "done" /\ w.req = calls[c].req /\ w.answer = answer
  BY DEF IdleCall
<1> HIDE DEF w
<1>3. calls'[c] = w /\ \A d \in Calls \ {c} : calls'[d] = calls[d]
  BY <1>1 DEF Inv, TypeOK, BiddingTypeOK
<1>4. \A q : FindByRequest(q)' = FindByRequest(q)
  BY DEF FindByRequest
<1>5. ToldTheirBid(c)'
  BY <1>2, <1>3, <1>4 DEF ToldTheirBid, RetryInv
<1>6. QED
  BY <1>2, <1>3, <1>5, RetryFrame

\* Replayed answers rest on the ledger alone.
LEMMA RetryFromLedger ==
  ASSUME Inv, RetryInv, bids' = bids, NEW c \in Calls, AnswerFromLedger(c)
  PROVE  RetryInv'
<1>1. PICK existing \in FindByRequest(calls[c].req.clientRequestId) :
        Answer(c, replayOrRefuse(existing, calls[c].req))
  BY DEF AnswerFromLedger
<1> DEFINE answer == replayOrRefuse(existing, calls[c].req)
<1>2. \/ answer.kind = "refused"
      \/ /\ answer.kind = "replayed" /\ answer.bid = existing
         /\ existing[1] = calls[c].req.auctionId
         /\ bids[existing[1]][existing[2]].amount = calls[c].req.amount
  BY DEF replayOrRefuse, Refused
<1> HIDE DEF answer
<1>3. Answer(c, answer)
  BY <1>1 DEF answer
<1>4. QED
  BY <1>1, <1>2, <1>3, RetryAnswers

\* The one step that adds a bid: its id had none.
LEMMA RetryAccepts ==
  ASSUME Inv, RetryInv, NEW c \in Calls, AcceptBid(c)
  PROVE  RetryInv'
<1>0. /\ calls[c].req.auctionId \in Auctions
      /\ Accepts(calls[c].req.auctionId, auction'[calls[c].req.auctionId], NewBid(c))
  BY AcceptIsKind
<1>1. PICK a, r, new :
        /\ a \in Auctions /\ a = calls[c].req.auctionId /\ new = NewBid(c)
        /\ Accepts(a, r, new)
  BY <1>0
<1> a \in Auctions
  BY <1>1
<1> DEFINE n == Len(bids[a]) + 1
<1>2. PICK q : q = calls[c].req.clientRequestId /\ q = new.clientRequestId
  BY <1>1 DEF NewBid
<1> DEFINE answer == [kind |-> "accepted", bid |-> <<a, n>>]
<1>3. FindByRequest(q) = {} /\ new.amount = calls[c].req.amount
  BY <1>1, <1>2 DEF Accepts, NewBid
<1>4. /\ \A d \in Calls \ {c} : calls'[d] = calls[d]
      /\ calls'[c].pc = "announce" /\ calls'[c].req = calls[c].req
      /\ calls'[c].answer = answer
  BY <1>1 DEF AcceptBid, Inv, TypeOK, BiddingTypeOK, Call
<1>5. /\ \A p, x : x \in FindByRequest(p) => x \in FindByRequest(p)'
      /\ \A p, x : x \in FindByRequest(p)' =>
           x \in FindByRequest(p) \/ (p = q /\ x = <<a, n>>)
      /\ <<a, n>> \in FindByRequest(q)'
      /\ \A p, x : x \in FindByRequest(p) =>
           x # <<a, n>> /\ bids'[x[1]][x[2]] = bids[x[1]][x[2]]
  BY <1>1, <1>2, FoundGrows
<1>6. bids'[a][n] = new
  BY <1>1, AcceptsAt
<1>7. <<a, n>>[1] = a /\ <<a, n>>[2] = n /\ answer.kind = "accepted" /\ answer.bid = <<a, n>>
  OBVIOUS
<1> HIDE DEF n, answer
<1>8. OneBidEach'
  <2> SUFFICES ASSUME NEW p \in Requests, NEW x \in FindByRequest(p)', NEW y \in FindByRequest(p)'
               PROVE  x = y
    BY DEF OneBidEach
  <2>1. CASE p = q
    BY <1>3, <1>5, <2>1
  <2>2. CASE p # q
    BY <1>5, <2>2 DEF RetryInv, OneBidEach
  <2>3. QED
    BY <2>1, <2>2
<1>9. ToldTheirBid(c)'
  <2>1. <<a, n>> \in FindIn(bids', calls'[c].req.clientRequestId)
    BY <1>2, <1>4, <1>5 DEF FindByRequest, FindIn
  <2>2. <<a, n>> \in FindByRequest(calls[c].req.clientRequestId)'
    BY <2>1 DEF FindByRequest, FindIn
  <2>3. QED
    BY <1>1, <1>3, <1>4, <1>6, <1>7, <2>2 DEF ToldTheirBid
<1>10. ASSUME NEW d \in Calls \ {c} PROVE ToldTheirBid(d)' /\ calls'[d].answer # answer
  <2>1. calls'[d] = calls[d] /\ ToldTheirBid(d)
    BY <1>4 DEF RetryInv
  <2>2. calls[d].answer.kind \in {"accepted", "replayed"} =>
          LET told == calls[d].answer.bid
          IN  /\ told \in FindByRequest(calls[d].req.clientRequestId)'
              /\ told # <<a, n>> /\ bids'[told[1]][told[2]] = bids[told[1]][told[2]]
    BY <1>5, <2>1 DEF ToldTheirBid
  <2>3. ToldTheirBid(d)'
    BY <2>1, <2>2 DEF ToldTheirBid
  <2>4. QED
    BY <1>7, <2>1, <2>2, <2>3
<1>11. \A d \in Calls : ToldAlone(d)'
  BY <1>4, <1>10 DEF RetryInv, ToldAlone
<1>12. QED
  BY <1>8, <1>9, <1>10, <1>11 DEF RetryInv

\* Every step keeps the answers to retries.
LEMMA RetryStep ==
  ASSUME Inv, RetryInv, [Next]_vars
  PROVE  RetryInv'
<1>1. ASSUME bids' = bids, calls' = calls PROVE RetryInv'
  BY <1>1 DEF RetryInv, OneBidEach, ToldTheirBid, ToldAlone, FindByRequest
<1>2. ASSUME NEW c \in Calls, BidderStep(c) PROVE RetryInv'
  <2>0. calls \in [Calls -> Call] /\ calls[c] \in Call
    BY DEF Inv, TypeOK, BiddingTypeOK
  <2>1. CASE ReceiveBid(c)
    <3>1. PICK req \in Inputs :
            calls' = [calls EXCEPT ![c].pc = "lookup", ![c].req = req, ![c].now = now]
      BY <2>1 DEF ReceiveBid
    <3> DEFINE w == [calls[c] EXCEPT !.pc = "lookup", !.req = req, !.now = now]
    <3>2. now \in Nat
      BY DEF Inv, TypeOK, StoreTypeOK
    <3>3. w \in Call /\ w.answer = calls[c].answer
      BY <2>0, <3>2 DEF Call
    <3>4. calls' = [calls EXCEPT ![c] = w]
      BY <2>0, <3>1
    <3>5. bids' = bids /\ calls[c].pc = "idle"
      BY <2>1 DEF ReceiveBid, storeVars
    <3> HIDE DEF w
    <3>6. QED
      BY <3>3, <3>4, <3>5, RetryMoves
  <2>2. ASSUME NEW p \in {"read", "recheck", "replay"}, Goto(c, p), bids' = bids,
               calls[c].pc \notin {"announce", "done"}
        PROVE  RetryInv'
    <3> DEFINE w == [calls[c] EXCEPT !.pc = p]
    <3>1. w \in Call /\ w.answer = calls[c].answer
      BY <2>0 DEF Call
    <3>2. calls' = [calls EXCEPT ![c] = w]
      BY <2>0, <2>2 DEF Goto
    <3> HIDE DEF w
    <3>3. QED
      BY <2>2, <3>1, <3>2, RetryMoves
  <2>3. ASSUME bids' = bids, Answer(c, Refused) PROVE RetryInv'
    BY <2>3, RetryAnswers DEF Refused
  <2>4. CASE LookupRequest(c)
    BY <2>2, <2>4, RetryFromLedger DEF LookupRequest, storeVars
  <2>5. CASE ReadAuction(c)
    <3> DEFINE row == auction[calls[c].req.auctionId]
    <3>1. bids' = bids /\ calls[c].pc = "read"
      BY <2>5 DEF ReadAuction, storeVars
    <3>2. CASE Answer(c, Refused)
      BY <2>3, <3>1, <3>2
    <3>3. CASE calls' = [calls EXCEPT ![c].pc = "write", ![c].row = row]
      <4> DEFINE w == [calls[c] EXCEPT !.pc = "write", !.row = row]
      <4>1. calls[c].req \in Inputs
        BY <3>1 DEF Inv, CallOK
      <4>2. row \in Row
        BY <4>1, BiddingAssumption DEF Inv, TypeOK, StoreTypeOK
      <4>3. w \in Call /\ w.answer = calls[c].answer
        BY <2>0, <4>2 DEF Call
      <4>4. calls' = [calls EXCEPT ![c] = w]
        BY <2>0, <3>3
      <4> HIDE DEF w
      <4>5. QED
        BY <3>1, <4>3, <4>4, RetryMoves
    <3>4. QED
      BY <2>5, <3>2, <3>3 DEF ReadAuction
  <2>6. CASE AcceptBid(c)
    BY <2>6, RetryAccepts
  <2>7. CASE CollideOnRequest(c) \/ LoseRace(c)
    BY <2>2, <2>7 DEF CollideOnRequest, LoseRace, storeVars
  <2>8. CASE AnswerLostRace(c)
    BY <2>3, <2>8, RetryFromLedger DEF AnswerLostRace, storeVars
  <2>9. CASE AnnounceBid(c)
    BY <2>9, RetryAnswers DEF AnnounceBid, Emit
  <2>10. QED
    BY <1>2, <2>1, <2>4, <2>5, <2>6, <2>7, <2>8, <2>9 DEF BidderStep, BiddingStep
<1>3. CASE Crash
  <2>1. bids' = bids /\ calls' = [c \in Calls |-> CallLost(calls[c])]
    BY <1>3 DEF Crash, storeVars
  <2>2. \A c \in Calls :
          \/ calls'[c] = calls[c]
          \/ calls'[c].pc = "done" /\ calls'[c].answer.kind = "lost"
    BY <2>1 DEF CallLost, IdleCall
  <2>3. \A q : FindByRequest(q)' = FindByRequest(q)
    BY <2>1 DEF FindByRequest
  <2>4. OneBidEach'
    BY <2>3 DEF RetryInv, OneBidEach
  <2>5. \A c \in Calls : ToldTheirBid(c)'
    BY <2>1, <2>2, <2>3 DEF RetryInv, ToldTheirBid
  <2>6. \A c \in Calls : ToldAlone(c)'
    BY <2>2 DEF RetryInv, ToldAlone
  <2>7. QED
    BY <2>4, <2>5, <2>6 DEF RetryInv
<1>4. ASSUME NEW r \in Readers, ReaderStep(r) PROVE bids' = bids /\ calls' = calls
  BY <1>4 DEF ReaderStep, FindPublicAuction, SettlementStep, SettleRead, SettleDecide,
     SettleWrite, SettleLost, SettleAnnounce, Emit, storeVars
<1>5. CASE TimerStep
  <2>1. bids' = bids /\ calls' = calls
    BY <1>5 DEF TimerStep, LifecycleStep, BeginPass, StartAuction, SkipStart, AnnounceStart,
       BeginSettling, SettleNext, EndPass, SettlementStep, SettleRead, SettleDecide,
       SettleWrite, SettleLost, SettleAnnounce, Emit, storeVars
  <2>2. QED
    BY <1>1, <2>1
<1>6. CASE SellerStep
  <2>1. bids' = bids /\ calls' = calls
    BY <1>6 DEF SellerStep, CreateDraft, DeskStep, Begin, Publish, UpdateOwnAuction, Cancel,
       AddDraftImage, RemoveDraftImage, Refuse, AnnounceCancel, WriteRow, Emit, storeVars
  <2>2. QED
    BY <1>1, <2>1
<1>7. CASE ClockStep \/ PassFailure \/ UNCHANGED vars
  <2>1. bids' = bids /\ calls' = calls
    BY <1>7 DEF ClockStep, Tick, PassFailure, PassFails, vars, storeVars
  <2>2. QED
    BY <1>1, <2>1
<1>8. QED
  BY <1>1, <1>2, <1>3, <1>4, <1>5, <1>6, <1>7 DEF Next

\* However a bid is retried, raced or lost in a crash, it is recorded once,
\* and whoever is told of it is told of their own.
THEOREM RetriesStandForOneBid == Spec => []RetriesAreOneBid
<1>1. Init => RetryInv
  <2> SUFFICES ASSUME Init PROVE RetryInv
    OBVIOUS
  <2>1. \A q : FindByRequest(q) = {}
    <3>1. \A a \in Auctions : bids[a] = <<>>
      BY DEF Init, StoreInit
    <3>2. \A q : FindByRequest(q) = FindIn(bids, q)
      BY DEF FindByRequest, FindIn
    <3>3. ASSUME NEW q, NEW x, x \in FindIn(bids, q) PROVE FALSE
      <4>1. PICK a \in Auctions : \E i \in DOMAIN bids[a] :
              x = <<a, i>> /\ bids[a][i].clientRequestId = q
        BY <3>3, Found
      <4>2. QED
        BY <3>1, <4>1
    <3>4. QED
      BY <3>2, <3>3
  <2>2. \A c \in Calls : calls[c].answer.kind = "none"
    BY DEF Init, BiddingInit, IdleCall, NoAnswer
  <2>3. QED
    BY <2>1, <2>2 DEF RetryInv, OneBidEach, ToldTheirBid, ToldAlone
<1>2. Inv /\ RetryInv /\ [Next]_vars => RetryInv'
  BY RetryStep
<1>3. RetryInv => RetriesAreOneBid
  <2> SUFFICES ASSUME RetryInv PROVE RetriesAreOneBid
    OBVIOUS
  <2>1. ASSUME NEW q \in Requests PROVE Cardinality(FindByRequest(q)) <= 1
    <3>1. CASE FindByRequest(q) = {}
      BY <3>1, FS_EmptySet
    <3>2. CASE FindByRequest(q) # {}
      <4>1. PICK x : FindByRequest(q) = {x}
        BY <3>2 DEF RetryInv, OneBidEach
      <4>2. Cardinality({x}) = 1
        BY FS_Singleton
      <4>3. QED
        BY <4>1, <4>2
    <3>3. QED
      BY <3>1, <3>2
  <2>2. QED
    BY <2>1 DEF RetriesAreOneBid, RetryInv, ToldTheirBid, ToldAlone
<1>4. QED
  BY <1>1, <1>2, <1>3, Invariance, PTL DEF Spec

-----------------------------------------------------------------------------
(***************************************************************************)
(* The audit trail                                                         *)
(***************************************************************************)
At(e, type) == {i \in DOMAIN e : e[i] = type}

\* Log e tells the story of an auction in status s with nb bids and nx
\* extensions.  Beyond AuditTrailAgrees: nothing started before it opened, and
\* published exactly from SCHEDULED on, until a cancellation hides which.
Story(s, e, nb, nx) ==
  LET starts == At(e, "STARTED")
      placed == At(e, "BID_PLACED")
      ends == At(e, "ENDED") \cup At(e, "CANCELLED")
  IN  /\ e \in Seq(EventType)
      /\ Cardinality(placed) = nb
      /\ Cardinality(At(e, "EXTENDED")) = nx
      /\ Cardinality(starts) <= 1
      /\ s \in Settled \cup {"ACTIVE"} => starts # {}
      /\ s \in {"NONE", "DRAFT", "SCHEDULED"} => starts = {}
      /\ Cardinality(ends) = IF s \in Closed THEN 1 ELSE 0
      /\ \A i \in placed : (\E j \in starts : j < i) /\ (\A j \in ends : i < j)
      /\ s \in {"NONE", "DRAFT"} => At(e, "PUBLISHED") = {}
      /\ s \in Settled \cup {"SCHEDULED", "ACTIVE"} => At(e, "PUBLISHED") # {}

Stories == \A a \in Auctions :
             Story(auction[a].status, events[a], Len(bids[a]), Len(extensions[a]))

\* The entries of one type in a log can be counted.
LEMMA LogIsFinite ==
  ASSUME NEW e \in Seq(EventType), NEW type
  PROVE  /\ IsFiniteSet(At(e, type))
         /\ At(e, type) \subseteq 1 .. Len(e)
         /\ Len(e) \in Nat
         /\ Len(e) + 1 \notin At(e, type)
         /\ \A i \in At(e, type) : i \in Nat /\ i < Len(e) + 1
         /\ Cardinality(At(e, type)) = 0 => At(e, type) = {}
<1>1. At(e, type) \subseteq 1 .. Len(e) /\ Len(e) \in Nat
  BY DEF At
<1>2. IsFiniteSet(At(e, type))
  <2>1. IsFiniteSet(1 .. Len(e))
    BY <1>1, FS_Interval
  <2>2. QED
    BY <1>1, <2>1, FS_Subset
<1>3. Cardinality(At(e, type)) = 0 => At(e, type) = {}
  BY <1>2, FS_EmptySet
<1>4. QED
  BY <1>1, <1>2, <1>3

\* An entry appended is counted with its own type and no other.
LEMMA LogGrows ==
  ASSUME NEW e \in Seq(EventType), NEW x \in EventType
  PROVE  /\ Append(e, x) \in Seq(EventType)
         /\ At(Append(e, x), x) = At(e, x) \cup {Len(e) + 1}
         /\ \A type : type # x => At(Append(e, x), type) = At(e, type)
         /\ Cardinality(At(Append(e, x), x)) = Cardinality(At(e, x)) + 1
<1> DEFINE d == Append(e, x)
<1>1. /\ d \in Seq(EventType) /\ Len(e) \in Nat
      /\ DOMAIN e = 1 .. Len(e) /\ DOMAIN d = 1 .. (Len(e) + 1)
      /\ d[Len(e) + 1] = x /\ \A i \in 1 .. Len(e) : d[i] = e[i]
  BY AppendProperties
<1> HIDE DEF d
<1>2. At(d, x) = At(e, x) \cup {Len(e) + 1}
  BY <1>1 DEF At
<1>3. \A type : type # x => At(d, type) = At(e, type)
  BY <1>1 DEF At
<1>4. Cardinality(At(e, x) \cup {Len(e) + 1}) = Cardinality(At(e, x)) + 1
  BY LogIsFinite, FS_AddElement
<1>5. QED
  BY <1>1, <1>2, <1>3, <1>4 DEF d

\* The story of a new draft.
LEMMA StoryCreates ==
  ASSUME NEW e, NEW nb, NEW nx, Story("NONE", e, nb, nx)
  PROVE  Story("DRAFT", Append(e, "CREATED"), nb, nx)
<1>1. e \in Seq(EventType) /\ "CREATED" \in EventType
  BY DEF Story, EventType
<1>2. /\ Append(e, "CREATED") \in Seq(EventType)
      /\ \A type : type # "CREATED" => At(Append(e, "CREATED"), type) = At(e, type)
  BY <1>1, LogGrows
<1>3. QED
  BY <1>2 DEF Story, Settled, Closed

\* The story goes on with PUBLISHED.
LEMMA StoryPublishes ==
  ASSUME NEW e, NEW nb, NEW nx, Story("DRAFT", e, nb, nx)
  PROVE  Story("SCHEDULED", Append(e, "PUBLISHED"), nb, nx)
<1>1. e \in Seq(EventType) /\ "PUBLISHED" \in EventType
  BY DEF Story, EventType
<1>2. /\ Append(e, "PUBLISHED") \in Seq(EventType)
      /\ At(Append(e, "PUBLISHED"), "PUBLISHED") # {}
      /\ \A type : type # "PUBLISHED" => At(Append(e, "PUBLISHED"), type) = At(e, type)
  BY <1>1, LogGrows
<1>3. QED
  BY <1>2 DEF Story, Settled, Closed

\* The story goes on with STARTED.
LEMMA StoryOpens ==
  ASSUME NEW e, NEW nb, NEW nx, Story("SCHEDULED", e, nb, nx)
  PROVE  Story("ACTIVE", Append(e, "STARTED"), nb, nx)
<1>1. e \in Seq(EventType) /\ "STARTED" \in EventType
  BY DEF Story, EventType
<1>2. /\ Append(e, "STARTED") \in Seq(EventType)
      /\ At(Append(e, "STARTED"), "STARTED") = At(e, "STARTED") \cup {Len(e) + 1}
      /\ \A type : type # "STARTED" => At(Append(e, "STARTED"), type) = At(e, type)
  BY <1>1, LogGrows
<1>3. At(e, "STARTED") = {} /\ At(e, "BID_PLACED") = {}
  BY DEF Story
<1>4. Cardinality({Len(e) + 1}) = 1
  BY FS_Singleton
<1> DEFINE d == Append(e, "STARTED")
<1>5. /\ At(d, "STARTED") = {Len(e) + 1} /\ At(d, "BID_PLACED") = {}
      /\ At(d, "EXTENDED") = At(e, "EXTENDED") /\ At(d, "PUBLISHED") = At(e, "PUBLISHED")
      /\ At(d, "ENDED") \cup At(d, "CANCELLED") = At(e, "ENDED") \cup At(e, "CANCELLED")
  BY <1>2, <1>3
<1>6. Cardinality(At(d, "STARTED")) = 1 /\ d \in Seq(EventType)
  BY <1>2, <1>4, <1>5
<1> HIDE DEF d
<1>7. Story("ACTIVE", d, nb, nx)
  <2>1. /\ Cardinality(At(d, "BID_PLACED")) = nb
        /\ Cardinality(At(d, "EXTENDED")) = nx
        /\ Cardinality(At(d, "ENDED") \cup At(d, "CANCELLED")) = 0
    BY <1>3, <1>5 DEF Story, Settled, Closed
  <2>2. At(d, "STARTED") # {} /\ At(d, "PUBLISHED") # {}
    BY <1>5 DEF Story, Settled
  <2>3. QED
    BY <1>5, <1>6, <2>1, <2>2 DEF Story, Settled, Closed
<1>8. QED
  BY <1>7 DEF d

\* The ending is the last entry, after every bid.
LEMMA StoryEnds ==
  ASSUME NEW e, NEW nb, NEW nx, NEW s, NEW t, NEW x \in {"ENDED", "CANCELLED"},
         Story(s, e, nb, nx), s \in {"DRAFT", "SCHEDULED", "ACTIVE"}, t \in Closed,
         t \in Settled => s = "ACTIVE"
  PROVE  Story(t, Append(e, x), nb, nx)
<1> DEFINE d == Append(e, x)
<1>1. e \in Seq(EventType) /\ x \in EventType
  BY DEF Story, EventType
<1>2. /\ d \in Seq(EventType) /\ At(d, x) = At(e, x) \cup {Len(e) + 1}
      /\ \A type : type # x => At(d, type) = At(e, type)
  BY <1>1, LogGrows
<1> HIDE DEF d
<1>3. At(e, "ENDED") = {} /\ At(e, "CANCELLED") = {}
  <2>1. Cardinality(At(e, "ENDED") \cup At(e, "CANCELLED")) = 0
    BY DEF Story, Settled, Closed
  <2>2. IsFiniteSet(At(e, "ENDED") \cup At(e, "CANCELLED"))
    BY <1>1, LogIsFinite, FS_Union
  <2>3. QED
    BY <2>1, <2>2, FS_EmptySet
<1>4. At(d, "ENDED") \cup At(d, "CANCELLED") = {Len(e) + 1}
  BY <1>2, <1>3
<1>5. Cardinality({Len(e) + 1}) = 1
  BY FS_Singleton
<1>6. /\ At(d, "STARTED") = At(e, "STARTED") /\ At(d, "BID_PLACED") = At(e, "BID_PLACED")
      /\ At(d, "EXTENDED") = At(e, "EXTENDED") /\ At(d, "PUBLISHED") = At(e, "PUBLISHED")
  BY <1>2
<1>7. \A i \in At(e, "BID_PLACED") : i < Len(e) + 1
  BY <1>1, LogIsFinite
<1>8. \A i \in At(d, "BID_PLACED") :
        /\ \E j \in At(d, "STARTED") : j < i
        /\ \A j \in At(d, "ENDED") \cup At(d, "CANCELLED") : i < j
  BY <1>4, <1>6, <1>7 DEF Story
<1>9. Cardinality(At(d, "ENDED") \cup At(d, "CANCELLED")) = 1
  BY <1>4, <1>5
<1>10. Story(t, d, nb, nx)
  BY <1>2, <1>6, <1>8, <1>9 DEF Story, Settled, Closed
<1>11. QED
  BY <1>10 DEF d

\* The story goes on with a bid.
LEMMA StoryBids ==
  ASSUME NEW e, NEW nb, NEW nx, Story("ACTIVE", e, nb, nx)
  PROVE  Story("ACTIVE", Append(e, "BID_PLACED"), nb + 1, nx)
<1> DEFINE d == Append(e, "BID_PLACED")
<1>1. e \in Seq(EventType) /\ "BID_PLACED" \in EventType
  BY DEF Story, EventType
<1>2. /\ d \in Seq(EventType)
      /\ At(d, "BID_PLACED") = At(e, "BID_PLACED") \cup {Len(e) + 1}
      /\ \A type : type # "BID_PLACED" => At(d, type) = At(e, type)
      /\ Cardinality(At(d, "BID_PLACED")) = Cardinality(At(e, "BID_PLACED")) + 1
  BY <1>1, LogGrows
<1> HIDE DEF d
<1>3. At(e, "ENDED") \cup At(e, "CANCELLED") = {}
  <2>1. Cardinality(At(e, "ENDED") \cup At(e, "CANCELLED")) = 0
    BY DEF Story, Settled, Closed
  <2>2. IsFiniteSet(At(e, "ENDED") \cup At(e, "CANCELLED"))
    BY <1>1, LogIsFinite, FS_Union
  <2>3. QED
    BY <2>1, <2>2, FS_EmptySet
<1>4. \E j \in At(e, "STARTED") : j < Len(e) + 1
  BY <1>1, LogIsFinite DEF Story, Settled
<1>5. /\ At(d, "STARTED") = At(e, "STARTED") /\ At(d, "EXTENDED") = At(e, "EXTENDED")
      /\ At(d, "PUBLISHED") = At(e, "PUBLISHED")
      /\ At(d, "ENDED") \cup At(d, "CANCELLED") = At(e, "ENDED") \cup At(e, "CANCELLED")
  BY <1>2
<1>6. \A i \in At(d, "BID_PLACED") :
        /\ \E j \in At(d, "STARTED") : j < i
        /\ \A j \in At(d, "ENDED") \cup At(d, "CANCELLED") : i < j
  BY <1>2, <1>3, <1>4, <1>5 DEF Story
<1>7. Story("ACTIVE", d, nb + 1, nx)
  BY <1>2, <1>5, <1>6 DEF Story, Settled, Closed
<1>8. QED
  BY <1>7 DEF d

\* The story goes on with a bid and the extension it caused.
LEMMA StoryExtends ==
  ASSUME NEW e, NEW nb, NEW nx, Story("ACTIVE", e, nb, nx)
  PROVE  Story("ACTIVE", Append(e, "EXTENDED"), nb, nx + 1)
<1>1. e \in Seq(EventType) /\ "EXTENDED" \in EventType
  BY DEF Story, EventType
<1>2. /\ Append(e, "EXTENDED") \in Seq(EventType)
      /\ \A type : type # "EXTENDED" => At(Append(e, "EXTENDED"), type) = At(e, type)
      /\ Cardinality(At(Append(e, "EXTENDED"), "EXTENDED"))
           = Cardinality(At(e, "EXTENDED")) + 1
  BY <1>1, LogGrows
<1>3. QED
  BY <1>2 DEF Story, Settled, Closed

\* A step appends to the log of one auction.
LEMMA LogsAreAppends ==
  ASSUME NEW e \in Seq(EventType), NEW x \in EventType, NEW y \in EventType
  PROVE  /\ e \o <<>> = e
         /\ e \o <<x>> = Append(e, x)
         /\ e \o <<x, y>> = Append(Append(e, x), y)
<1>1. e \o <<>> = e
  BY ConcatEmptySeq
<1>2. e \o <<x>> = Append(e, x)
  BY AppendIsConcat
<1>3. e \o <<x, y>> = Append(Append(e, x), y)
  <2> DEFINE f == Append(e, x)
  <2> DEFINE g == Append(f, y)
  <2> DEFINE h == e \o <<x, y>>
  <2>1. /\ f \in Seq(EventType) /\ Len(f) = Len(e) + 1 /\ Len(e) \in Nat
        /\ f[Len(e) + 1] = x /\ \A i \in 1 .. Len(e) : f[i] = e[i]
    BY AppendProperties
  <2> HIDE DEF f
  <2>2. /\ g \in Seq(EventType) /\ Len(g) = Len(f) + 1
        /\ g[Len(f) + 1] = y /\ \A i \in 1 .. Len(f) : g[i] = f[i]
    BY <2>1, AppendProperties
  <2> HIDE DEF g
  <2>3. h \in Seq(EventType) /\ Len(h) = Len(e) + 2
    OBVIOUS
  <2>4. \A i \in 1 .. Len(h) : h[i] = IF i <= Len(e) THEN e[i] ELSE IF i = Len(e) + 1 THEN x ELSE y
    OBVIOUS
  <2> HIDE DEF h
  <2>5. Len(g) = Len(h) /\ \A i \in 1 .. Len(h) : g[i] = h[i]
    <3>1. Len(g) = Len(h) /\ Len(h) = Len(e) + 2 /\ Len(e) \in Nat
      BY <2>1, <2>2, <2>3
    <3>2. ASSUME NEW i \in 1 .. Len(h) PROVE g[i] = h[i]
      <4>1. CASE i <= Len(e)
        BY <2>1, <2>2, <2>4, <3>1, <4>1
      <4>2. CASE i = Len(e) + 1
        BY <2>1, <2>2, <2>4, <3>1, <4>2
      <4>3. CASE i = Len(e) + 2
        BY <2>1, <2>2, <2>4, <3>1, <4>3
      <4>4. QED
        BY <3>1, <4>1, <4>2, <4>3
    <3>3. QED
      BY <3>1, <3>2
  <2>6. g = h
    BY <2>2, <2>3, <2>5, SeqEqual
  <2>7. QED
    BY <2>6 DEF f, g, h
<1>4. QED
  BY <1>1, <1>2, <1>3

\* Every step carries the stories on.
LEMMA StoriesStep ==
  ASSUME Inv, Stories, [Next]_vars
  PROVE  Stories'
<1> DEFINE OK(x) == Story(auction[x].status, events[x], Len(bids[x]), Len(extensions[x]))
<1>0. \A x \in Auctions : OK(x)
  BY DEF Stories
<1>1. \A x \in Auctions : events[x] \in Seq(EventType)
  BY DEF Inv, TypeOK, StoreTypeOK
<1> SUFFICES \A x \in Auctions : OK(x)'
  BY DEF Stories
<1>2. CASE Quiet
  BY <1>0, <1>2 DEF Quiet
<1>3. ASSUME NEW a \in Auctions, NEW r, NEW log, NEW told, Wrote(a, r, log, told),
             Story(r.status, events[a] \o log, Len(bids[a]), Len(extensions[a]))
      PROVE  \A x \in Auctions : OK(x)'
  <2>1. /\ auction'[a] = r /\ events'[a] = events[a] \o log
        /\ bids' = bids /\ extensions' = extensions
        /\ \A x \in Auctions \ {a} : auction'[x] = auction[x] /\ events'[x] = events[x]
    BY <1>3, WroteAt
  <2>2. QED
    BY <1>0, <1>3, <2>1
<1>4. {"CREATED", "PUBLISHED", "STARTED", "BID_PLACED", "EXTENDED", "ENDED", "CANCELLED"}
        = EventType
  BY DEF EventType
<1>5. ASSUME NEW a \in Auctions, NEW r, Creates(a, r) PROVE \A x \in Auctions : OK(x)'
  <2>1. events[a] \o <<"CREATED">> = Append(events[a], "CREATED")
    BY <1>1, <1>4, LogsAreAppends
  <2>2. Story(r.status, events[a] \o <<"CREATED">>, Len(bids[a]), Len(extensions[a]))
    BY <1>0, <1>5, <2>1, StoryCreates DEF Creates
  <2>3. QED
    BY <1>3, <1>5, <2>2 DEF Creates
<1>6. ASSUME NEW a \in Auctions, NEW r, Rewrites(a, r) \/ Pictures(a, r)
      PROVE  \A x \in Auctions : OK(x)'
  <2>1. events[a] \o <<>> = events[a]
    BY <1>1, <1>4, LogsAreAppends
  <2>2. Story(r.status, events[a] \o <<>>, Len(bids[a]), Len(extensions[a]))
    BY <1>0, <1>6, <2>1 DEF Rewrites, Pictures
  <2>3. Wrote(a, r, <<>>, {})
    BY <1>6 DEF Rewrites, Pictures
  <2> DEFINE log == <<>>
  <2>4. Wrote(a, r, log, {})
        /\ Story(r.status, events[a] \o log, Len(bids[a]), Len(extensions[a]))
    BY <2>2, <2>3
  <2> HIDE DEF log
  <2>5. QED
    BY <1>3, <2>4
<1>7. ASSUME NEW a \in Auctions, NEW r, Publishes(a, r) PROVE \A x \in Auctions : OK(x)'
  <2>1. /\ events[a] \o <<"PUBLISHED">> = Append(events[a], "PUBLISHED")
        /\ events[a] \o <<"PUBLISHED", "STARTED">>
             = Append(Append(events[a], "PUBLISHED"), "STARTED")
    BY <1>1, <1>4, LogsAreAppends
  <2>2. Story("SCHEDULED", Append(events[a], "PUBLISHED"), Len(bids[a]), Len(extensions[a]))
    BY <1>0, <1>7, StoryPublishes DEF Publishes
  <2>3. Story("ACTIVE", Append(Append(events[a], "PUBLISHED"), "STARTED"),
              Len(bids[a]), Len(extensions[a]))
    BY <2>2, StoryOpens
  <2>4. CASE r.status = "SCHEDULED" /\ Wrote(a, r, <<"PUBLISHED">>, {})
    <3> DEFINE log == <<"PUBLISHED">>
    <3>1. Story(r.status, events[a] \o log, Len(bids[a]), Len(extensions[a]))
          /\ Wrote(a, r, log, {})
      BY <2>1, <2>2, <2>4
    <3> HIDE DEF log
    <3>2. QED
      BY <1>3, <3>1
  <2>5. CASE r.status = "ACTIVE" /\ Wrote(a, r, <<"PUBLISHED", "STARTED">>, {})
    <3> DEFINE log == <<"PUBLISHED", "STARTED">>
    <3>1. Story(r.status, events[a] \o log, Len(bids[a]), Len(extensions[a]))
          /\ Wrote(a, r, log, {})
      BY <2>1, <2>3, <2>5
    <3> HIDE DEF log
    <3>2. QED
      BY <1>3, <3>1
  <2>6. QED
    BY <1>7, <2>4, <2>5 DEF Publishes
<1>8. ASSUME NEW a \in Auctions, NEW r, Opens(a, r) PROVE \A x \in Auctions : OK(x)'
  <2>1. events[a] \o <<"STARTED">> = Append(events[a], "STARTED")
    BY <1>1, <1>4, LogsAreAppends
  <2>2. Story(r.status, events[a] \o <<"STARTED">>, Len(bids[a]), Len(extensions[a]))
    BY <1>0, <1>8, <2>1, StoryOpens DEF Opens
  <2>3. QED
    BY <1>3, <1>8, <2>2 DEF Opens
<1>9. ASSUME NEW a \in Auctions, NEW r, NEW told, Cancels(a, r, told)
      PROVE  \A x \in Auctions : OK(x)'
  <2> DEFINE sent == {Notification("AUCTION_CANCELLED", a, u, 0) : u \in told}
  <2>1. events[a] \o <<"CANCELLED">> = Append(events[a], "CANCELLED")
    BY <1>1, <1>4, LogsAreAppends
  <2>2. /\ auction[a].status \in {"DRAFT", "SCHEDULED", "ACTIVE"} /\ r.status = "CANCELLED"
        /\ Wrote(a, r, <<"CANCELLED">>, sent)
    BY <1>9 DEF Cancels
  <2> HIDE DEF sent
  <2>3. r.status \in Closed /\ r.status \notin Settled
    BY <2>2 DEF Closed, Settled
  <2>4. Story(r.status, Append(events[a], "CANCELLED"), Len(bids[a]), Len(extensions[a]))
    BY <1>0, <2>2, <2>3, StoryEnds
  <2>5. QED
    BY <1>3, <2>1, <2>2, <2>4
<1>10. ASSUME NEW a \in Auctions, NEW r, Settles(a, r) PROVE \A x \in Auctions : OK(x)'
  <2>1. events[a] \o <<"ENDED">> = Append(events[a], "ENDED")
    BY <1>1, <1>4, LogsAreAppends
  <2>2. /\ auction[a].status = "ACTIVE" /\ r.status \in Closed
        /\ Wrote(a, r, <<"ENDED">>, SettlementNotifications(a, r))
    BY <1>10 DEF Settles, Closed
  <2>3. Story(r.status, Append(events[a], "ENDED"), Len(bids[a]), Len(extensions[a]))
    BY <1>0, <2>2, StoryEnds
  <2>4. QED
    BY <1>3, <2>1, <2>2, <2>3
<1>11. ASSUME NEW a \in Auctions, NEW r, NEW bid, Accepts(a, r, bid)
       PROVE  \A x \in Auctions : OK(x)'
  <2> DEFINE nb == Len(bids[a])
  <2> DEFINE nx == Len(extensions[a])
  <2>1. /\ auction'[a] = r /\ Len(bids'[a]) = nb + 1
        /\ \A x \in Auctions \ {a} : /\ auction'[x] = auction[x] /\ bids'[x] = bids[x]
                                     /\ extensions'[x] = extensions[x]
                                     /\ events'[x] = events[x]
    BY <1>11, AcceptsAt
  <2>2. /\ events[a] \o <<"BID_PLACED">> = Append(events[a], "BID_PLACED")
        /\ events[a] \o <<"BID_PLACED", "EXTENDED">>
             = Append(Append(events[a], "BID_PLACED"), "EXTENDED")
    BY <1>1, <1>4, LogsAreAppends
  <2>3. auction[a].status = "ACTIVE" /\ r.status = "ACTIVE"
    BY <1>11 DEF Accepts
  <2>4. Story("ACTIVE", Append(events[a], "BID_PLACED"), nb + 1, nx)
    BY <1>0, <2>3, StoryBids
  <2>5. Story("ACTIVE", Append(Append(events[a], "BID_PLACED"), "EXTENDED"), nb + 1, nx + 1)
    BY <2>4, StoryExtends
  <2>6. /\ events \in [Auctions -> Seq(EventType)]
        /\ extensions \in [Auctions -> Seq(Extension)]
    BY DEF Inv, TypeOK, StoreTypeOK
  <2>7. CASE NotExtended(a, r)
    <3>1. extensions'[a] = extensions[a] /\ events'[a] = events[a] \o <<"BID_PLACED">>
      BY <2>6, <2>7 DEF NotExtended
    <3>2. OK(a)'
      BY <2>1, <2>2, <2>3, <2>4, <3>1
    <3>3. QED
      BY <1>0, <2>1, <3>2
  <2>8. CASE Extended(a, Len(bids[a]) + 1, bid.placedAt, r)
    <3> DEFINE e == [triggeredByBidId |-> Len(bids[a]) + 1,
                     extensionNumber |-> auction[a].extensionCount + 1,
                     previousEndAt |-> auction[a].currentEndAt,
                     newEndAt |-> r.currentEndAt]
    <3>1. /\ extensions' = [extensions EXCEPT ![a] = Append(@, e)]
          /\ events' = [events EXCEPT ![a] = @ \o <<"BID_PLACED", "EXTENDED">>]
      BY <2>8 DEF Extended
    <3> HIDE DEF e
    <3>2. /\ extensions'[a] = Append(extensions[a], e)
          /\ events'[a] = events[a] \o <<"BID_PLACED", "EXTENDED">>
      BY <2>6, <3>1
    <3>3. Len(extensions'[a]) = nx + 1
      BY <2>6, <3>2
    <3>4. OK(a)'
      BY <2>1, <2>2, <2>3, <2>5, <3>2, <3>3
    <3>5. QED
      BY <1>0, <2>1, <3>4
  <2>9. QED
    BY <1>11, <2>7, <2>8 DEF Accepts
<1> HIDE DEF OK
<1>12. QED
  BY <1>2, <1>5, <1>6, <1>7, <1>8, <1>9, <1>10, <1>11, StepKinds

\* The stories hold throughout.
LEMMA StoriesHold == Spec => []Stories
<1>1. Init => Stories
  <2> SUFFICES ASSUME Init, NEW a \in Auctions
               PROVE  Story(auction[a].status, events[a], Len(bids[a]), Len(extensions[a]))
    BY DEF Stories
  <2>1. /\ auction[a].status = "NONE" /\ events[a] = <<>>
        /\ Len(bids[a]) = 0 /\ Len(extensions[a]) = 0
    BY DEF Init, StoreInit, NoRow
  <2>2. \A type : At(<<>>, type) = {}
    BY DEF At
  <2>3. Cardinality({}) = 0
    BY FS_EmptySet
  <2>4. <<>> \in Seq(EventType) /\ {} \cup {} = {}
    OBVIOUS
  <2> DEFINE e == <<>>
  <2>5. /\ \A type : At(e, type) = {} /\ Cardinality(At(e, type)) = 0
        /\ e \in Seq(EventType) /\ events[a] = e
        /\ Cardinality(At(e, "ENDED") \cup At(e, "CANCELLED")) = 0
    BY <2>1, <2>2, <2>3, <2>4
  <2> HIDE DEF e
  <2>6. Story("NONE", e, 0, 0)
    BY <2>5 DEF Story, Settled, Closed
  <2>7. QED
    BY <2>1, <2>5, <2>6
<1>2. Inv /\ Stories /\ [Next]_vars => Stories'
  BY StoriesStep
<1>3. QED
  BY <1>1, <1>2, Invariance, PTL DEF Spec

\* The audit log of an auction agrees with its row and its ledger after any
\* interleaving: every bid and extension logged once, between the one start
\* and the one ending.
THEOREM AuditTrailsAgree == Spec => []AuditTrailAgrees
<1>1. Stories => AuditTrailAgrees
  BY DEF Stories, Story, At, AuditTrailAgrees, Positions, Endings
<1>2. QED
  BY <1>1, StoriesHold, PTL

-----------------------------------------------------------------------------
(***************************************************************************)
(* Who hears of the ending                                                 *)
(***************************************************************************)

\* EndingsToldOnce of one user: with what row the auction stands, whether the
\* user has a stake in it, and which rows tell them.
Hears(row, a, u, stake, told) ==
  /\ row.status \in Settled /\ u = row.winnerUserId =>
       told = {Notification("AUCTION_WON", a, u, row.winningBidId)}
  /\ row.status \in Settled /\ u # row.winnerUserId =>
       told = IF stake \/ u = SellerOf[a]
              THEN {Notification("AUCTION_ENDED", a, u, 0)} ELSE {}
  /\ row.status = "CANCELLED" /\ u # SellerOf[a] =>
       told = IF stake THEN {Notification("AUCTION_CANCELLED", a, u, 0)} ELSE {}
  /\ row.status = "CANCELLED" /\ u = SellerOf[a] =>
       told \subseteq {Notification("AUCTION_CANCELLED", a, u, 0)}
  /\ row.status \notin Closed => told = {}

Stake(a, u) == \/ u \in Bidders(a)
               \/ u \in Watchers[a] /\ Positions(a, "PUBLISHED") # {}

EndingsHeard ==
  \A a \in Auctions, u \in Users : Hears(auction[a], a, u, Stake(a, u), Tellings(a, u))

\* The property in the form the proof uses.
LEMMA HeardIsToldOnce == EndingsHeard <=> EndingsToldOnce
<1> SUFFICES ASSUME NEW a \in Auctions, NEW u \in Users
    PROVE Hears(auction[a], a, u, Stake(a, u), Tellings(a, u)) <=>
      CASE auction[a].status \in Settled /\ u = auction[a].winnerUserId ->
             Tellings(a, u) = {Notification("AUCTION_WON", a, u, auction[a].winningBidId)}
        [] auction[a].status \in Settled /\ u # auction[a].winnerUserId ->
             Tellings(a, u) = IF Stake(a, u) \/ u = SellerOf[a]
                              THEN {Notification("AUCTION_ENDED", a, u, 0)} ELSE {}
        [] auction[a].status = "CANCELLED" /\ u # SellerOf[a] ->
             Tellings(a, u) = IF Stake(a, u)
                              THEN {Notification("AUCTION_CANCELLED", a, u, 0)} ELSE {}
        [] auction[a].status = "CANCELLED" /\ u = SellerOf[a] ->
             Tellings(a, u) \subseteq {Notification("AUCTION_CANCELLED", a, u, 0)}
        [] OTHER -> Tellings(a, u) = {}
  BY DEF EndingsToldOnce, EndingsHeard, Stake
<1>1. CASE auction[a].status \in Settled
  BY <1>1 DEF Hears, Settled, Closed
<1>2. CASE auction[a].status = "CANCELLED"
  BY <1>2 DEF Hears, Settled, Closed
<1>3. CASE auction[a].status \notin Closed
  BY <1>3 DEF Hears, Settled, Closed
<1>4. QED
  BY <1>1, <1>2, <1>3 DEF Closed

\* Other auctions hear nothing of a step that tells people of auction a.
LEMMA TellingsElsewhere ==
  ASSUME NEW a, NEW told, notifications' = notifications \cup told,
         \A m \in told : m.auctionId = a
  PROVE  \A x, u : x # a => Tellings(x, u)' = Tellings(x, u)
BY DEF Tellings

\* The settling write: the winner hears of the win, everybody else with a
\* stake and the seller of the end.
LEMMA SettlesHeard ==
  ASSUME Inv, Stories, Stories', NEW a \in Auctions, NEW r, Settles(a, r),
         NEW u \in Users, Tellings(a, u) = {}
  PROVE  Hears(r, a, u, Stake(a, u)', Tellings(a, u)')
<1> DEFINE told == SettlementNotifications(a, r)
<1> DEFINE w == r.winnerUserId
<1> DEFINE others == (findAuctionAudience(a, {w}) \cup {SellerOf[a]}) \ {w}
<1>1. /\ Wrote(a, r, <<"ENDED">>, told) /\ auction[a].status = "ACTIVE"
      /\ r.status \in Settled /\ r \in Row
  BY DEF Settles, Wrote
<1>2. notifications' = notifications \cup told /\ bids' = bids /\ auction'[a] = r
  BY <1>1, WroteAt DEF Wrote
<1>3. Positions(a, "PUBLISHED")' # {}
  BY <1>1, <1>2 DEF Stories, Story, Positions, At
<1>4. findAuctionAudience(a, {w}) = (Bidders(a) \cup Watchers[a]) \ {w}
  BY <1>1 DEF findAuctionAudience, Watching
<1>5. Stake(a, u)' <=> u \in Bidders(a) \/ u \in Watchers[a]
  BY <1>2, <1>3 DEF Stake, Bidders
<1>6. told = (IF w = Null THEN {} ELSE {Notification("AUCTION_WON", a, w, r.winningBidId)})
             \cup {Notification("AUCTION_ENDED", a, x, 0) : x \in others}
  BY DEF SettlementNotifications
<1>7. Tellings(a, u)' = {m \in told : m.auctionId = a /\ m.userId = u /\ m.event \in EndingType}
  BY <1>2 DEF Tellings, EndingType
<1>8. u # Null
  BY StoreAssumption
<1>9. u \in others <=> u # w /\ (Stake(a, u)' \/ u = SellerOf[a])
  BY <1>4, <1>5
<1> HIDE DEF told, w, others
<1>10. CASE u = w
  <2>1. \A m \in told : m.userId = u => m = Notification("AUCTION_WON", a, w, r.winningBidId)
    BY <1>6, <1>9, <1>10 DEF Notification
  <2>2. Notification("AUCTION_WON", a, w, r.winningBidId) \in told
    BY <1>6, <1>8, <1>10
  <2>3. Tellings(a, u)' = {Notification("AUCTION_WON", a, w, r.winningBidId)}
    BY <1>7, <1>10, <2>1, <2>2 DEF Notification, EndingType
  <2>4. QED
    BY <1>1, <1>10, <2>3 DEF Hears, w, Settled, Closed
<1>11. CASE u # w
  <2>1. \A m \in told : m.userId = u =>
          u \in others /\ m = Notification("AUCTION_ENDED", a, u, 0)
    BY <1>6, <1>11 DEF Notification
  <2>2. u \in others => Notification("AUCTION_ENDED", a, u, 0) \in told
    BY <1>6
  <2>3. Tellings(a, u)' =
          IF u \in others THEN {Notification("AUCTION_ENDED", a, u, 0)} ELSE {}
    BY <1>7, <2>1, <2>2 DEF Notification, EndingType
  <2>4. QED
    BY <1>1, <1>9, <1>11, <2>3 DEF Hears, w, Settled, Closed
<1>12. QED
  BY <1>10, <1>11

\* The cancelling write, the seller's or an admin's.
LEMMA CancelsHeard ==
  ASSUME Inv, Stories, NEW a \in Auctions, NEW r, NEW to, Cancels(a, r, to),
         NEW u \in Users, Tellings(a, u) = {}
  PROVE  Hears(r, a, u, Stake(a, u)', Tellings(a, u)')
<1> DEFINE told == {Notification("AUCTION_CANCELLED", a, x, 0) : x \in to}
<1>1. /\ Wrote(a, r, <<"CANCELLED">>, told)
      /\ auction[a].status \in {"DRAFT", "SCHEDULED", "ACTIVE"}
      /\ r.status = "CANCELLED"
      /\ \/ to = findAuctionAudience(a, {SellerOf[a]})
         \/ to = findAuctionAudience(a, {}) \cup {SellerOf[a]}
  BY DEF Cancels
<1>2. /\ notifications' = notifications \cup told /\ bids' = bids
      /\ events'[a] = events[a] \o <<"CANCELLED">>
  BY <1>1, WroteAt DEF Wrote
<1>3. Positions(a, "PUBLISHED")' = At(events[a], "PUBLISHED")
  <2>1. events[a] \in Seq(EventType) /\ "CANCELLED" \in EventType
    BY DEF Inv, TypeOK, StoreTypeOK, EventType
  <2>2. events'[a] = Append(events[a], "CANCELLED")
    BY <1>2, <2>1, LogsAreAppends
  <2>3. At(events'[a], "PUBLISHED") = At(events[a], "PUBLISHED")
    BY <2>1, <2>2, LogGrows
  <2>4. QED
    BY <2>3 DEF Positions, At
<1>4. At(events[a], "PUBLISHED") = {} <=> auction[a].status = "DRAFT"
  BY <1>1 DEF Stories, Story
<1>5. Stake(a, u)' <=> u \in Bidders(a) \/ u \in Watching(a)
  BY <1>2, <1>3, <1>4 DEF Stake, Bidders, Watching
<1>6. u # SellerOf[a] => (u \in to <=> Stake(a, u)')
  BY <1>1, <1>5 DEF findAuctionAudience
<1>7. Tellings(a, u)' = {m \in told : m.auctionId = a /\ m.userId = u /\ m.event \in EndingType}
  BY <1>2 DEF Tellings, EndingType
<1>8. Tellings(a, u)' = IF u \in to THEN {Notification("AUCTION_CANCELLED", a, u, 0)} ELSE {}
  BY <1>7 DEF Notification, EndingType
<1>9. QED
  BY <1>1, <1>6, <1>8 DEF Hears, Settled, Closed

\* Every step tells of an ending once.
LEMMA HeardStep ==
  ASSUME Inv, Stories, Stories', EndingsHeard, [Next]_vars
  PROVE  EndingsHeard'
<1> DEFINE OK(x, u) == Hears(auction[x], x, u, Stake(x, u), Tellings(x, u))
<1>0. \A x \in Auctions, u \in Users : OK(x, u)
  BY DEF EndingsHeard
<1>1. \A x \in Auctions, u \in Users : auction[x].status \notin Closed => Tellings(x, u) = {}
  BY <1>0 DEF Hears
<1> SUFFICES ASSUME NEW x \in Auctions, NEW u \in Users PROVE OK(x, u)'
  BY DEF EndingsHeard
<1>3. ASSUME auction'[x] = auction[x], bids'[x] = bids[x], events'[x] = events[x],
             Tellings(x, u)' = Tellings(x, u)
      PROVE  OK(x, u)'
  BY <1>0, <1>3 DEF Stake, Bidders, Positions
<1>2. CASE Quiet
  <2>1. Tellings(x, u)' = Tellings(x, u)
    BY <1>2 DEF Quiet, Tellings
  <2>2. QED
    BY <1>2, <1>3, <2>1 DEF Quiet
<1>4. ASSUME NEW r, \/ Creates(x, r) \/ Rewrites(x, r) \/ Publishes(x, r) \/ Opens(x, r)
                    \/ Pictures(x, r)
      PROVE  OK(x, u)'
  <2>1. PICK log : Wrote(x, r, log, {})
    BY <1>4 DEF Creates, Rewrites, Publishes, Opens, Pictures
  <2>2. auction'[x] = r /\ events'[x] = events[x] \o log /\ bids' = bids
    BY <2>1, WroteAt
  <2>3. Tellings(x, u)' = Tellings(x, u)
    BY <2>1 DEF Wrote, Tellings
  <2>4. CASE ~Pictures(x, r)
    <3>1. auction[x].status \notin Closed /\ r.status \notin Closed
      BY <1>4, <2>4 DEF Creates, Rewrites, Publishes, Opens, Closed, Settled
    <3>2. QED
      BY <1>1, <2>2, <2>3, <3>1 DEF Hears, Closed
  <2>5. CASE Pictures(x, r)
    <3>1. /\ r.status = auction[x].status /\ r.winnerUserId = auction[x].winnerUserId
          /\ r.winningBidId = auction[x].winningBidId /\ Wrote(x, r, <<>>, {})
      BY <2>5 DEF Pictures
    <3>2. events'[x] = events[x]
      <4>1. events[x] \in Seq(EventType)
        BY DEF Inv, TypeOK, StoreTypeOK
      <4> DEFINE e == <<>>
      <4>2. Wrote(x, r, e, {}) /\ events[x] \o e = events[x]
        BY <3>1, <4>1, ConcatEmptySeq
      <4> HIDE DEF e
      <4>3. events'[x] = events[x] \o e
        BY <4>2, WroteAt
      <4>4. QED
        BY <4>2, <4>3
    <3>3. Stake(x, u)' <=> Stake(x, u)
      BY <2>2, <3>2 DEF Stake, Bidders, Positions
    <3>4. QED
      BY <1>0, <2>2, <2>3, <3>1, <3>3 DEF Hears
  <2>6. QED
    BY <2>4, <2>5
<1>5. ASSUME NEW r, NEW told, Cancels(x, r, told) PROVE OK(x, u)'
  <2>1. auction'[x] = r /\ auction[x].status \notin Closed
    BY <1>5, WroteAt DEF Cancels, Closed, Settled
  <2>2. Hears(r, x, u, Stake(x, u)', Tellings(x, u)')
    BY <1>1, <1>5, <2>1, CancelsHeard
  <2>3. QED
    BY <2>1, <2>2
<1>6. ASSUME NEW r, Settles(x, r) PROVE OK(x, u)'
  <2>1. auction'[x] = r /\ auction[x].status \notin Closed
    BY <1>6, WroteAt DEF Settles, Closed, Settled
  <2>2. Hears(r, x, u, Stake(x, u)', Tellings(x, u)')
    BY <1>1, <1>6, <2>1, SettlesHeard
  <2>3. QED
    BY <2>1, <2>2
<1>7. ASSUME NEW r, NEW bid, Accepts(x, r, bid) PROVE OK(x, u)'
  <2>1. auction'[x] = r /\ r.status = "ACTIVE" /\ auction[x].status = "ACTIVE"
    <3>1. auction'[x] = r
      BY <1>7, AcceptsAt
    <3>2. QED
      BY <1>7, <3>1 DEF Accepts
  <2>2. Tellings(x, u)' = Tellings(x, u)
    BY <1>7 DEF Accepts, Tellings, OutbidNotifications, Notification
  <2>3. QED
    BY <1>1, <2>1, <2>2 DEF Hears, Closed, Settled
<1>8. ASSUME NEW a \in Auctions \ {x}, NEW r,
             \/ Creates(a, r) \/ Rewrites(a, r) \/ Publishes(a, r) \/ Opens(a, r)
             \/ Pictures(a, r) \/ (\E told : Cancels(a, r, told)) \/ Settles(a, r)
      PROVE  OK(x, u)'
  <2>1. PICK log, told : /\ Wrote(a, r, log, told)
                         /\ \A m \in told : m.event \in EndingType /\ m.auctionId = a
    BY <1>8, WritesTellEndings
  <2>2. auction'[x] = auction[x] /\ bids'[x] = bids[x] /\ events'[x] = events[x]
    BY <2>1, WroteAt
  <2>3. notifications' = notifications \cup told
    BY <2>1 DEF Wrote
  <2>4. Tellings(x, u)' = Tellings(x, u)
    BY <2>1, <2>3, TellingsElsewhere
  <2>5. QED
    BY <1>3, <2>2, <2>4
<1>9. ASSUME NEW a \in Auctions \ {x}, NEW r, NEW bid, Accepts(a, r, bid) PROVE OK(x, u)'
  <2>1. auction'[x] = auction[x] /\ bids'[x] = bids[x] /\ events'[x] = events[x]
    BY <1>9, AcceptsAt
  <2>2. Tellings(x, u)' = Tellings(x, u)
    BY <1>9 DEF Accepts, Tellings, OutbidNotifications, Notification
  <2>3. QED
    BY <1>3, <2>1, <2>2
<1> HIDE DEF OK
<1>10. QED
  BY <1>2, <1>4, <1>5, <1>6, <1>7, <1>8, <1>9, StepKinds

\* Everybody with a stake hears how an auction ended exactly once, from
\* whichever worker won the race to end it, and nobody hears of an end that
\* did not happen.
THEOREM EndingsAreToldOnce == Spec => []EndingsToldOnce
<1>1. Init => EndingsHeard
  BY DEF Init, StoreInit, NoRow, EndingsHeard, Hears, Tellings, Settled, Closed
<1>2. Inv /\ Stories /\ Stories' /\ EndingsHeard /\ [Next]_vars => EndingsHeard'
  BY HeardStep
<1>3. EndingsHeard => EndingsToldOnce
  BY HeardIsToldOnce
<1>4. QED
  BY <1>1, <1>2, <1>3, Invariance, StoriesHold, PTL DEF Spec

-----------------------------------------------------------------------------
(***************************************************************************)
(* What leaves the process                                                 *)
(***************************************************************************)
RoomType == {"auction:started", "auction:bid", "auction:extension",
             "auction:ended", "auction:cancelled"}

\* Committed without its CASE, of a message that is one of the kinds sent.
Recorded(m) ==
  LET a == m.auctionId
  IN  /\ a \in Auctions
      /\ m.userId # Null => m.event \notin RoomType /\ m \in notifications
      /\ m.userId = Null =>
           /\ m.event \in RoomType
           /\ m.event = "auction:bid" => m.n \in DOMAIN bids[a]
           /\ m.event = "auction:extension" =>
                m.n \in DOMAIN extensions[a] /\ extensions[a][m.n].newEndAt = m.at
           /\ m.event = "auction:started" => At(events[a], "STARTED") # {}
           /\ m.event = "auction:ended" =>
                /\ auction[a].status \in Settled
                /\ auction[a].winningBidId = m.n
                /\ auction[a].endedAt = m.at
           /\ m.event = "auction:cancelled" => auction[a].status = "CANCELLED"

\* What the record holds is committed.
LEMMA RecordedIsCommitted == ASSUME NEW m, Recorded(m) PROVE Committed(m)
<1>1. CASE m.userId # Null
  BY <1>1 DEF Recorded, Committed, RoomType
<1>2. CASE m.userId = Null
  BY <1>2 DEF Recorded, Committed, RoomType, Positions, At
<1>3. QED
  BY <1>1, <1>2

\* No step takes an entry out of a log.
LEMMA LogsKeepEntries ==
  ASSUME NEW e \in Seq(EventType), NEW log \in Seq(EventType), NEW type
  PROVE  At(e, type) \subseteq At(e \o log, type)
BY ConcatProperties DEF At

\* What is on record stays on record: rows are added, never taken away, and a
\* result is final.
LEMMA RecordStands ==
  ASSUME Inv, [Next]_vars, NEW m, Recorded(m)
  PROVE  Recorded(m)'
<1> DEFINE x == m.auctionId
<1>0. /\ x \in Auctions /\ events[x] \in Seq(EventType)
      /\ events \in [Auctions -> Seq(EventType)]
      /\ extensions \in [Auctions -> Seq(Extension)]
  BY DEF Recorded, Inv, TypeOK, StoreTypeOK
<1>1. ASSUME notifications \subseteq notifications',
             \A i \in DOMAIN bids[x] : i \in DOMAIN bids'[x],
             \A i \in DOMAIN extensions[x] :
               i \in DOMAIN extensions'[x] /\ extensions'[x][i] = extensions[x][i],
             At(events[x], "STARTED") \subseteq At(events'[x], "STARTED"),
             auction[x].status \in Closed =>
               /\ auction'[x].status = auction[x].status
               /\ auction'[x].winningBidId = auction[x].winningBidId
               /\ auction'[x].endedAt = auction[x].endedAt
      PROVE  Recorded(m)'
  BY <1>1 DEF Recorded, Closed
<1>2. CASE Quiet
  BY <1>1, <1>2 DEF Quiet
<1>3. ASSUME NEW a \in Auctions, NEW r, NEW log \in Seq(EventType), NEW told,
             Wrote(a, r, log, told),
             auction[a].status \in Closed =>
               /\ r.status = auction[a].status
               /\ r.winningBidId = auction[a].winningBidId
               /\ r.endedAt = auction[a].endedAt
      PROVE  Recorded(m)'
  <2>1. /\ auction'[a] = r /\ events'[a] = events[a] \o log
        /\ bids' = bids /\ extensions' = extensions
        /\ \A y \in Auctions \ {a} : auction'[y] = auction[y] /\ events'[y] = events[y]
    BY <1>3, WroteAt
  <2>2. notifications \subseteq notifications'
    BY <1>3 DEF Wrote
  <2>3. At(events[x], "STARTED") \subseteq At(events'[x], "STARTED")
    BY <1>0, <1>3, <2>1, LogsKeepEntries
  <2>4. QED
    BY <1>0, <1>1, <1>3, <2>1, <2>2, <2>3
<1>4. ASSUME NEW a \in Auctions, NEW r, Creates(a, r) \/ Opens(a, r) \/ Publishes(a, r)
      PROVE  Recorded(m)'
  <2>1. PICK log \in Seq(EventType) : Wrote(a, r, log, {})
    <3>1. /\ <<"CREATED">> \in Seq(EventType) /\ <<"STARTED">> \in Seq(EventType)
          /\ <<"PUBLISHED">> \in Seq(EventType)
          /\ <<"PUBLISHED", "STARTED">> \in Seq(EventType)
      BY DEF EventType
    <3>2. QED
      BY <1>4, <3>1 DEF Creates, Opens, Publishes
  <2>2. auction[a].status \notin Closed
    BY <1>4 DEF Creates, Opens, Publishes, Closed, Settled
  <2>3. QED
    BY <1>3, <2>1, <2>2
<1>5. ASSUME NEW a \in Auctions, NEW r, Rewrites(a, r) \/ Pictures(a, r)
      PROVE  Recorded(m)'
  <2>1. PICK log \in Seq(EventType) : Wrote(a, r, log, {})
    <3>1. <<>> \in Seq(EventType)
      OBVIOUS
    <3>2. QED
      BY <1>5, <3>1 DEF Rewrites, Pictures
  <2>2. CASE Rewrites(a, r)
    <3>1. auction[a].status \notin Closed
      BY <2>2 DEF Rewrites, Closed, Settled
    <3>2. QED
      BY <1>3, <2>1, <3>1
  <2>3. CASE Pictures(a, r)
    <3>1. /\ r.status = auction[a].status /\ r.endedAt = auction[a].endedAt
          /\ r.winningBidId = auction[a].winningBidId
      BY <2>3 DEF Pictures
    <3>2. QED
      BY <1>3, <2>1, <3>1
  <2>4. QED
    BY <1>5, <2>2, <2>3
<1>6. ASSUME NEW a \in Auctions, NEW r, (\E told : Cancels(a, r, told)) \/ Settles(a, r)
      PROVE  Recorded(m)'
  <2>1. PICK log, told : log \in Seq(EventType) /\ Wrote(a, r, log, told)
    <3>1. <<"CANCELLED">> \in Seq(EventType) /\ <<"ENDED">> \in Seq(EventType)
      BY DEF EventType
    <3>2. QED
      BY <1>6, <3>1 DEF Cancels, Settles
  <2> log \in Seq(EventType)
    BY <2>1
  <2>2. auction[a].status \notin Closed
    BY <1>6 DEF Cancels, Settles, Closed, Settled
  <2>3. QED
    BY <1>3, <2>1, <2>2
<1>7. ASSUME NEW a \in Auctions, NEW r, NEW bid, Accepts(a, r, bid) PROVE Recorded(m)'
  <2>1. /\ notifications \subseteq notifications' /\ auction[a].status = "ACTIVE"
        /\ \A i \in DOMAIN bids[a] : i \in DOMAIN bids'[a]
        /\ \A y \in Auctions \ {a} : /\ auction'[y] = auction[y] /\ bids'[y] = bids[y]
                                     /\ extensions'[y] = extensions[y]
                                     /\ events'[y] = events[y]
    <3>1. notifications \subseteq notifications' /\ auction[a].status = "ACTIVE"
      BY <1>7 DEF Accepts
    <3>2. DOMAIN bids[a] = 1 .. Len(bids[a]) /\ DOMAIN bids'[a] = 1 .. (Len(bids[a]) + 1)
          /\ Len(bids[a]) \in Nat
      BY <1>7, AcceptsAt
    <3>3. QED
      BY <1>7, <3>1, <3>2, AcceptsAt
  <2>2. CASE x # a
    BY <1>0, <1>1, <2>1, <2>2
  <2>3. CASE x = a
    <3>1. PICK log \in Seq(EventType) : events'[a] = events[a] \o log
      <4>1. <<"BID_PLACED">> \in Seq(EventType) /\ <<"BID_PLACED", "EXTENDED">> \in Seq(EventType)
        BY DEF EventType
      <4>2. QED
        BY <1>0, <1>7, <4>1 DEF Accepts, NotExtended, Extended
    <3>2. \A i \in DOMAIN extensions[a] :
            i \in DOMAIN extensions'[a] /\ extensions'[a][i] = extensions[a][i]
      <4>1. CASE NotExtended(a, r)
        BY <4>1 DEF NotExtended
      <4>2. CASE Extended(a, Len(bids[a]) + 1, bid.placedAt, r)
        <5>1. PICK e : extensions' = [extensions EXCEPT ![a] = Append(@, e)]
          BY <4>2 DEF Extended
        <5>2. extensions'[a] = Append(extensions[a], e)
          BY <1>0, <5>1
        <5>3. QED
          BY <1>0, <5>2
      <4>3. QED
        BY <1>7, <4>1, <4>2 DEF Accepts
    <3>3. At(events[a], "STARTED") \subseteq At(events'[a], "STARTED")
      BY <1>0, <3>1, LogsKeepEntries
    <3>4. QED
      BY <1>1, <2>1, <2>3, <3>2, <3>3 DEF Closed, Settled
  <2>4. QED
    BY <2>2, <2>3
<1>8. QED
  BY <1>2, <1>4, <1>5, <1>6, <1>7, StepKinds

\* The workers that hold messages between a commit and its emits.
Workers == ({"call"} \X Calls) \cup ({"settle"} \X Settlers)
             \cup {<<"pass", Timer>>} \cup ({"desk"} \X DeskCalls)

Out(w) == IF w[1] = "call" THEN calls[w[2]].out
          ELSE IF w[1] = "settle" THEN settling[w[2]].out
          ELSE IF w[1] = "pass" THEN pass.out
          ELSE desk[w[2]].out

\* Three things a step may do to them: drop messages, send those of one
\* worker, or hand one worker messages about what has just been recorded.
Drops ==
  /\ announced' = announced
  /\ \A v \in Workers : Out(v)' = Out(v) \/ Out(v)' = {}

Emits(w) ==
  /\ announced' = announced \cup Out(w)
  /\ Out(w)' = {}
  /\ \A v \in Workers \ {w} : Out(v)' = Out(v)

Fills(w) ==
  /\ announced' = announced
  /\ \A m \in Out(w)' : Recorded(m)' /\ ~Recorded(m)
  /\ \A v \in Workers \ {w} : Out(v)' = Out(v)

BoxInv ==
  /\ \A m \in announced : Recorded(m)
  /\ \A w \in Workers : \A m \in Out(w) : Recorded(m) /\ m \notin announced
  /\ \A w, v \in Workers : w # v => Out(w) \cap Out(v) = {}

\* In a worker's hands nothing can be doubled: what it is handed was not on
\* record before, and everything sent or held elsewhere was.
LEMMA BoxesStand ==
  ASSUME BoxInv, \A m : Recorded(m) => Recorded(m)',
         Drops \/ \E w \in Workers : Emits(w) \/ Fills(w)
  PROVE  BoxInv'
<1>1. CASE Drops
  BY <1>1 DEF Drops, BoxInv
<1>2. ASSUME NEW w \in Workers, Emits(w) PROVE BoxInv'
  BY <1>2 DEF Emits, BoxInv
<1>3. ASSUME NEW w \in Workers, Fills(w) PROVE BoxInv'
  <2>1. \A m \in announced' : Recorded(m)'
    BY <1>3 DEF Fills, BoxInv
  <2>2. \A v \in Workers : \A m \in Out(v)' : Recorded(m)' /\ m \notin announced'
    BY <1>3 DEF Fills, BoxInv
  <2>3. ASSUME NEW v \in Workers, NEW y \in Workers, v # y
        PROVE  Out(v)' \cap Out(y)' = {}
    BY <1>3, <2>3 DEF Fills, BoxInv
  <2>4. QED
    BY <2>1, <2>2, <2>3 DEF BoxInv
<1>4. QED
  BY <1>1, <1>2, <1>3

\* The outboxes of the four kinds of worker.
LEMMA WorkersAre ==
  ASSUME NEW w \in Workers
  PROVE  \/ \E c \in Calls : w = <<"call", c>> /\ w[1] = "call" /\ w[2] = c
         \/ \E s \in Settlers : w = <<"settle", s>> /\ w[1] = "settle" /\ w[2] = s
         \/ w = <<"pass", Timer>> /\ w[1] = "pass"
         \/ \E k \in DeskCalls : w = <<"desk", k>> /\ w[1] = "desk" /\ w[2] = k
<1>1. CASE w \in {"call"} \X Calls
  BY <1>1
<1>2. CASE w \in {"settle"} \X Settlers
  BY <1>2
<1>3. CASE w = <<"pass", Timer>>
  BY <1>3
<1>4. CASE w \in {"desk"} \X DeskCalls
  BY <1>4
<1>5. QED
  BY <1>1, <1>2, <1>3, <1>4 DEF Workers

\* Outboxes that stand or are emptied.
LEMMA DropsAre ==
  ASSUME announced' = announced,
         \A c \in Calls : calls'[c].out = calls[c].out \/ calls'[c].out = {},
         \A s \in Settlers : settling'[s].out = settling[s].out \/ settling'[s].out = {},
         pass'.out = pass.out \/ pass'.out = {},
         \A k \in DeskCalls : desk'[k].out = desk[k].out \/ desk'[k].out = {}
  PROVE  Drops
<1> SUFFICES ASSUME NEW w \in Workers PROVE Out(w)' = Out(w) \/ Out(w)' = {}
  BY DEF Drops
<1>1. QED
  BY WorkersAre DEF Out

\* The outbox of a bid.
LEMMA CallBox ==
  ASSUME NEW c \in Calls, \A d \in Calls \ {c} : calls'[d] = calls[d],
         UNCHANGED <<settling, pass, desk>>
  PROVE  /\ <<"call", c>> \in Workers
         /\ Out(<<"call", c>>) = calls[c].out /\ Out(<<"call", c>>)' = calls'[c].out
         /\ \A v \in Workers \ {<<"call", c>>} : Out(v)' = Out(v)
<1>1. <<"call", c>> \in Workers
  BY DEF Workers
<1>2. ASSUME NEW v \in Workers \ {<<"call", c>>} PROVE Out(v)' = Out(v)
  BY WorkersAre DEF Out
<1>3. QED
  BY <1>1, <1>2 DEF Out

\* The outbox of a settlement.
LEMMA SettlerBox ==
  ASSUME NEW s \in Settlers, \A t \in Settlers \ {s} : settling'[t] = settling[t],
         UNCHANGED <<calls, pass, desk>>
  PROVE  /\ <<"settle", s>> \in Workers
         /\ Out(<<"settle", s>>) = settling[s].out /\ Out(<<"settle", s>>)' = settling'[s].out
         /\ \A v \in Workers \ {<<"settle", s>>} : Out(v)' = Out(v)
<1>1. <<"settle", s>> \in Workers
  BY DEF Workers
<1>2. ASSUME NEW v \in Workers \ {<<"settle", s>>} PROVE Out(v)' = Out(v)
  BY WorkersAre DEF Out
<1>3. QED
  BY <1>1, <1>2 DEF Out

\* The outbox of the timer.
LEMMA PassBox ==
  ASSUME UNCHANGED <<calls, settling, desk>>
  PROVE  /\ <<"pass", Timer>> \in Workers
         /\ Out(<<"pass", Timer>>) = pass.out /\ Out(<<"pass", Timer>>)' = pass'.out
         /\ \A v \in Workers \ {<<"pass", Timer>>} : Out(v)' = Out(v)
<1>1. <<"pass", Timer>> \in Workers
  BY DEF Workers
<1>2. ASSUME NEW v \in Workers \ {<<"pass", Timer>>} PROVE Out(v)' = Out(v)
  BY WorkersAre DEF Out
<1>3. QED
  BY <1>1, <1>2 DEF Out

\* The outbox of the seller's desk.
LEMMA DeskBox ==
  ASSUME NEW k \in DeskCalls, \A j \in DeskCalls \ {k} : desk'[j] = desk[j],
         UNCHANGED <<calls, settling, pass>>
  PROVE  /\ <<"desk", k>> \in Workers
         /\ Out(<<"desk", k>>) = desk[k].out /\ Out(<<"desk", k>>)' = desk'[k].out
         /\ \A v \in Workers \ {<<"desk", k>>} : Out(v)' = Out(v)
<1>1. <<"desk", k>> \in Workers
  BY DEF Workers
<1>2. ASSUME NEW v \in Workers \ {<<"desk", k>>} PROVE Out(v)' = Out(v)
  BY WorkersAre DEF Out
<1>3. QED
  BY <1>1, <1>2 DEF Out

\* Outboxes of recorded messages announce what is committed.
LEMMA WorkersAreOutboxes == BoxInv => AnnouncedOnceCommitted
<1> SUFFICES ASSUME BoxInv PROVE AnnouncedOnceCommitted
  OBVIOUS
<1>1. ASSUME NEW o \in Outboxes PROVE \E w \in Workers : o = <<w[1], w[2], Out(w)>>
  <2>1. CASE \E c \in Calls : o = <<"call", c, calls[c].out>>
    <3>1. PICK c \in Calls : o = <<"call", c, calls[c].out>>
      BY <2>1
    <3> DEFINE w == <<"call", c>>
    <3>2. w \in Workers /\ w[1] = "call" /\ w[2] = c
      BY DEF Workers
    <3> HIDE DEF w
    <3>3. QED
      BY <3>1, <3>2 DEF Out
  <2>2. CASE \E s \in Settlers : o = <<"settle", s, settling[s].out>>
    <3>1. PICK s \in Settlers : o = <<"settle", s, settling[s].out>>
      BY <2>2
    <3> DEFINE w == <<"settle", s>>
    <3>2. w \in Workers /\ w[1] = "settle" /\ w[2] = s
      BY DEF Workers
    <3> HIDE DEF w
    <3>3. QED
      BY <3>1, <3>2 DEF Out
  <2>3. CASE o = <<"pass", Timer, pass.out>>
    <3> DEFINE w == <<"pass", Timer>>
    <3>1. w \in Workers /\ w[1] = "pass" /\ w[2] = Timer
      BY DEF Workers
    <3> HIDE DEF w
    <3>2. QED
      BY <2>3, <3>1 DEF Out
  <2>4. CASE \E k \in DeskCalls : o = <<"desk", k, desk[k].out>>
    <3>1. PICK k \in DeskCalls : o = <<"desk", k, desk[k].out>>
      BY <2>4
    <3> DEFINE w == <<"desk", k>>
    <3>2. w \in Workers /\ w[1] = "desk" /\ w[2] = k
      BY DEF Workers
    <3> HIDE DEF w
    <3>3. QED
      BY <3>1, <3>2 DEF Out
  <2>5. QED
    BY <1>1, <2>1, <2>2, <2>3, <2>4 DEF Outboxes
<1>2. ASSUME NEW o \in Outboxes, NEW p \in Outboxes \ {o} PROVE o[3] \cap p[3] = {}
  <2>1. PICK w \in Workers, v \in Workers :
          o = <<w[1], w[2], Out(w)>> /\ p = <<v[1], v[2], Out(v)>>
    BY <1>1
  <2>2. w # v
    BY <2>1
  <2>3. QED
    BY <2>1, <2>2 DEF BoxInv
<1>3. ASSUME NEW o \in Outboxes
      PROVE  (\A m \in o[3] : Committed(m)) /\ o[3] \cap announced = {}
  <2>1. PICK w \in Workers : o = <<w[1], w[2], Out(w)>>
    BY <1>1
  <2>2. \A m \in o[3] : Recorded(m) /\ m \notin announced
    BY <2>1 DEF BoxInv
  <2>3. QED
    BY <2>2, RecordedIsCommitted
<1>4. \A m \in announced : Committed(m)
  BY RecordedIsCommitted DEF BoxInv
<1>5. QED
  BY <1>2, <1>3, <1>4 DEF AnnouncedOnceCommitted

\* An accepted bid: its number, its extension's number and the number of its
\* OUTBID row are all new.
LEMMA AcceptFills ==
  ASSUME Inv, DeadlineEarned, LeadChangesTold, NEW c \in Calls, AcceptBid(c),
         UNCHANGED <<settling, pass, desk>>
  PROVE  Fills(<<"call", c>>)
<1>0. /\ calls[c].req.auctionId \in Auctions
      /\ Accepts(calls[c].req.auctionId, auction'[calls[c].req.auctionId], NewBid(c))
  BY AcceptIsKind
<1>1. PICK a, r, new, n :
        /\ a \in Auctions /\ a = calls[c].req.auctionId /\ r = auction'[a] /\ new = NewBid(c)
        /\ n = Len(bids[a]) + 1 /\ Accepts(a, r, new)
  BY <1>0
<1> a \in Auctions
  BY <1>1
<1> DEFINE old == auction[a]
<1> DEFINE extends == calculateAntiSniping(calls[c].row, calls[c].now)
<1> DEFINE end == ExtendedEnd(calls[c].row)
<1> DEFINE row == RowAfterBid(old, calls[c].req.amount, extends, end)
<1> DEFINE outbid == OutbidNotifications(a, new.bidderId, n)
<1> DEFINE news == {RoomMessage("auction:bid", a, n, row.currentEndAt)} \cup outbid
                   \cup IF extends
                        THEN {RoomMessage("auction:extension", a,
                                          row.extensionCount, row.currentEndAt)}
                        ELSE {}
<1>2. /\ calls \in [Calls -> Call] /\ calls[c] \in Call /\ auction[a] \in Row
      /\ extensions[a] \in Seq(Extension) /\ extensions \in [Auctions -> Seq(Extension)]
  BY DEF Inv, TypeOK, BiddingTypeOK, StoreTypeOK
<1>3. new.bidderId = MinterOf[calls[c].req.clientRequestId] /\ new.bidderId \in Users
  <2>1. calls[c].pc = "write"
    BY DEF AcceptBid
  <2>2. calls[c].req \in Inputs
    BY <2>1 DEF Inv, CallOK
  <2>3. QED
    BY <1>1, <2>2, BiddingAssumption DEF NewBid
<1>4. calls'[c].out = news /\ \A d \in Calls \ {c} : calls'[d] = calls[d]
  BY <1>1, <1>2, <1>3 DEF AcceptBid, Call
<1>5. /\ announced' = announced /\ notifications' = notifications \cup outbid
      /\ extensions'[a] = IF extends THEN Append(extensions[a], NewExtension(c, n))
                                     ELSE extensions[a]
  BY <1>1, <1>2, <1>3 DEF AcceptBid
<1>6. /\ n \in Nat /\ n \in DOMAIN bids'[a] /\ n \notin DOMAIN bids[a]
      /\ \A i \in DOMAIN bids[a] : bids[a][i] \in Bid
  BY <1>1, AcceptsAt
<1>7. extends => /\ row.currentEndAt = end
                 /\ row.extensionCount = Len(extensions[a]) + 1
  <2>1. old.extensionCount = Len(extensions[a])
    BY DEF DeadlineEarned
  <2>2. QED
    BY <1>2, <2>1 DEF RowAfterBid, Row
<1>8. NewExtension(c, n).newEndAt = end
  BY DEF NewExtension
<1> HIDE DEF extends, end, row, outbid
<1>9. ASSUME NEW m \in outbid PROVE Recorded(m)' /\ ~Recorded(m)
  <2>1. LeadingBid(bids[a]) = Len(bids[a])
    BY LeadingBidIsLast DEF Inv, TypeOK
  <2>2. \E u \in Users : m = Notification("OUTBID", a, u, n)
    <3>1. /\ LeadingBid(bids[a]) # 0
          /\ m = Notification("OUTBID", a, bids[a][LeadingBid(bids[a])].bidderId, n)
      BY <1>9 DEF outbid, OutbidNotifications
    <3>2. LeadingBid(bids[a]) \in DOMAIN bids[a]
      BY <2>1, <3>1 DEF Inv, TypeOK, StoreTypeOK
    <3>3. QED
      BY <1>6, <3>1, <3>2 DEF Bid
  <2>3. m.event = "OUTBID" /\ m.auctionId = a /\ m.n = n /\ m.userId \in Users /\ m.userId # Null
    BY <2>2, StoreAssumption DEF Notification
  <2>4. m \notin notifications
    <3> SUFFICES ASSUME m \in notifications PROVE FALSE
      OBVIOUS
    <3>1. PICK i \in DOMAIN bids[a] : m = Notification("OUTBID", a, bids[a][i - 1].bidderId, i)
      BY <2>3 DEF LeadChangesTold
    <3>2. m.n = i
      BY <3>1 DEF Notification
    <3>3. QED
      BY <1>6, <2>3, <3>2
  <2>5. QED
    BY <1>5, <1>9, <2>3, <2>4 DEF Recorded, RoomType
<1>10. ASSUME NEW m, m = RoomMessage("auction:bid", a, n, row.currentEndAt)
       PROVE  Recorded(m)' /\ ~Recorded(m)
  <2>1. m.event = "auction:bid" /\ m.auctionId = a /\ m.userId = Null /\ m.n = n
    BY <1>10 DEF RoomMessage
  <2>2. QED
    BY <1>6, <2>1 DEF Recorded, RoomType
<1>11. ASSUME extends, NEW m,
              m = RoomMessage("auction:extension", a, row.extensionCount, row.currentEndAt)
       PROVE  Recorded(m)' /\ ~Recorded(m)
  <2>1. /\ m.event = "auction:extension" /\ m.auctionId = a /\ m.userId = Null
        /\ m.n = Len(extensions[a]) + 1 /\ m.at = end
    BY <1>7, <1>11 DEF RoomMessage
  <2>2. extensions'[a] = Append(extensions[a], NewExtension(c, n))
    BY <1>5, <1>11
  <2>3. /\ Len(extensions[a]) + 1 \in DOMAIN extensions'[a]
        /\ extensions'[a][Len(extensions[a]) + 1] = NewExtension(c, n)
        /\ Len(extensions[a]) + 1 \notin DOMAIN extensions[a]
    BY <1>2, <2>2
  <2>4. QED
    BY <1>8, <2>1, <2>3 DEF Recorded, RoomType
<1>12. \A m \in news : Recorded(m)' /\ ~Recorded(m)
  BY <1>9, <1>10, <1>11
<1> HIDE DEF news
<1>13. QED
  BY <1>4, <1>5, <1>12, CallBox DEF Fills

\* Rows that tell of an ending are new while the auction is not closed.
LEMMA EndingsAreNew ==
  ASSUME EndingsHeard, NEW a \in Auctions, auction[a].status \notin Closed,
         NEW m, m.event \in EndingType, m.auctionId = a, m.userId \in Users
  PROVE  m \notin notifications
BY DEF EndingsHeard, Hears, Tellings, EndingType

\* A settlement fills its outbox with what it has committed.
LEMMA SettleFills ==
  ASSUME Inv, EndingsHeard, NEW s \in Settlers, SettleWrite(s), UNCHANGED <<calls, pass, desk>>
  PROVE  Fills(<<"settle", s>>)
<1>0. /\ settling[s].auctionId \in Auctions
      /\ Settles(settling[s].auctionId, RowAfterSettlement(settling[s].auctionId, s))
  BY SettleIsKind
<1>1. PICK a, r : /\ a \in Auctions /\ a = settling[s].auctionId
                  /\ r = RowAfterSettlement(a, s) /\ Settles(a, r)
  BY <1>0
<1> a \in Auctions
  BY <1>1
<1> DEFINE told == SettlementNotifications(a, r)
<1> DEFINE ended == RoomMessage("auction:ended", a, r.winningBidId, r.endedAt)
<1>2. /\ settling'[s].out = told \cup {ended}
      /\ \A t \in Settlers \ {s} : settling'[t] = settling[t]
  BY <1>1 DEF SettleWrite, Inv, TypeOK, SettlementTypeOK, Settler
<1>3. /\ announced' = announced /\ notifications' = notifications \cup told
      /\ auction[a].status = "ACTIVE" /\ r.status \in Settled /\ r \in Row
      /\ auction'[a] = r
  BY <1>1, WroteAt DEF Settles, Wrote
<1>4. auction[a].status \notin Closed
  BY <1>3 DEF Closed, Settled
<1>5. ASSUME NEW m \in told PROVE Recorded(m)' /\ ~Recorded(m)
  <2>1. \E u \in Users : \/ m = Notification("AUCTION_WON", a, u, r.winningBidId)
                         \/ m = Notification("AUCTION_ENDED", a, u, 0)
    <3>1. r.winnerUserId \in Users \cup {Null}
      BY <1>3 DEF Row
    <3>2. findAuctionAudience(a, {r.winnerUserId}) \subseteq Users /\ SellerOf[a] \in Users
      BY AudienceTyped, StoreAssumption DEF Inv, TypeOK
    <3>3. QED
      BY <1>5, <3>1, <3>2 DEF SettlementNotifications
  <2>2. m.event \in EndingType /\ m.auctionId = a /\ m.userId \in Users
    BY <2>1 DEF Notification, EndingType
  <2>3. m \notin notifications /\ m.userId # Null
    BY <1>4, <2>2, EndingsAreNew, StoreAssumption
  <2>4. QED
    BY <1>3, <1>5, <2>2, <2>3 DEF Recorded, RoomType, EndingType
<1>6. ASSUME NEW m, m = ended PROVE Recorded(m)' /\ ~Recorded(m)
  <2>1. /\ m.event = "auction:ended" /\ m.auctionId = a /\ m.userId = Null
        /\ m.n = r.winningBidId /\ m.at = r.endedAt
    BY <1>6 DEF RoomMessage
  <2>2. QED
    BY <1>3, <1>4, <2>1 DEF Recorded, RoomType, Closed
<1> HIDE DEF told, ended
<1>7. QED
  BY <1>2, <1>3, <1>5, <1>6, SettlerBox DEF Fills

\* So does a cancellation.
LEMMA CancelFills ==
  ASSUME Inv, EndingsHeard, NEW k \in DeskCalls, Cancel(k), UNCHANGED <<calls, settling, pass>>
  PROVE  Fills(<<"desk", k>>)
<1>1. PICK a, r, told :
        /\ a \in Auctions /\ a = desk[k].auctionId /\ Cancels(a, r, told)
        /\ CancelNotifications(k) = {Notification("AUCTION_CANCELLED", a, u, 0) : u \in told}
  BY CancelIsKind
<1> a \in Auctions
  BY <1>1
<1> DEFINE sent == {Notification("AUCTION_CANCELLED", a, u, 0) : u \in told}
<1> DEFINE gone == RoomMessage("auction:cancelled", a, 0, Null)
<1>2. /\ desk'[k].out = sent \cup {gone}
      /\ \A j \in DeskCalls \ {k} : desk'[j] = desk[j]
  BY <1>1 DEF Cancel, Inv, TypeOK, DeskTypeOK, DeskCall
<1>3. /\ announced' = announced /\ notifications' = notifications \cup sent
      /\ auction[a].status \in {"DRAFT", "SCHEDULED", "ACTIVE"} /\ r.status = "CANCELLED"
      /\ auction'[a] = r
  BY <1>1, WroteAt DEF Cancels, Wrote
<1>4. auction[a].status \notin Closed
  BY <1>3 DEF Closed, Settled
<1>5. ASSUME NEW m \in sent PROVE Recorded(m)' /\ ~Recorded(m)
  <2>1. told \subseteq Users
    BY <1>1, AudienceTyped, StoreAssumption DEF Inv, TypeOK, Cancels
  <2>2. m.event \in EndingType /\ m.auctionId = a /\ m.userId \in Users
    BY <1>5, <2>1 DEF Notification, EndingType
  <2>3. m \notin notifications /\ m.userId # Null
    BY <1>4, <2>2, EndingsAreNew, StoreAssumption
  <2>4. QED
    BY <1>3, <1>5, <2>2, <2>3 DEF Recorded, RoomType, EndingType
<1>6. ASSUME NEW m, m = gone PROVE Recorded(m)' /\ ~Recorded(m)
  <2>1. m.event = "auction:cancelled" /\ m.auctionId = a /\ m.userId = Null
    BY <1>6 DEF RoomMessage
  <2>2. QED
    BY <1>3, <2>1 DEF Recorded, RoomType
<1> HIDE DEF sent, gone
<1>7. QED
  BY <1>2, <1>3, <1>5, <1>6, DeskBox DEF Fills

\* So does the timer.
LEMMA StartFills ==
  ASSUME Inv, Stories, Stories', StartAuction, UNCHANGED <<calls, settling, desk>>
  PROVE  Fills(<<"pass", Timer>>)
<1>1. PICK d, r :
        /\ d \in pass.due /\ d.auctionId \in Auctions
        /\ Opens(d.auctionId, r)
        /\ pass' = [pass EXCEPT
             !.pc = "announce", !.due = @ \ {d},
             !.out = {RoomMessage("auction:started", d.auctionId, 0, d.endsAt)}]
  BY StartIsKind
<1> d \in pass.due
  BY <1>1
<1> DEFINE a == d.auctionId
<1> DEFINE started == RoomMessage("auction:started", a, 0, d.endsAt)
<1>2. pass'.out = {started}
  BY <1>1 DEF Inv, TypeOK, LifecycleTypeOK, Pass
<1>3. /\ announced' = announced /\ auction[a].status = "SCHEDULED"
      /\ auction'[a].status = "ACTIVE"
  BY <1>1, WroteAt DEF Opens, Wrote
<1>4. At(events[a], "STARTED") = {} /\ At(events'[a], "STARTED") # {}
  BY <1>1, <1>3 DEF Stories, Story
<1>5. ASSUME NEW m, m = started PROVE Recorded(m)' /\ ~Recorded(m)
  <2>1. m.event = "auction:started" /\ m.auctionId = a /\ m.userId = Null
    BY <1>5 DEF RoomMessage
  <2>2. QED
    BY <1>1, <1>4, <2>1 DEF Recorded, RoomType
<1> HIDE DEF started
<1>6. QED
  BY <1>2, <1>3, <1>5, PassBox DEF Fills

\* What the steps of one call do to the boxes.
LEMMA BidderBoxes ==
  ASSUME Inv, DeadlineEarned, LeadChangesTold, NEW c \in Calls, BidderStep(c)
  PROVE  Drops \/ Emits(<<"call", c>>) \/ Fills(<<"call", c>>)
<1>0. UNCHANGED <<settling, pass, desk>> /\ calls \in [Calls -> Call] /\ calls[c] \in Call
  BY DEF BidderStep, Inv, TypeOK, BiddingTypeOK
<1>1. ASSUME \A d \in Calls \ {c} : calls'[d] = calls[d], announced' = announced,
             calls'[c].out = calls[c].out \/ calls'[c].out = {}
      PROVE  Drops
  BY <1>0, <1>1, DropsAre
<1>2. ASSUME NEW answer, Answer(c, answer)
      PROVE  calls'[c].out = {} /\ \A d \in Calls \ {c} : calls'[d] = calls[d]
  BY <1>0, <1>2 DEF Answer, IdleCall
<1>3. ASSUME NEW p, Goto(c, p)
      PROVE  calls'[c].out = calls[c].out /\ \A d \in Calls \ {c} : calls'[d] = calls[d]
  BY <1>0, <1>3 DEF Goto, Call
<1>4. CASE ReceiveBid(c)
  BY <1>0, <1>1, <1>4 DEF ReceiveBid, storeVars, Call
<1>5. CASE LookupRequest(c)
  BY <1>1, <1>2, <1>3, <1>5 DEF LookupRequest, AnswerFromLedger, storeVars
<1>6. CASE ReadAuction(c)
  BY <1>0, <1>1, <1>2, <1>6 DEF ReadAuction, storeVars, Call
<1>7. CASE AcceptBid(c)
  BY <1>0, <1>7, AcceptFills
<1>8. CASE CollideOnRequest(c) \/ LoseRace(c)
  BY <1>1, <1>3, <1>8 DEF CollideOnRequest, LoseRace, storeVars
<1>9. CASE AnswerLostRace(c)
  BY <1>1, <1>2, <1>9 DEF AnswerLostRace, AnswerFromLedger, storeVars
<1>10. CASE AnnounceBid(c)
  <2>1. /\ announced' = announced \cup calls[c].out /\ calls'[c].out = {}
        /\ \A d \in Calls \ {c} : calls'[d] = calls[d]
    BY <1>2, <1>10 DEF AnnounceBid, Emit
  <2>2. QED
    BY <1>0, <2>1, CallBox DEF Emits
<1>11. QED
  BY <1>4, <1>5, <1>6, <1>7, <1>8, <1>9, <1>10 DEF BidderStep, BiddingStep

\* Every step of a settlement.
LEMMA SettlerBoxes ==
  ASSUME Inv, EndingsHeard, NEW s \in Settlers, FindPublicAuction(s) \/ SettlementStep(s),
         UNCHANGED <<calls, pass, desk>>
  PROVE  Drops \/ Emits(<<"settle", s>>) \/ Fills(<<"settle", s>>)
<1>0. settling \in [Settlers -> Settler] /\ settling[s] \in Settler
  BY DEF Inv, TypeOK, SettlementTypeOK
<1>1. ASSUME \A t \in Settlers \ {s} : settling'[t] = settling[t], announced' = announced,
             settling'[s].out = settling[s].out \/ settling'[s].out = {}
      PROVE  Drops
  BY <1>1, DropsAre
<1>2. ASSUME Finish(s)
      PROVE  settling'[s].out = {} /\ \A t \in Settlers \ {s} : settling'[t] = settling[t]
  BY <1>0, <1>2 DEF Finish, FinishedSettler, IdleSettler
<1>3. ASSUME NEW a, Settle(s, a)
      PROVE  /\ settling'[s].out = settling[s].out
             /\ \A t \in Settlers \ {s} : settling'[t] = settling[t]
  BY <1>0, <1>3 DEF Settle, Settler
<1>4. CASE FindPublicAuction(s)
  BY <1>1, <1>2, <1>3, <1>4 DEF FindPublicAuction, storeVars
<1>5. CASE SettleRead(s)
  BY <1>0, <1>1, <1>2, <1>5 DEF SettleRead, storeVars, Settler
<1>6. CASE SettleDecide(s)
  BY <1>0, <1>1, <1>2, <1>6 DEF SettleDecide, storeVars, Settler
<1>7. CASE SettleWrite(s)
  BY <1>7, SettleFills
<1>8. CASE SettleLost(s)
  BY <1>1, <1>2, <1>8 DEF SettleLost, storeVars
<1>9. CASE SettleAnnounce(s)
  <2>1. /\ announced' = announced \cup settling[s].out /\ settling'[s].out = {}
        /\ \A t \in Settlers \ {s} : settling'[t] = settling[t]
    BY <1>2, <1>9 DEF SettleAnnounce, Emit
  <2>2. QED
    BY <2>1, SettlerBox DEF Emits
<1>10. QED
  BY <1>4, <1>5, <1>6, <1>7, <1>8, <1>9 DEF SettlementStep

\* Every step of the seller's desk.
LEMMA DeskBoxes ==
  ASSUME Inv, EndingsHeard, NEW k \in DeskCalls, DeskStep(k), UNCHANGED <<calls, settling, pass>>
  PROVE  Drops \/ Emits(<<"desk", k>>) \/ Fills(<<"desk", k>>)
<1>0. desk \in [DeskCalls -> DeskCall]
  BY DEF Inv, TypeOK, DeskTypeOK
<1>1. ASSUME \A j \in DeskCalls \ {k} : desk'[j] = desk[j], announced' = announced,
             desk'[k].out = {}
      PROVE  Drops
  BY <1>1, DropsAre
<1>2. ASSUME Done(k) PROVE desk'[k].out = {} /\ \A j \in DeskCalls \ {k} : desk'[j] = desk[j]
  BY <1>0, <1>2 DEF Done, DoneDesk, IdleDesk
<1>3. CASE Begin(k)
  BY <1>0, <1>1, <1>3 DEF Begin, DoneDesk, IdleDesk, storeVars
<1>4. CASE Publish(k) \/ UpdateOwnAuction(k) \/ AddDraftImage(k) \/ RemoveDraftImage(k)
  BY <1>1, <1>2, <1>4 DEF Publish, UpdateOwnAuction, AddDraftImage, RemoveDraftImage, WriteRow
<1>5. CASE Refuse(k)
  BY <1>1, <1>2, <1>5 DEF Refuse, storeVars
<1>6. CASE Cancel(k)
  BY <1>6, CancelFills
<1>7. CASE AnnounceCancel(k)
  <2>1. /\ announced' = announced \cup desk[k].out /\ desk'[k].out = {}
        /\ \A j \in DeskCalls \ {k} : desk'[j] = desk[j]
    BY <1>2, <1>7 DEF AnnounceCancel, Emit
  <2>2. QED
    BY <2>1, DeskBox DEF Emits
<1>8. QED
  BY <1>3, <1>4, <1>5, <1>6, <1>7 DEF DeskStep

\* Every step keeps the outboxes to what is recorded.
LEMMA BoxSteps ==
  ASSUME Inv, DeadlineEarned, LeadChangesTold, Stories, Stories', EndingsHeard, [Next]_vars
  PROVE  Drops \/ \E w \in Workers : Emits(w) \/ Fills(w)
<1>0. /\ \A c \in Calls : <<"call", c>> \in Workers
      /\ \A s \in Settlers : <<"settle", s>> \in Workers
      /\ <<"pass", Timer>> \in Workers /\ Timer \in Settlers
      /\ \A k \in DeskCalls : <<"desk", k>> \in Workers
  BY DEF Workers, Settlers
<1>1. ASSUME UNCHANGED <<calls, settling, desk>>, announced' = announced,
             pass'.out = pass.out \/ pass'.out = {}
      PROVE  Drops
  BY <1>1, DropsAre
<1>2. ASSUME NEW c \in Calls, BidderStep(c) PROVE \E w \in Workers : Drops \/ Emits(w) \/ Fills(w)
  BY <1>0, <1>2, BidderBoxes
<1>3. ASSUME NEW r \in Readers, ReaderStep(r)
      PROVE  \E w \in Workers : Drops \/ Emits(w) \/ Fills(w)
  <2>1. r \in Settlers
    BY DEF Settlers
  <2>2. QED
    BY <1>0, <1>3, <2>1, SettlerBoxes DEF ReaderStep
<1>4. CASE TimerStep
  <2>0. UNCHANGED <<calls, desk>> /\ pass \in Pass
    BY <1>4 DEF TimerStep, Inv, TypeOK, LifecycleTypeOK
  <2>1. CASE BeginPass \/ SkipStart \/ BeginSettling \/ EndPass
    <3>1. announced' = announced /\ settling' = settling
      BY <2>1 DEF BeginPass, SkipStart, BeginSettling, EndPass, storeVars
    <3>2. pass'.out = pass.out \/ pass'.out = {}
      <4>1. CASE BeginPass
        BY <4>1 DEF BeginPass, IdlePass
      <4>2. CASE SkipStart
        BY <2>0, <4>2 DEF SkipStart, Pass
      <4>3. CASE BeginSettling
        <5>1. PICK batch : pass' = [pass EXCEPT !.pc = "settle", !.due = DueRows(batch)]
          BY <4>3 DEF BeginSettling
        <5>2. QED
          BY <2>0, <5>1 DEF Pass
      <4>4. CASE EndPass
        BY <4>4 DEF EndPass, IdlePass
      <4>5. QED
        BY <2>1, <4>1, <4>2, <4>3, <4>4
    <3>3. QED
      BY <1>1, <2>0, <3>1, <3>2
  <2>2. CASE StartAuction
    <3>1. settling' = settling
      BY <2>2 DEF StartAuction
    <3>2. QED
      BY <1>0, <2>0, <2>2, <3>1, StartFills
  <2>3. CASE AnnounceStart
    <3>1. announced' = announced \cup pass.out /\ pass'.out = {} /\ settling' = settling
      BY <2>0, <2>3 DEF AnnounceStart, Emit, Pass
    <3>2. Emits(<<"pass", Timer>>)
      BY <2>0, <3>1, PassBox DEF Emits
    <3>3. QED
      BY <1>0, <3>2
  <2>4. CASE SettleNext
    <3>1. settling \in [Settlers -> Settler] /\ settling[Timer] \in Settler
      BY <1>0 DEF Inv, TypeOK, SettlementTypeOK
    <3>2. announced' = announced /\ pass'.out = pass.out
      BY <2>0, <2>4 DEF SettleNext, storeVars, Pass
    <3>3. \A s \in Settlers : settling'[s].out = settling[s].out
      BY <2>4, <3>1 DEF SettleNext, Settle, Settler
    <3>4. QED
      BY <2>0, <3>2, <3>3, DropsAre
  <2>5. CASE SettlementStep(Timer) /\ UNCHANGED pass
    BY <1>0, <2>0, <2>5, SettlerBoxes
  <2>6. QED
    BY <1>4, <2>1, <2>2, <2>3, <2>4, <2>5 DEF TimerStep, LifecycleStep
<1>5. CASE SellerStep
  <2>0. UNCHANGED <<calls, settling, pass>>
    BY <1>5 DEF SellerStep
  <2>1. ASSUME NEW a \in Auctions, CreateDraft(a) PROVE Drops
    BY <1>1, <2>0, <2>1 DEF CreateDraft
  <2>2. ASSUME NEW k \in DeskCalls, DeskStep(k)
        PROVE  \E w \in Workers : Drops \/ Emits(w) \/ Fills(w)
    BY <1>0, <2>0, <2>2, DeskBoxes
  <2>3. QED
    BY <1>5, <2>1, <2>2 DEF SellerStep
<1>6. CASE ClockStep \/ UNCHANGED vars
  BY <1>1, <1>6 DEF ClockStep, Tick, vars, storeVars
<1>7. CASE PassFailure \/ Crash
  <2>1. announced' = announced /\ pass'.out = {}
    BY <1>7 DEF PassFailure, PassFails, Crash, IdlePass, storeVars
  <2>2. \A s \in Settlers : settling'[s].out = settling[s].out \/ settling'[s].out = {}
    BY <1>0, <1>7 DEF PassFailure, PassFails, Crash, SettlerLost, FinishedSettler, IdleSettler,
       Inv, TypeOK, SettlementTypeOK
  <2>3. \A c \in Calls : calls'[c].out = calls[c].out \/ calls'[c].out = {}
    BY <1>7 DEF PassFailure, Crash, CallLost, IdleCall
  <2>4. \A k \in DeskCalls : desk'[k].out = desk[k].out \/ desk'[k].out = {}
    BY <1>7 DEF PassFailure, Crash, DeskLost, DoneDesk, IdleDesk
  <2>5. QED
    BY <2>1, <2>2, <2>3, <2>4, DropsAre
<1>8. QED
  BY <1>2, <1>3, <1>4, <1>5, <1>6, <1>7 DEF Next

\* Only what is committed leaves the process, and no fact leaves it twice:
\* whatever a worker is handed to send was not on record before its own
\* commit, and everything any other worker holds or has sent was.
THEOREM AnnouncementsFollowCommits == Spec => []AnnouncedOnceCommitted
<1>1. Init => BoxInv
  <2> SUFFICES ASSUME Init PROVE BoxInv
    OBVIOUS
  <2>1. announced = {} /\ pass.out = {}
    BY DEF Init, StoreInit, LifecycleInit, IdlePass
  <2>2. /\ \A c \in Calls : calls[c].out = {}
        /\ \A s \in Settlers : settling[s].out = {}
        /\ \A k \in DeskCalls : desk[k].out = {}
    BY DEF Init, BiddingInit, SettlementInit, DeskInit, IdleCall, IdleSettler, IdleDesk
  <2>3. \A w \in Workers : Out(w) = {}
    BY <2>1, <2>2, WorkersAre DEF Out
  <2>4. QED
    BY <2>1, <2>3 DEF BoxInv
<1>2. Inv /\ DeadlineEarned /\ LeadChangesTold /\ Stories /\ Stories' /\ EndingsHeard
        /\ BoxInv /\ [Next]_vars => BoxInv'
  BY BoxesStand, BoxSteps, RecordStands
<1>3. EndingsToldOnce => EndingsHeard
  BY HeardIsToldOnce
<1>4. QED
  BY <1>1, <1>2, <1>3, WorkersAreOutboxes, Invariance, DeadlinesAreEarned, LeadsAreTold,
     StoriesHold, EndingsAreToldOnce, PTL DEF Spec

-----------------------------------------------------------------------------
(***************************************************************************)
(* AuctionHouse implements AuctionContract: each kind of write to the      *)
(* record is one promised step of one auction, and everything else the     *)
(* workers do is a step the contract does not see.                         *)
(***************************************************************************)


\* The contract's view of the database, as in Contract's substitution.
Terms(row) == [startingPrice |-> row.startingPrice,
               minBidIncrement |-> row.minBidIncrement,
               reservePrice |-> row.reservePrice]
Entry(b) == [bidderId |-> b.bidderId, amount |-> b.amount]
Entries(b) == [i \in DOMAIN b |-> Entry(b[i])]

Phases == [a \in Auctions |-> PhaseOf(auction[a].status)]
AllTerms == [a \in Auctions |-> Terms(auction[a])]
Ledgers == [a \in Auctions |-> Entries(bids[a])]
Deadlines == [a \in Auctions |-> auction[a].currentEndAt]
Granted == [a \in Auctions |-> auction[a].extensionCount]
Winners == [a \in Auctions |-> auction[a].winningBidId]

\* The record, read as the contract's variables.
View == <<Phases, AllTerms, Ledgers, Deadlines, Granted, Winners>>

\* The contract's variables are what the record shows of the house.
LEMMA ViewIs == Contract!contractVars = View
BY DEF Contract!contractVars, View, Phases, AllTerms, Ledgers, Deadlines, Granted, Winners,
   Terms, Entry, Entries

-----------------------------------------------------------------------------
\* An interval from 1 determines its length.
LEMMA SameInterval ==
  ASSUME NEW m \in Nat, NEW n \in Nat, 1 .. m = 1 .. n
  PROVE  m = n
<1>1. m # 0 => m \in 1 .. m
  OBVIOUS
<1>2. n # 0 => n \in 1 .. n
  OBVIOUS
<1>3. QED
  BY <1>1, <1>2

\* The view of a ledger is a sequence as long as the ledger, and grows with it.
LEMMA EntriesAre ==
  ASSUME NEW b \in Seq(Bid)
  PROVE  /\ Entries(b) \in Seq([bidderId : Users, amount : Nat])
         /\ Len(Entries(b)) = Len(b) /\ Len(b) \in Nat
         /\ DOMAIN b = 1 .. Len(b)
         /\ \A i \in 1 .. Len(b) : Entries(b)[i] = Entry(b[i])
<1> DEFINE S == [bidderId : Users, amount : Nat]
<1>1. DOMAIN b = 1 .. Len(b) /\ Len(b) \in Nat /\ \A i \in 1 .. Len(b) : b[i] \in Bid
  OBVIOUS
<1>2. \A i \in 1 .. Len(b) : Entry(b[i]) \in S
  BY <1>1 DEF Entry, Bid
<1> HIDE DEF S
<1>3. /\ Entries(b) \in [1 .. Len(b) -> S]
      /\ \A i \in 1 .. Len(b) : Entries(b)[i] = Entry(b[i])
  BY <1>1, <1>2 DEF Entries
<1>4. Entries(b) \in Seq(S)
  BY <1>1, <1>3, SeqDef
<1>5. DOMAIN Entries(b) = 1 .. Len(Entries(b)) /\ Len(Entries(b)) \in Nat
  BY <1>4, LenProperties
<1>6. DOMAIN Entries(b) = 1 .. Len(b)
  BY <1>3
<1>7. Len(Entries(b)) = Len(b)
  BY <1>1, <1>5, <1>6, SameInterval
<1>8. QED
  BY <1>1, <1>3, <1>4, <1>7 DEF S

\* What is appended to the ledger is what the contract appends.
LEMMA EntriesGrow ==
  ASSUME NEW b \in Seq(Bid), NEW x \in Bid
  PROVE  Entries(Append(b, x)) = Append(Entries(b), Entry(x))
<1> DEFINE S == [bidderId : Users, amount : Nat]
<1> DEFINE c == Append(b, x)
<1>1. /\ c \in Seq(Bid) /\ Len(c) = Len(b) + 1 /\ Len(b) \in Nat
      /\ c[Len(b) + 1] = x /\ \A i \in 1 .. Len(b) : c[i] = b[i]
  BY AppendProperties
<1> HIDE DEF c
<1>2. /\ Entries(b) \in Seq(S) /\ Len(Entries(b)) = Len(b)
      /\ \A i \in 1 .. Len(b) : Entries(b)[i] = Entry(b[i])
  BY EntriesAre
<1>3. /\ Entries(c) \in Seq(S) /\ Len(Entries(c)) = Len(c)
      /\ \A i \in 1 .. Len(c) : Entries(c)[i] = Entry(c[i])
  BY <1>1, EntriesAre
<1>4. Entry(x) \in S
  BY DEF Entry, Bid
<1> HIDE DEF S
<1> DEFINE d == Append(Entries(b), Entry(x))
<1>5. /\ d \in Seq(S) /\ Len(d) = Len(b) + 1 /\ d[Len(b) + 1] = Entry(x)
      /\ \A i \in 1 .. Len(b) : d[i] = Entries(b)[i]
  BY <1>2, <1>4, AppendProperties
<1> HIDE DEF d
<1>6. \A i \in 1 .. (Len(b) + 1) : d[i] = Entries(c)[i]
  BY <1>1, <1>2, <1>3, <1>5
<1>7. d = Entries(c)
  BY <1>1, <1>3, <1>5, <1>6, SeqEqual
<1>8. QED
  BY <1>7 DEF c, d

-----------------------------------------------------------------------------
(***************************************************************************)
(* Each kind of write is a step of the contract                            *)
(***************************************************************************)

\* The view after a write of one row: only that auction's entries move.
LEMMA ViewAfterWrite ==
  ASSUME Inv, NEW a \in Auctions, NEW r, NEW log, NEW told, Wrote(a, r, log, told)
  PROVE  /\ Phases' = [Phases EXCEPT ![a] = PhaseOf(r.status)]
         /\ AllTerms' = [AllTerms EXCEPT ![a] = Terms(r)]
         /\ Ledgers' = Ledgers
         /\ Deadlines' = [Deadlines EXCEPT ![a] = r.currentEndAt]
         /\ Granted' = [Granted EXCEPT ![a] = r.extensionCount]
         /\ Winners' = [Winners EXCEPT ![a] = r.winningBidId]
<1>1. /\ auction'[a] = r /\ bids' = bids
      /\ \A x \in Auctions \ {a} : auction'[x] = auction[x]
  BY WroteAt
<1>2. Ledgers' = Ledgers
  BY <1>1 DEF Ledgers
<1>3. QED
  BY <1>1, <1>2 DEF Phases, AllTerms, Deadlines, Granted, Winners

\* What a row that stands leaves of the view.
LEMMA ViewStands ==
  ASSUME Inv, NEW a \in Auctions, NEW r, NEW log, NEW told, Wrote(a, r, log, told),
         Stands(r, auction[a])
  PROVE  UNCHANGED <<AllTerms, Ledgers, Deadlines, Granted>>
<1>1. /\ Terms(r) = AllTerms[a] /\ r.currentEndAt = Deadlines[a]
      /\ r.extensionCount = Granted[a]
  BY DEF Stands, Terms, AllTerms, Deadlines, Granted
<1>2. /\ AllTerms' = [AllTerms EXCEPT ![a] = Terms(r)] /\ Ledgers' = Ledgers
      /\ Deadlines' = [Deadlines EXCEPT ![a] = r.currentEndAt]
      /\ Granted' = [Granted EXCEPT ![a] = r.extensionCount]
  BY ViewAfterWrite
<1>3. QED
  BY <1>1, <1>2 DEF AllTerms, Deadlines, Granted

\* Creating and editing a draft implement Prepare.
LEMMA PreparesContract ==
  ASSUME Inv, DeadlineEarned, NotYetExtended, NEW a \in Auctions, NEW r,
         Creates(a, r) \/ Rewrites(a, r)
  PROVE  Contract!Prepare(a)
<1>1. PICK log : Wrote(a, r, log, {})
  BY DEF Creates, Rewrites
<1>2. auction[a].status \in {"NONE", "DRAFT", "SCHEDULED"}
  BY DEF Creates, Rewrites
<1>3. auction[a].winningBidId = 0
  BY <1>2 DEF Inv, SaleGrounded
<1>4. auction[a].extensionCount = 0
  <2>1. extensions[a] = <<>>
    BY <1>2 DEF NotYetExtended
  <2>2. QED
    BY <2>1 DEF DeadlineEarned
<1>5. /\ PhaseOf(r.status) = PhaseOf(auction[a].status)
      /\ r.winningBidId = auction[a].winningBidId
      /\ r.extensionCount = auction[a].extensionCount
  BY <1>3, <1>4 DEF Creates, Rewrites, PhaseOf
<1>6. UNCHANGED <<Phases, Ledgers, Granted, Winners>>
  <2>1. /\ Phases' = [Phases EXCEPT ![a] = PhaseOf(r.status)] /\ Ledgers' = Ledgers
        /\ Granted' = [Granted EXCEPT ![a] = r.extensionCount]
        /\ Winners' = [Winners EXCEPT ![a] = r.winningBidId]
    BY <1>1, ViewAfterWrite
  <2>2. QED
    BY <1>5, <2>1 DEF Phases, Granted, Winners
<1>7. \A x \in Auctions \ {a} : AllTerms'[x] = AllTerms[x] /\ Deadlines'[x] = Deadlines[x]
  BY <1>1, WroteAt DEF AllTerms, Deadlines
<1>8. Phases[a] \in {"private", "announced"}
  BY <1>2 DEF Phases, PhaseOf
<1>9. QED
  BY <1>6, <1>7, <1>8 DEF Contract!Prepare, Phases, AllTerms, Ledgers, Deadlines, Granted,
     Winners, Terms, Entry, Entries

\* Publishing implements Publish.
LEMMA PublishesContract ==
  ASSUME Inv, NEW a \in Auctions, NEW r, Publishes(a, r) \/ Opens(a, r)
  PROVE  Contract!Publish(a) \/ Contract!Open(a)
<1>1. PICK log : Wrote(a, r, log, {})
  BY DEF Publishes, Opens
<1>2. /\ Stands(r, auction[a]) /\ r.winningBidId = auction[a].winningBidId
      /\ auction[a].status \in {"DRAFT", "SCHEDULED"}
      /\ \/ r.status = "SCHEDULED" /\ auction[a].status = "DRAFT"
         \/ r.status = "ACTIVE"
  BY DEF Publishes, Opens
<1>3. UNCHANGED <<AllTerms, Ledgers, Deadlines, Granted>>
  BY <1>1, <1>2, ViewStands
<1>4. /\ Phases' = [Phases EXCEPT ![a] = PhaseOf(r.status)]
      /\ Winners' = [Winners EXCEPT ![a] = r.winningBidId]
  BY <1>1, ViewAfterWrite
<1>5. Winners' = Winners
  BY <1>2, <1>4 DEF Winners
<1>6. CASE r.status = "SCHEDULED" /\ auction[a].status = "DRAFT"
  <2>1. PhaseOf(r.status) = "announced" /\ Phases[a] = "private"
    BY <1>6 DEF Phases, PhaseOf
  <2>2. QED
    BY <1>3, <1>4, <1>5, <2>1 DEF Contract!Publish, Contract!Moves, Phases, AllTerms, Ledgers,
       Deadlines, Granted, Winners, Terms, Entry, Entries
<1>7. CASE r.status = "ACTIVE"
  <2>1. PhaseOf(r.status) = "open" /\ Phases[a] \in {"private", "announced"}
    BY <1>2, <1>7 DEF Phases, PhaseOf
  <2>2. QED
    BY <1>3, <1>4, <1>5, <2>1 DEF Contract!Open, Contract!Moves, Phases, AllTerms, Ledgers,
       Deadlines, Granted, Winners, Terms, Entry, Entries
<1>8. QED
  BY <1>2, <1>6, <1>7

\* Cancelling implements Cancel.
LEMMA CancelsContract ==
  ASSUME Inv, NEW a \in Auctions, NEW r, NEW told, Cancels(a, r, told)
  PROVE  Contract!Withdraw(a)
<1> DEFINE sent == {Notification("AUCTION_CANCELLED", a, u, 0) : u \in told}
<1>1. /\ Wrote(a, r, <<"CANCELLED">>, sent)
      /\ Stands(r, auction[a]) /\ r.winningBidId = auction[a].winningBidId
      /\ auction[a].status \in {"DRAFT", "SCHEDULED", "ACTIVE"} /\ r.status = "CANCELLED"
  BY DEF Cancels
<1> HIDE DEF sent
<1>2. UNCHANGED <<AllTerms, Ledgers, Deadlines, Granted>>
  BY <1>1, ViewStands
<1>3. /\ Phases' = [Phases EXCEPT ![a] = PhaseOf(r.status)]
      /\ Winners' = [Winners EXCEPT ![a] = r.winningBidId]
  BY <1>1, ViewAfterWrite
<1>4. Winners' = Winners
  BY <1>1, <1>3 DEF Winners
<1>5. PhaseOf(r.status) = "withdrawn" /\ Phases[a] \in {"private", "announced", "open"}
  BY <1>1 DEF Phases, PhaseOf
<1>6. QED
  BY <1>2, <1>3, <1>4, <1>5 DEF Contract!Withdraw, Contract!Moves, Phases, AllTerms, Ledgers,
     Deadlines, Granted, Winners, Terms, Entry, Entries

\* Settling implements Settle.
LEMMA SettlesContract ==
  ASSUME Inv, NEW a \in Auctions, NEW r, Settles(a, r)
  PROVE  Contract!Close(a)
<1>1. /\ Wrote(a, r, <<"ENDED">>, SettlementNotifications(a, r))
      /\ Stands(r, auction[a]) /\ auction[a].status = "ACTIVE"
      /\ r.status \in Settled /\ SaleOf(r, bids[a])
  BY DEF Settles
<1>2. UNCHANGED <<AllTerms, Ledgers, Deadlines, Granted>>
  BY <1>1, ViewStands
<1>3. /\ Phases' = [Phases EXCEPT ![a] = PhaseOf(r.status)]
      /\ Winners' = [Winners EXCEPT ![a] = r.winningBidId]
  BY <1>1, ViewAfterWrite
<1>4. Phases[a] = "open"
  BY <1>1 DEF Phases, PhaseOf
<1>5. CASE r.status = "UNSOLD"
  <2>1. r.winningBidId = auction[a].winningBidId
    BY <1>1, <1>5 DEF SaleOf, Inv, SaleGrounded
  <2>2. Winners' = Winners /\ PhaseOf(r.status) = "unsold"
    BY <1>3, <1>5, <2>1 DEF Winners, PhaseOf
  <2>3. QED
    BY <1>2, <1>3, <1>4, <2>2 DEF Contract!Close, Contract!Moves, Phases, AllTerms, Ledgers,
       Deadlines, Granted, Winners, Terms, Entry, Entries
<1>6. CASE r.status = "SOLD"
  <2> DEFINE n == r.winningBidId
  <2>1. /\ n \in DOMAIN bids[a] /\ PhaseOf(r.status) = "sold"
        /\ r.reservePrice # Null => bids[a][n].amount >= r.reservePrice
    BY <1>1, <1>6 DEF SaleOf, calculateReserveMet, PhaseOf
  <2>2. /\ AllTerms[a].reservePrice = r.reservePrice
        /\ n \in DOMAIN Ledgers[a]
        /\ Ledgers[a][n].amount = bids[a][n].amount
    BY <1>1, <2>1 DEF AllTerms, Terms, Stands, Ledgers, Entries, Entry
  <2>3. Contract!ReserveMet(a, n)
    BY <2>1, <2>2 DEF Contract!ReserveMet, AllTerms, Ledgers, Terms, Entry, Entries
  <2> HIDE DEF n
  <2>4. Winners' = [Winners EXCEPT ![a] = n]
    BY <1>3 DEF n
  <2>5. QED
    BY <1>2, <1>3, <1>4, <2>1, <2>2, <2>3, <2>4 DEF Contract!Close, Contract!Moves, Phases,
       AllTerms, Ledgers, Deadlines, Granted, Winners, Terms, Entry, Entries
<1>7. QED
  BY <1>1, <1>5, <1>6 DEF Settled

\* Accepting a bid implements Accept.
LEMMA AcceptsContract ==
  ASSUME Inv, NEW a \in Auctions, NEW r, NEW bid, Accepts(a, r, bid)
  PROVE  Contract!Bid(a)
<1> DEFINE old == auction[a]
<1> DEFINE b == bids[a]
<1>1. /\ auction'[a] = r /\ bids'[a] = Append(b, bid) /\ b \in Seq(Bid)
      /\ \A x \in Auctions \ {a} : auction'[x] = auction[x] /\ bids'[x] = bids[x]
  BY AcceptsAt
<1>2. /\ old.status = "ACTIVE" /\ r.status = "ACTIVE" /\ bid \in Bid
      /\ old.currentEndAt \in Nat /\ bid.bidderId # SellerOf[a]
      /\ bid.amount >= calculateMinimumBid(old)
      /\ Terms(r) = Terms(old) /\ r.winningBidId = old.winningBidId
      /\ \/ r.currentEndAt = old.currentEndAt /\ r.extensionCount = old.extensionCount
         \/ /\ old.extensionCount < MAX_EXTENSIONS
            /\ r.currentEndAt = old.currentEndAt + ANTI_SNIPING_EXTENSION
            /\ r.extensionCount = old.extensionCount + 1
  BY DEF Accepts, NotExtended, Extended, Terms
<1>3. UNCHANGED <<Phases, AllTerms, Winners>>
  BY <1>1, <1>2 DEF Phases, AllTerms, Winners
<1>4. /\ Entries(bids'[a]) = Append(Entries(b), Entry(bid))
      /\ Len(Entries(b)) = Len(b) /\ Len(b) \in Nat
      /\ \A i \in 1 .. Len(b) : Entries(b)[i] = Entry(b[i])
      /\ Entries(b) \in Seq([bidderId : Users, amount : Nat])
  BY <1>1, <1>2, EntriesGrow, EntriesAre
<1>5. Entry(bid) \in [bidderId : Users, amount : Nat]
  BY <1>2 DEF Entry, Bid
<1>6. /\ Ledgers[a] = Entries(b) /\ Ledgers'[a] = Append(Entries(b), Entry(bid))
      /\ Ledgers' = [Ledgers EXCEPT ![a] = Append(Ledgers[a], Entry(bid))]
  BY <1>1, <1>4 DEF Ledgers
<1>7. /\ Len(Ledgers'[a]) = Len(Ledgers[a]) + 1
      /\ Ledgers'[a][Len(Ledgers[a]) + 1] = Entry(bid)
  BY <1>4, <1>5, <1>6, AppendProperties
<1>8. Entry(bid).bidderId \in Users \ {SellerOf[a]} /\ Entry(bid).amount = bid.amount
  BY <1>2 DEF Entry, Bid
<1>9. calculateMinimumBid(old) =
        IF Ledgers[a] = <<>> THEN AllTerms[a].startingPrice
        ELSE Ledgers[a][Len(Ledgers[a])].amount + AllTerms[a].minBidIncrement
  <2>1. old.bidCount = Len(b) /\ (b # <<>> => old.currentPrice = b[Len(b)].amount)
    BY DEF Inv, LedgerSound
  <2>2. /\ AllTerms[a].startingPrice = old.startingPrice
        /\ AllTerms[a].minBidIncrement = old.minBidIncrement
    BY DEF AllTerms, Terms
  <2>3. CASE Len(b) = 0
    <3>1. Ledgers[a] = <<>>
      BY <1>4, <1>6, <2>3, EmptySeq
    <3>2. QED
      BY <2>1, <2>2, <2>3, <3>1 DEF calculateMinimumBid
  <2>4. CASE Len(b) # 0
    <3>1. Len(b) \in 1 .. Len(b) /\ b # <<>> /\ Ledgers[a] # <<>>
      BY <1>1, <1>4, <1>6, <2>4, EmptySeq
    <3>2. Ledgers[a][Len(Ledgers[a])].amount = b[Len(b)].amount
      <4>1. Ledgers[a][Len(b)] = Entry(b[Len(b)]) /\ Len(Ledgers[a]) = Len(b)
        BY <1>4, <1>6, <3>1
      <4>2. Entry(b[Len(b)]).amount = b[Len(b)].amount
        BY DEF Entry
      <4>3. QED
        BY <4>1, <4>2
    <3>3. QED
      BY <2>1, <2>2, <2>4, <3>1, <3>2 DEF calculateMinimumBid
  <2>5. QED
    BY <2>3, <2>4
<1>10. \/ UNCHANGED <<Deadlines, Granted>>
       \/ /\ Granted[a] < MAX_EXTENSIONS
          /\ Granted' = [Granted EXCEPT ![a] = @ + 1]
          /\ Deadlines' = [Deadlines EXCEPT ![a] = @ + ANTI_SNIPING_EXTENSION]
  BY <1>1, <1>2 DEF Deadlines, Granted
<1>11. Phases[a] = "open" /\ Deadlines[a] # Null
  BY <1>2, RulesAssumption DEF Phases, PhaseOf, Deadlines
<1>12. Contract!Lowest(a) = calculateMinimumBid(old)
  BY <1>9 DEF Contract!Lowest, AllTerms, Ledgers, Terms, Entry, Entries
<1>13. LET new == Ledgers'[a][Len(Ledgers[a]) + 1]
       IN  /\ Ledgers' = [Ledgers EXCEPT ![a] = Append(@, new)]
           /\ new.bidderId \in Users \ {SellerOf[a]}
           /\ new.amount >= Contract!Lowest(a)
  BY <1>2, <1>6, <1>7, <1>8, <1>12
<1>14. QED
  BY <1>3, <1>7, <1>10, <1>11, <1>13 DEF Contract!Bid, Phases, AllTerms,
     Ledgers, Deadlines, Granted, Winners, Terms, Entry, Entries

\* Every step of the house is a step of the contract or a stutter.
LEMMA ContractStep ==
  ASSUME Inv, DeadlineEarned, NotYetExtended, [Next]_vars
  PROVE  [Contract!Next]_(Contract!contractVars)
<1>1. ASSUME View' = View PROVE Contract!contractVars' = Contract!contractVars
  BY <1>1 DEF Contract!contractVars, View, Phases, AllTerms, Ledgers, Deadlines, Granted,
     Winners, Terms, Entry, Entries
<1>2. CASE Quiet
  <2>1. View' = View
    BY <1>2 DEF Quiet, View, Phases, AllTerms, Ledgers, Deadlines, Granted, Winners
  <2>2. QED
    BY <1>1, <2>1
<1>3. ASSUME NEW a \in Auctions, NEW r, Pictures(a, r)
      PROVE  Contract!contractVars' = Contract!contractVars
  <2>1. PICK log : Wrote(a, r, log, {})
    BY <1>3 DEF Pictures
  <2>2. /\ Stands(r, auction[a]) /\ r.status = auction[a].status
        /\ r.winningBidId = auction[a].winningBidId
    BY <1>3 DEF Pictures
  <2>3. UNCHANGED <<AllTerms, Ledgers, Deadlines, Granted>>
    BY <2>1, <2>2, ViewStands
  <2>4. /\ Phases' = [Phases EXCEPT ![a] = PhaseOf(r.status)]
        /\ Winners' = [Winners EXCEPT ![a] = r.winningBidId]
    BY <2>1, ViewAfterWrite
  <2>5. Phases' = Phases /\ Winners' = Winners
    BY <2>2, <2>4 DEF Phases, Winners
  <2>6. View' = View
    BY <2>3, <2>5 DEF View
  <2>7. QED
    BY <1>1, <2>6
<1>4. ASSUME NEW a \in Auctions, NEW r,
             \/ Creates(a, r) \/ Rewrites(a, r) \/ Publishes(a, r) \/ Opens(a, r)
             \/ (\E told : Cancels(a, r, told)) \/ Settles(a, r) \/ \E bid : Accepts(a, r, bid)
      PROVE  Contract!Next
  <2>1. \/ Contract!Prepare(a) \/ Contract!Publish(a) \/ Contract!Open(a)
        \/ Contract!Bid(a) \/ Contract!Close(a) \/ Contract!Withdraw(a)
    BY <1>4, PreparesContract, PublishesContract, CancelsContract, SettlesContract,
       AcceptsContract
  <2>2. QED
    BY <2>1 DEF Contract!Next
<1>5. QED
  BY <1>2, <1>3, <1>4, StepKinds

\* Calls, transactions, version checks, the timer and the desk together
\* implement the abstract auction: no interleaving, stale read or crash makes
\* a step the contract does not promise.
THEOREM HouseImplementsContract == Spec => ImplementsContract
<1>1. Init => Contract!Init
  BY DEF Init, StoreInit, NoRow, PhaseOf, Contract!Init
<1>2. Inv /\ DeadlineEarned /\ NotYetExtended /\ [Next]_vars
        => [Contract!Next]_(Contract!contractVars)
  BY ContractStep
<1>3. QED
  BY <1>1, <1>2, Invariance, DeadlineHolds, PTL DEF Spec, ImplementsContract, Contract!Spec
=============================================================================
