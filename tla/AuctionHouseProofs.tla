------------------------- MODULE AuctionHouseProofs -------------------------
(***************************************************************************)
(* Proofs about AuctionHouse, for any number of auctions, users, calls,    *)
(* readers and desk executions, any bids, drafts, rules and bounds.        *)
(*                                                                         *)
(* The ledger is sound because a bid is written only over the very row it  *)
(* was judged by.  That is a fact about calls in flight (CallOK), so the   *)
(* inductive invariant speaks of what every worker holds in its hands.     *)
(***************************************************************************)
EXTENDS AuctionHouse, TLAPS

\* No bid before an auction opens, and a positive increment once it exists.
RowOK(a) ==
  /\ auction[a].status \in {"NONE", "DRAFT", "SCHEDULED"} => bids[a] = <<>>
  /\ auction[a].status # "NONE" => auction[a].minBidIncrement > 0

\* A call about to write judged a row that is the current one or has since
\* been superseded by a higher version.
CallOK(c) ==
  LET call == calls[c]
      row == auction[call.req.auctionId]
  IN  /\ call.pc # "idle" => call.req \in Inputs
      /\ call.pc = "write" =>
           /\ row.status # "NONE"
           /\ call.row.rowVersion <= row.rowVersion
           /\ call.row.rowVersion = row.rowVersion => call.row = row
           /\ ~BidRefused(call.row, c)

\* A settlement in flight works on an auction that has opened, with its
\* reserve, and with a bid that is on record.
SettlerOK(s) ==
  LET w == settling[s]
  IN  /\ w.pc \in {"read", "decide", "write", "announce"} => w.auctionId \in Auctions
      /\ w.pc \in {"decide", "write"} =>
           /\ auction[w.auctionId].status \in {"ACTIVE"} \cup Closed
           /\ w.row.reservePrice = auction[w.auctionId].reservePrice
      /\ w.pc = "write" => w.highestBid \in 0 .. Len(bids[w.auctionId])

\* A desk operation about to write read a row its own checks let through.
DeskOK(k) ==
  LET w == desk[k]
  IN  w.pc = "write" =>
        /\ w.auctionId \in Auctions
        /\ auction[w.auctionId].status # "NONE"
        /\ w.op = "edit" => w.draft \in Drafts
        /\ w.op \in {"edit", "cancel"} => w.row.status \in {"DRAFT", "SCHEDULED"}
        /\ w.op = "adminCancel" => w.row.status \in CANCELLABLE_BY_ADMIN

Inv ==
  /\ TypeOK
  /\ LedgerSound
  /\ SaleGrounded
  /\ \A a \in Auctions : RowOK(a)
  /\ \A c \in Calls : CallOK(c)
  /\ \A s \in Settlers : SettlerOK(s)
  /\ \A k \in DeskCalls : DeskOK(k)

-----------------------------------------------------------------------------
(***************************************************************************)
(* The ledger                                                              *)
(***************************************************************************)

\* In a sound ledger the last bid outranks all others under
\* LEADING_BID_ORDER, and no other does: findFirst returns it.
LEMMA LeadingBidIsLast ==
  ASSUME NEW a \in Auctions, StoreTypeOK, LedgerSound, RowOK(a)
  PROVE  LeadingBid(bids[a]) = Len(bids[a])
<1> DEFINE b == bids[a]
<1> DEFINE n == Len(b)
<1>0. b \in Seq(Bid)
  BY DEF StoreTypeOK
<1>1. CASE b = <<>>
  BY <1>1 DEF LeadingBid
<1>2. CASE b # <<>>
  <2>1. n \in DOMAIN b /\ n \in Nat /\ \A i \in DOMAIN b : i \in Nat /\ i <= n
    BY <1>0, <1>2
  <2>2. auction[a].minBidIncrement \in Nat /\ auction[a].minBidIncrement > 0
    BY <1>2 DEF StoreTypeOK, Row, RowOK, Status
  <2>3. \A i \in DOMAIN b : b[i].amount \in Nat /\ b[i].sequenceNo \in Nat
    <3>1. \A i \in DOMAIN b : b[i] \in Bid
      BY <1>0
    <3>2. QED
      BY <3>1 DEF Bid
  <2>4. \A i \in DOMAIN b : i < n => b[i].amount + auction[a].minBidIncrement <= b[n].amount
    BY <2>1 DEF LedgerSound
  <2>5. \A j \in DOMAIN b : Outranks(b[n], b[j])
    BY <2>1, <2>2, <2>3, <2>4 DEF Outranks
  <2>6. \A i \in DOMAIN b : (\A j \in DOMAIN b : Outranks(b[i], b[j])) => i = n
    BY <2>1, <2>2, <2>3, <2>4 DEF Outranks
  <2>7. QED
    BY <1>2, <2>1, <2>5, <2>6 DEF LeadingBid
<1>3. QED
  BY <1>1, <1>2

-----------------------------------------------------------------------------
(***************************************************************************)
(* Frames: what stands when a step leaves rows, or one worker, alone       *)
(***************************************************************************)

\* Workers a step does not touch stay in order when the rows do not change.
LEMMA RowsUntouched ==
  ASSUME Inv, auction' = auction, bids' = bids
  PROVE  /\ LedgerSound' /\ SaleGrounded'
         /\ \A a \in Auctions : RowOK(a)'
         /\ \A c \in Calls : calls'[c] = calls[c] => CallOK(c)'
         /\ \A s \in Settlers : settling'[s] = settling[s] => SettlerOK(s)'
         /\ \A k \in DeskCalls : desk'[k] = desk[k] => DeskOK(k)'
<1>1. LedgerSound'
  BY DEF Inv, LedgerSound
<1>2. SaleGrounded'
  BY DEF Inv, SaleGrounded
<1>3. \A a \in Auctions : RowOK(a)'
  BY DEF Inv, RowOK
<1>4. \A c \in Calls : calls'[c] = calls[c] => CallOK(c)'
  BY DEF Inv, CallOK, BidRefused
<1>5. \A s \in Settlers : settling'[s] = settling[s] => SettlerOK(s)'
  BY DEF Inv, SettlerOK
<1>6. \A k \in DeskCalls : desk'[k] = desk[k] => DeskOK(k)'
  BY DEF Inv, DeskOK
<1>7. QED
  BY <1>1, <1>2, <1>3, <1>4, <1>5, <1>6

\* The part of SaleGrounded that speaks of one row.
SaleOf(row, b) ==
  IF row.status = "SOLD"
  THEN /\ row.winningBidId \in DOMAIN b
       /\ row.winnerUserId = b[row.winningBidId].bidderId
       /\ row.soldPrice = b[row.winningBidId].amount
       /\ calculateReserveMet(row.soldPrice, row.reservePrice)
  ELSE row.winningBidId = 0 /\ row.winnerUserId = Null /\ row.soldPrice = Null

\* Row r may take the place of auction a's without a bid being placed: the
\* version moves, the ledger's figures stand, the terms move only while there
\* is no bid, and an auction that has opened stays open or closes.
Replaces(a, r) ==
  /\ r \in Row
  /\ r.status # "NONE"
  /\ r.minBidIncrement > 0
  /\ auction[a].status = "NONE" \/ r.rowVersion = auction[a].rowVersion + 1
  /\ r.bidCount = auction[a].bidCount
  /\ \/ bids[a] = <<>>
     \/ /\ r.currentPrice = auction[a].currentPrice
        /\ r.startingPrice = auction[a].startingPrice
        /\ r.minBidIncrement = auction[a].minBidIncrement
  /\ r.status \in {"DRAFT", "SCHEDULED"} => bids[a] = <<>>
  /\ auction[a].status \in {"ACTIVE"} \cup Closed =>
       r.status \in {"ACTIVE"} \cup Closed /\ r.reservePrice = auction[a].reservePrice
  /\ SaleOf(r, bids[a])

\* Such a write keeps every row sound and every other worker in order: a call
\* in flight finds its snapshot superseded.
LEMMA RowReplaced ==
  ASSUME Inv, NEW a \in Auctions, NEW r, Replaces(a, r),
         auction' = [auction EXCEPT ![a] = r], bids' = bids
  PROVE  /\ auction' \in [Auctions -> Row]
         /\ LedgerSound' /\ SaleGrounded'
         /\ \A x \in Auctions : RowOK(x)'
         /\ \A c \in Calls : calls'[c] = calls[c] => CallOK(c)'
         /\ \A s \in Settlers : settling'[s] = settling[s] => SettlerOK(s)'
         /\ \A k \in DeskCalls : desk'[k] = desk[k] => DeskOK(k)'
<1>1. auction \in [Auctions -> Row] /\ bids \in [Auctions -> Seq(Bid)]
  BY DEF Inv, TypeOK, StoreTypeOK
<1>2. auction'[a] = r /\ \A x \in Auctions : x # a => auction'[x] = auction[x]
  BY <1>1
<1>3. auction' \in [Auctions -> Row]
  BY <1>1 DEF Replaces
<1>4. LedgerSound'
  <2> SUFFICES ASSUME NEW x \in Auctions
               PROVE  LET row == auction'[x]
                          b == bids[x]
                      IN  /\ row.bidCount = Len(b)
                          /\ \A i \in DOMAIN b :
                               /\ b[i].sequenceNo = i
                               /\ b[i].bidderId # SellerOf[x]
                               /\ b[i].amount >= row.startingPrice
                          /\ \A i, j \in DOMAIN b :
                               i < j => b[i].amount + row.minBidIncrement <= b[j].amount
                          /\ b # <<>> => row.currentPrice = b[Len(b)].amount
    BY DEF LedgerSound
  <2>1. CASE x # a
    BY <2>1, <1>2 DEF Inv, LedgerSound
  <2>2. CASE x = a /\ bids[a] = <<>>
    BY <2>2, <1>2 DEF Inv, LedgerSound, Replaces
  <2>3. CASE x = a /\ bids[a] # <<>>
    BY <2>3, <1>2 DEF Inv, LedgerSound, Replaces
  <2>4. QED
    BY <2>1, <2>2, <2>3
<1>5. SaleGrounded'
  BY <1>2 DEF Inv, SaleGrounded, Replaces, SaleOf
<1>6. \A x \in Auctions : RowOK(x)'
  BY <1>2 DEF Inv, RowOK, Replaces
<1>7. \A c \in Calls : calls'[c] = calls[c] => CallOK(c)'
  <2> SUFFICES ASSUME NEW c \in Calls, calls'[c] = calls[c] PROVE CallOK(c)'
    OBVIOUS
  <2>1. CallOK(c)
    BY DEF Inv
  <2>2. CASE calls[c].pc # "write"
    BY <2>1, <2>2 DEF CallOK
  <2>3. CASE calls[c].pc = "write"
    <3>1. calls[c].req \in Inputs /\ calls[c].req.auctionId \in Auctions
      BY <2>1, <2>3, BiddingAssumption DEF CallOK
    <3>2. (~BidRefused(calls[c].row, c)) = (~BidRefused(calls[c].row, c))'
      BY DEF BidRefused
    <3>3. auction[a].rowVersion \in Nat /\ calls[c].row.rowVersion \in Nat
      BY <1>1 DEF Row, Inv, TypeOK, BiddingTypeOK, Call
    <3>4. QED
      BY <1>2, <2>1, <2>3, <3>1, <3>2, <3>3 DEF CallOK, Replaces
  <2>4. QED
    BY <2>2, <2>3
<1>8. \A s \in Settlers : settling'[s] = settling[s] => SettlerOK(s)'
  BY <1>2 DEF Inv, SettlerOK, Replaces
<1>9. \A k \in DeskCalls : desk'[k] = desk[k] => DeskOK(k)'
  BY <1>2 DEF Inv, DeskOK, Replaces
<1>10. QED
  BY <1>3, <1>4, <1>5, <1>6, <1>7, <1>8, <1>9

-----------------------------------------------------------------------------
(***************************************************************************)
(* Typing of the parts                                                     *)
(***************************************************************************)
LEMMA MessagesTyped ==
  ASSUME NEW e \in MessageType, NEW a \in Auctions, NEW n \in Nat
  PROVE  /\ \A at \in NatOrNull : RoomMessage(e, a, n, at) \in Messages
         /\ \A u \in Users : Notification(e, a, u, n) \in Messages
BY DEF RoomMessage, Notification, Messages, NatOrNull

LEMMA NoRowTyped == NoRow \in Row
BY DEF NoRow, Row, Status, NatOrNull

LEMMA IdleTyped ==
  /\ IdleCall \in Call
  /\ IdleSettler \in Settler
  /\ IdlePass \in Pass
  /\ IdleDesk \in DeskCall
  /\ DoneDesk \in DeskCall
BY NoRowTyped DEF IdleCall, Call, NoAnswer, BidAnswer, IdleSettler, Settler, IdlePass,
   Pass, IdleDesk, DoneDesk, DeskCall

\* The audience of an auction are users.
LEMMA AudienceTyped ==
  ASSUME StoreTypeOK, NEW a \in Auctions, NEW excluded
  PROVE  findAuctionAudience(a, excluded) \subseteq Users
<1>1. \A i \in DOMAIN bids[a] : bids[a][i] \in Bid
  BY DEF StoreTypeOK
<1>2. Bidders(a) \subseteq Users
  BY <1>1 DEF Bidders, Bid
<1>3. QED
  BY <1>2, StoreAssumption DEF findAuctionAudience, Watching

LEMMA InitInv == Init => Inv
<1> SUFFICES ASSUME Init PROVE Inv
  OBVIOUS
<1> USE DEF Init, StoreInit, BiddingInit, SettlementInit, LifecycleInit, DeskInit
<1>1. TypeOK
  BY NoRowTyped, IdleTyped DEF TypeOK, StoreTypeOK, BiddingTypeOK, SettlementTypeOK,
     LifecycleTypeOK, DeskTypeOK
<1>2. LedgerSound
  BY DEF LedgerSound, NoRow
<1>3. SaleGrounded
  BY DEF SaleGrounded, NoRow
<1>4. \A a \in Auctions : RowOK(a)
  BY DEF RowOK, NoRow
<1>5. \A c \in Calls : CallOK(c)
  BY DEF CallOK, IdleCall
<1>6. \A s \in Settlers : SettlerOK(s)
  BY DEF SettlerOK, IdleSettler
<1>7. \A k \in DeskCalls : DeskOK(k)
  BY DEF DeskOK, IdleDesk
<1>8. QED
  BY <1>1, <1>2, <1>3, <1>4, <1>5, <1>6, <1>7 DEF Inv

-----------------------------------------------------------------------------
(***************************************************************************)
(* Bidding                                                                 *)
(***************************************************************************)

\* A step that moves one call and writes no row.
LEMMA CallMoves ==
  ASSUME Inv, StoreTypeOK', auction' = auction, bids' = bids,
         UNCHANGED <<settling, pass, desk, faults>>,
         NEW c \in Calls, calls' \in [Calls -> Call],
         \A d \in Calls \ {c} : calls'[d] = calls[d],
         CallOK(c)'
  PROVE  Inv'
<1>1. TypeOK'
  BY DEF Inv, TypeOK, BiddingTypeOK, SettlementTypeOK, LifecycleTypeOK, DeskTypeOK
<1>2. QED
  BY <1>1, RowsUntouched DEF Inv

\* The ways a call ends or moves on with nothing in its hands.
LEMMA CallAnswers ==
  ASSUME Inv, StoreTypeOK', auction' = auction, bids' = bids,
         UNCHANGED <<settling, pass, desk, faults>>,
         NEW c \in Calls, calls[c].pc # "idle",
         NEW answer \in BidAnswer, Answer(c, answer)
  PROVE  Inv'
<1> DEFINE w == [IdleCall EXCEPT !.pc = "done", !.req = calls[c].req, !.answer = answer]
<1>1. calls \in [Calls -> Call] /\ calls[c].req \in Inputs
  BY DEF Inv, TypeOK, BiddingTypeOK, CallOK
<1>2. w \in Call
  BY <1>1, IdleTyped DEF Call
<1>3. calls' = [calls EXCEPT ![c] = w]
  BY DEF Answer
<1>4. calls' \in [Calls -> Call] /\ \A d \in Calls \ {c} : calls'[d] = calls[d]
  BY <1>1, <1>2, <1>3
<1>5. CallOK(c)'
  BY <1>1, <1>3 DEF CallOK, IdleCall
<1>6. QED
  BY <1>4, <1>5, CallMoves

LEMMA StoreUntouched ==
  ASSUME Inv, UNCHANGED storeVars
  PROVE  StoreTypeOK' /\ auction' = auction /\ bids' = bids
BY DEF Inv, TypeOK, StoreTypeOK, storeVars

\* What the ledger answers is typed.
LEMMA LedgerAnswers ==
  ASSUME Inv, UNCHANGED storeVars, UNCHANGED <<settling, pass, desk, faults>>,
         NEW c \in Calls, calls[c].pc # "idle", AnswerFromLedger(c)
  PROVE  Inv'
<1>1. PICK existing \in FindByRequest(calls[c].req.clientRequestId) :
             Answer(c, replayOrRefuse(existing, calls[c].req))
  BY DEF AnswerFromLedger
<1>2. existing \in Auctions \X Nat
  <2>1. \A a \in Auctions : DOMAIN bids[a] \subseteq Nat
    BY DEF Inv, TypeOK, StoreTypeOK
  <2>2. PICK a \in Auctions : existing \in {a} \X (DOMAIN bids[a])
    BY <1>1 DEF FindByRequest
  <2>3. QED
    BY <2>1, <2>2
<1>3. replayOrRefuse(existing, calls[c].req) \in BidAnswer
  BY <1>2 DEF replayOrRefuse, BidAnswer, Refused
<1>4. QED
  BY <1>1, <1>3, StoreUntouched, CallAnswers

LEMMA RefusedTyped == Refused \in BidAnswer
BY DEF Refused, BidAnswer

\* Every step of a call but the accepting write.
LEMMA QuietBidding ==
  ASSUME Inv, UNCHANGED <<settling, pass, desk, faults>>, NEW c \in Calls,
         \/ ReceiveBid(c) \/ LookupRequest(c) \/ ReadAuction(c)
         \/ CollideOnRequest(c) \/ LoseRace(c) \/ AnswerLostRace(c) \/ AnnounceBid(c)
  PROVE  Inv'
<1>0. calls \in [Calls -> Call] /\ CallOK(c) /\ now \in Nat
  BY DEF Inv, TypeOK, BiddingTypeOK, StoreTypeOK
<1>1. ASSUME UNCHANGED storeVars, calls[c].pc # "idle",
             NEW pc \in {"read", "replay", "recheck"}, Goto(c, pc)
      PROVE  Inv'
  <2>1. calls' \in [Calls -> Call] /\ \A d \in Calls \ {c} : calls'[d] = calls[d]
    BY <1>0, <1>1 DEF Goto, Call
  <2>2. CallOK(c)'
    BY <1>0, <1>1 DEF Goto, CallOK
  <2>3. QED
    BY <1>1, <2>1, <2>2, StoreUntouched, CallMoves
<1>2. CASE ReceiveBid(c)
  <2>1. PICK req \in Inputs : calls' = [calls EXCEPT ![c].pc = "lookup", ![c].req = req,
                                                     ![c].now = now]
    BY <1>2 DEF ReceiveBid
  <2>2. calls' \in [Calls -> Call] /\ \A d \in Calls \ {c} : calls'[d] = calls[d]
    <3> DEFINE w == [calls[c] EXCEPT !.pc = "lookup", !.req = req, !.now = now]
    <3>1. w \in Call
      BY <1>0 DEF Call
    <3>2. calls' = [calls EXCEPT ![c] = w]
      BY <1>0, <2>1
    <3>3. QED
      BY <1>0, <3>1, <3>2
  <2>3. CallOK(c)'
    BY <1>0, <2>1 DEF CallOK
  <2>4. QED
    BY <1>2, <2>2, <2>3, StoreUntouched, CallMoves DEF ReceiveBid
<1>3. CASE LookupRequest(c)
  BY <1>1, <1>3, LedgerAnswers DEF LookupRequest
<1>4. CASE ReadAuction(c)
  <2> DEFINE row == auction[calls[c].req.auctionId]
  <2>1. CASE BidRefused(row, c)
    BY <1>4, <2>1, StoreUntouched, RefusedTyped, CallAnswers DEF ReadAuction
  <2>2. CASE ~BidRefused(row, c)
    <3>1. calls[c].req \in Inputs /\ calls[c].req.auctionId \in Auctions
      BY <1>0, <1>4, BiddingAssumption DEF CallOK, ReadAuction
    <3>2. row \in Row
      BY <3>1 DEF Inv, TypeOK, StoreTypeOK
    <3>3. calls' = [calls EXCEPT ![c].pc = "write", ![c].row = row]
      BY <1>4, <2>2 DEF ReadAuction
    <3>4. calls' \in [Calls -> Call] /\ \A d \in Calls \ {c} : calls'[d] = calls[d]
      <4> DEFINE new == [calls[c] EXCEPT !.pc = "write", !.row = row]
      <4>1. calls \in [Calls -> Call] /\ calls[c] \in Call
        BY <1>0
      <4> HIDE DEF row
      <4>2. new \in Call
        BY <3>2, <4>1 DEF Call
      <4>3. calls' = [calls EXCEPT ![c] = new]
        BY <3>3
      <4> HIDE DEF new
      <4>4. QED
        BY <4>1, <4>2, <4>3
    <3>5. CallOK(c)'
      <4>1. /\ calls'[c].pc = "write" /\ calls'[c].row = row
            /\ calls'[c].req = calls[c].req /\ calls'[c].now = calls[c].now
        BY <1>0, <3>3 DEF Call
      <4>2. auction' = auction
        BY <1>4 DEF ReadAuction, storeVars
      <4>3. ~BidRefused(row, c)'
        BY <2>2, <4>1, <4>2 DEF BidRefused
      <4>4. row.status = "ACTIVE" /\ row.rowVersion \in Nat
        BY <2>2, <3>2 DEF BidRefused, Row
      <4>5. QED
        BY <3>1, <4>1, <4>2, <4>3, <4>4 DEF CallOK
    <3>6. QED
      BY <1>4, <3>4, <3>5, StoreUntouched, CallMoves DEF ReadAuction
  <2>3. QED
    BY <2>1, <2>2
<1>5. CASE CollideOnRequest(c) \/ LoseRace(c)
  BY <1>1, <1>5 DEF CollideOnRequest, LoseRace
<1>6. CASE AnswerLostRace(c)
  BY <1>6, LedgerAnswers, StoreUntouched, RefusedTyped, CallAnswers DEF AnswerLostRace
<1>7. CASE AnnounceBid(c)
  <2>1. calls[c].out \subseteq Messages /\ calls[c].answer \in BidAnswer
    BY <1>0 DEF Call
  <2>2. StoreTypeOK' /\ auction' = auction /\ bids' = bids
    BY <1>7, <2>1 DEF AnnounceBid, Emit, Inv, TypeOK, StoreTypeOK
  <2>3. QED
    BY <1>7, <2>1, <2>2, CallAnswers DEF AnnounceBid
<1>8. QED
  BY <1>2, <1>3, <1>4, <1>5, <1>6, <1>7

\* A bid changes the price, the counters and perhaps the end of a row.
BidMoved(row, old, amount) ==
  /\ row \in Row /\ row.status = old.status
  /\ row.rowVersion = old.rowVersion + 1 /\ old.rowVersion \in Nat
  /\ row.bidCount = old.bidCount + 1
  /\ row.currentPrice = amount
  /\ row.startingPrice = old.startingPrice
  /\ row.minBidIncrement = old.minBidIncrement
  /\ row.reservePrice = old.reservePrice
  /\ row.winningBidId = old.winningBidId /\ row.winnerUserId = old.winnerUserId
  /\ row.soldPrice = old.soldPrice
  /\ row.extensionCount \in Nat /\ row.currentEndAt \in NatOrNull

LEMMA RowAfterBidTyped ==
  ASSUME NEW old \in Row, NEW amount \in Nat, NEW extends \in BOOLEAN, NEW end \in Nat
  PROVE  BidMoved(RowAfterBid(old, amount, extends, end), old, amount)
<1> DEFINE n == old.bidCount + 1
<1> DEFINE v == old.rowVersion + 1
<1> DEFINE e == IF extends THEN end ELSE old.currentEndAt
<1> DEFINE x == IF extends THEN old.extensionCount + 1 ELSE old.extensionCount
<1>1. /\ n \in Nat /\ v \in Nat /\ e \in NatOrNull /\ x \in Nat
      /\ old.rowVersion \in Nat /\ old.bidCount \in Nat
  BY DEF Row, NatOrNull
<1>2. RowAfterBid(old, amount, extends, end) =
        [old EXCEPT !.currentPrice = amount, !.bidCount = n, !.rowVersion = v,
                    !.currentEndAt = e, !.extensionCount = x]
  BY DEF RowAfterBid, Row
<1> HIDE DEF n, v, e, x
<1>3. [old EXCEPT !.currentPrice = amount, !.bidCount = n, !.rowVersion = v,
                  !.currentEndAt = e, !.extensionCount = x] \in Row
  BY <1>1 DEF Row
<1>4. LET row == RowAfterBid(old, amount, extends, end)
      IN  /\ row.status = old.status /\ row.rowVersion = v /\ row.bidCount = n
          /\ row.currentPrice = amount
          /\ row.startingPrice = old.startingPrice
          /\ row.minBidIncrement = old.minBidIncrement
          /\ row.reservePrice = old.reservePrice
          /\ row.winningBidId = old.winningBidId /\ row.winnerUserId = old.winnerUserId
          /\ row.soldPrice = old.soldPrice
          /\ row.extensionCount = x /\ row.currentEndAt = e
  BY <1>1, <1>2 DEF Row
<1>5. QED
  BY <1>1, <1>2, <1>3, <1>4 DEF n, v, BidMoved

\* The accepting write: the row it goes over is the row that was judged.
LEMMA AcceptKeepsInv ==
  ASSUME Inv, UNCHANGED <<settling, pass, desk, faults>>, NEW c \in Calls, AcceptBid(c)
  PROVE  Inv'
<1> DEFINE req == calls[c].req
<1> DEFINE a == req.auctionId
<1> DEFINE old == auction[a]
<1> DEFINE b == bids[a]
<1> DEFINE n == Len(b) + 1
<1> DEFINE extends == calculateAntiSniping(calls[c].row, calls[c].now)
<1> DEFINE row == RowAfterBid(old, req.amount, extends, ExtendedEnd(calls[c].row))
<1> DEFINE bid == NewBid(c)
<1>1. /\ calls \in [Calls -> Call] /\ auction \in [Auctions -> Row]
      /\ bids \in [Auctions -> Seq(Bid)] /\ CallOK(c)
  BY DEF Inv, TypeOK, BiddingTypeOK, StoreTypeOK
<1>2. /\ calls[c].pc = "write" /\ BidGuard(old, c)
      /\ auction' = [auction EXCEPT ![a] = row]
      /\ bids' = [bids EXCEPT ![a] = Append(@, bid)]
  BY DEF AcceptBid
<1>3. /\ req \in Inputs /\ a \in Auctions /\ req.amount \in Nat
      /\ req.clientRequestId \in Requests
      /\ MinterOf[req.clientRequestId] \in Users
  <2>1. req \in Inputs
    BY <1>1, <1>2 DEF CallOK
  <2>2. QED
    BY <2>1, BiddingAssumption
<1>4. old = calls[c].row /\ ~BidRefused(old, c)
  BY <1>1, <1>2 DEF CallOK, BidGuard
<1>5. /\ old \in Row /\ old.status = "ACTIVE" /\ old.currentEndAt \in Nat
      /\ SellerOf[a] # MinterOf[req.clientRequestId]
      /\ req.amount >= calculateMinimumBid(old)
  <2>1. old \in Row
    BY <1>1, <1>3
  <2>2. /\ old.startingPrice \in Nat /\ old.currentPrice \in Nat
        /\ old.minBidIncrement \in Nat /\ old.currentEndAt \in NatOrNull
    BY <2>1 DEF Row
  <2>3. calculateMinimumBid(old) \in Nat
    BY <2>2 DEF calculateMinimumBid
  <2>4. QED
    BY <1>3, <1>4, <2>1, <2>2, <2>3 DEF BidRefused, NatOrNull
<1>6. extends \in BOOLEAN /\ ExtendedEnd(old) \in Nat
  BY <1>5, RulesAssumption DEF calculateAntiSniping, ExtendedEnd
<1>7. /\ row \in Row /\ row.status = "ACTIVE"
      /\ row.rowVersion = old.rowVersion + 1 /\ old.rowVersion \in Nat
      /\ row.bidCount = old.bidCount + 1
      /\ row.currentPrice = req.amount
      /\ row.startingPrice = old.startingPrice
      /\ row.minBidIncrement = old.minBidIncrement
      /\ row.reservePrice = old.reservePrice
      /\ row.winningBidId = old.winningBidId /\ row.winnerUserId = old.winnerUserId
      /\ row.soldPrice = old.soldPrice
      /\ row.extensionCount \in Nat /\ row.currentEndAt \in NatOrNull
  <2>1. ExtendedEnd(calls[c].row) \in Nat
    BY <1>4, <1>6
  <2> HIDE DEF extends, old, req
  <2>2. BidMoved(row, old, req.amount)
    BY <1>3, <1>5, <1>6, <2>1, RowAfterBidTyped
  <2>3. QED
    BY <1>5, <2>2 DEF BidMoved
<1>8. bid \in Bid /\ bid.amount = req.amount /\ bid.sequenceNo = old.bidCount + 1
      /\ bid.bidderId # SellerOf[a]
  <2>1. calls[c].now \in Nat /\ old.bidCount \in Nat
    BY <1>1, <1>5 DEF Call, Row
  <2>2. QED
    BY <1>3, <1>4, <1>5, <2>1 DEF NewBid, Bid
<1>9. /\ b \in Seq(Bid) /\ n \in Nat
      /\ bids'[a] = Append(b, bid)
      /\ \A x \in Auctions : x # a => bids'[x] = bids[x] /\ auction'[x] = auction[x]
      /\ auction'[a] = row
  BY <1>1, <1>2, <1>3
<1>10. /\ Append(b, bid) \in Seq(Bid) /\ Len(Append(b, bid)) = n
       /\ DOMAIN Append(b, bid) = 1 .. n /\ DOMAIN b = 1 .. Len(b)
       /\ Append(b, bid)[n] = bid
       /\ \A i \in DOMAIN b : Append(b, bid)[i] = b[i] /\ b[i] \in Bid
  BY <1>8, <1>9
<1>11. TypeOK'
  <2> HIDE DEF row, bid
  <2>1. auction' \in [Auctions -> Row] /\ bids' \in [Auctions -> Seq(Bid)]
    BY <1>1, <1>2, <1>3, <1>7, <1>10
  <2>2. extensions' \in [Auctions -> Seq(Extension)]
    <3>1. NewExtension(c, n) \in Extension
      BY SMTT(30), <1>3, <1>4, <1>5, <1>6, <1>9 DEF NewExtension, Extension, Row
    <3>2. extensions \in [Auctions -> Seq(Extension)] /\ extensions[a] \in Seq(Extension)
      BY <1>3 DEF Inv, TypeOK, StoreTypeOK
    <3>3. extensions' = [extensions EXCEPT
            ![a] = IF extends THEN Append(@, NewExtension(c, n)) ELSE @]
      BY DEF AcceptBid
    <3>4. CASE extends
      <4>1. extensions' = [extensions EXCEPT ![a] = Append(extensions[a], NewExtension(c, n))]
        BY <3>3, <3>4
      <4>2. QED
        BY <1>3, <3>1, <3>2, <4>1
    <3>5. CASE ~extends
      BY <3>2, <3>3, <3>5
    <3>6. QED
      BY <3>4, <3>5
  <2>3. events' \in [Auctions -> Seq(EventType)]
    <3>1. events \in [Auctions -> Seq(EventType)] /\ events[a] \in Seq(EventType)
      BY <1>3 DEF Inv, TypeOK, StoreTypeOK
    <3>2. <<"BID_PLACED", "EXTENDED">> \in Seq(EventType) /\ "BID_PLACED" \in EventType
      BY DEF EventType
    <3>3. events' = [events EXCEPT
            ![a] = IF extends THEN @ \o <<"BID_PLACED", "EXTENDED">>
                              ELSE Append(@, "BID_PLACED")]
      BY DEF AcceptBid
    <3>4. /\ events[a] \o <<"BID_PLACED", "EXTENDED">> \in Seq(EventType)
          /\ Append(events[a], "BID_PLACED") \in Seq(EventType)
      BY <3>1, <3>2
    <3>5. \E log \in Seq(EventType) : events' = [events EXCEPT ![a] = log]
      <4>1. CASE extends
        BY <3>3, <3>4, <4>1
      <4>2. CASE ~extends
        BY <3>3, <3>4, <4>2
      <4>3. QED
        BY <4>1, <4>2
    <3>6. QED
      BY <3>1, <3>5
  <2>4. OutbidNotifications(a, MinterOf[req.clientRequestId], n) \subseteq Messages
    <3>1. LeadingBid(b) = Len(b)
      BY <1>3, LeadingBidIsLast DEF Inv, TypeOK
    <3>2. CASE Len(b) = 0
      BY <3>1, <3>2 DEF OutbidNotifications
    <3>3. CASE Len(b) # 0
      <4>1. bids[a][Len(b)].bidderId \in Users
        <5>1. Len(b) \in DOMAIN b
          BY <1>9, <3>3
        <5>2. b[Len(b)] \in Bid
          BY <1>10, <5>1
        <5>3. QED
          BY <5>2 DEF Bid
      <4>2. Notification("OUTBID", a, bids[a][Len(b)].bidderId, n) \in Messages
        <5>1. "OUTBID" \in MessageType
          BY DEF MessageType
        <5> HIDE DEF n, a, b
        <5>2. QED
          BY <1>3, <1>9, <4>1, <5>1, MessagesTyped
      <4>3. QED
        BY <3>1, <4>2 DEF OutbidNotifications
    <3>4. QED
      BY <3>2, <3>3
  <2>5. calls' \in [Calls -> Call]
    <3> DEFINE out == calls'[c].out
    <3> DEFINE answer == [kind |-> "accepted", bid |-> <<a, n>>]
    <3> DEFINE w == [calls[c] EXCEPT !.pc = "announce", !.answer = answer, !.out = out]
    <3>1. calls' = [calls EXCEPT ![c] = w]
      BY <1>1 DEF AcceptBid, Call
    <3>2. out \subseteq Messages
      <4>1. RoomMessage("auction:bid", a, n, row.currentEndAt) \in Messages
        <5> HIDE DEF n, a
        <5>1. QED
          BY <1>3, <1>7, <1>9, MessagesTyped DEF MessageType
      <4>2. RoomMessage("auction:extension", a, row.extensionCount, row.currentEndAt)
              \in Messages
        <5> HIDE DEF n, a
        <5>1. QED
          BY <1>3, <1>7, <1>9, MessagesTyped DEF MessageType
      <4>3. out \subseteq
              {RoomMessage("auction:bid", a, n, row.currentEndAt),
               RoomMessage("auction:extension", a, row.extensionCount, row.currentEndAt)}
              \cup OutbidNotifications(a, MinterOf[req.clientRequestId], n)
        BY <1>1 DEF AcceptBid, row, Call
      <4>4. QED
        BY <2>4, <4>1, <4>2, <4>3
    <3>3. answer \in BidAnswer
      BY <1>3, <1>9 DEF BidAnswer
    <3>4. w \in Call
      <4> HIDE DEF out, answer
      <4>1. QED
        BY <1>1, <3>2, <3>3 DEF Call
    <3>5. QED
      BY <1>1, <3>1, <3>4
  <2>6. QED
    BY <2>1, <2>2, <2>3, <2>4, <2>5 DEF AcceptBid, Inv, TypeOK, StoreTypeOK,
       BiddingTypeOK, SettlementTypeOK, LifecycleTypeOK, DeskTypeOK
<1>12. LedgerSound'
  <2> SUFFICES ASSUME NEW x \in Auctions
               PROVE  LET r == auction'[x]
                          l == bids'[x]
                      IN  /\ r.bidCount = Len(l)
                          /\ \A i \in DOMAIN l :
                               /\ l[i].sequenceNo = i
                               /\ l[i].bidderId # SellerOf[x]
                               /\ l[i].amount >= r.startingPrice
                          /\ \A i, j \in DOMAIN l :
                               i < j => l[i].amount + r.minBidIncrement <= l[j].amount
                          /\ l # <<>> => r.currentPrice = l[Len(l)].amount
    BY DEF LedgerSound
  <2>1. CASE x # a
    BY <1>9, <2>1 DEF Inv, LedgerSound
  <2>2. CASE x = a
    <3> HIDE DEF row, bid
    <3>1. /\ old.bidCount = Len(b)
          /\ \A i \in DOMAIN b :
               /\ b[i].sequenceNo = i
               /\ b[i].bidderId # SellerOf[a]
               /\ b[i].amount >= old.startingPrice
          /\ \A i, j \in DOMAIN b :
               i < j => b[i].amount + old.minBidIncrement <= b[j].amount
          /\ b # <<>> => old.currentPrice = b[Len(b)].amount
      BY <1>3 DEF Inv, LedgerSound
    <3>2. /\ old.startingPrice \in Nat /\ old.minBidIncrement \in Nat
          /\ old.currentPrice \in Nat /\ bid.amount \in Nat
          /\ \A i \in DOMAIN b : b[i].amount \in Nat
      BY <1>5, <1>8, <1>10 DEF Row, Bid
    <3>3. bid.amount >= old.startingPrice
      <4>1. CASE b = <<>>
        BY <1>5, <1>8, <3>1, <4>1 DEF calculateMinimumBid
      <4>2. CASE b # <<>>
        <5>1. Len(b) \in DOMAIN b /\ Len(b) # 0
          BY <1>9, <4>2
        <5>2. /\ bid.amount >= old.currentPrice + old.minBidIncrement
              /\ old.currentPrice = b[Len(b)].amount
              /\ b[Len(b)].amount >= old.startingPrice
          BY <1>5, <1>8, <3>1, <4>2, <5>1 DEF calculateMinimumBid
        <5> HIDE DEF old, b
        <5>3. QED
          BY <3>2, <5>2
      <4>3. QED
        BY <4>1, <4>2
    <3>4. \A i \in DOMAIN b : b[i].amount + old.minBidIncrement <= bid.amount
      <4> SUFFICES ASSUME NEW i \in DOMAIN b
                   PROVE  b[i].amount + old.minBidIncrement <= bid.amount
        OBVIOUS
      <4>1. /\ Len(b) \in DOMAIN b /\ Len(b) # 0 /\ b # <<>> /\ i \in Nat
            /\ i <= Len(b) /\ Len(b) \in Nat
        BY <1>9
      <4>2. bid.amount >= b[Len(b)].amount + old.minBidIncrement
        BY <1>5, <1>8, <3>1, <4>1 DEF calculateMinimumBid
      <4>3. b[i].amount <= b[Len(b)].amount
        <5>1. CASE i = Len(b)
          BY <3>2, <4>1, <5>1
        <5>2. CASE i < Len(b)
          <6>1. b[i].amount + old.minBidIncrement <= b[Len(b)].amount
            BY <3>1, <4>1, <5>2
          <6> HIDE DEF old, b
          <6>2. QED
            BY <3>2, <4>1, <6>1
        <5>3. QED
          BY <4>1, <5>1, <5>2
      <4>4. QED
        BY SMTT(30), <3>2, <4>1, <4>2, <4>3
    <3> DEFINE l == bids'[x]
    <3>5. /\ Len(l) = n /\ DOMAIN l = 1 .. n /\ l[n] = bid
          /\ \A i \in 1 .. Len(b) : l[i] = b[i]
          /\ n = Len(b) + 1 /\ Len(b) \in Nat /\ DOMAIN b = 1 .. Len(b)
          /\ \A i \in 1 .. n : i = n \/ i \in 1 .. Len(b)
      BY SMTT(30), <1>9, <1>10, <2>2
    <3> HIDE DEF l, n, b, old
    <3>6. \A i \in DOMAIN l : /\ l[i].sequenceNo = i
                              /\ l[i].bidderId # SellerOf[x]
                              /\ l[i].amount >= old.startingPrice
      BY <1>8, <2>2, <3>1, <3>3, <3>5
    <3>7. \A i, j \in DOMAIN l :
            i < j => l[i].amount + old.minBidIncrement <= l[j].amount
      BY <3>1, <3>4, <3>5
    <3>8. /\ auction'[x].bidCount = Len(l) /\ auction'[x].startingPrice = old.startingPrice
          /\ auction'[x].minBidIncrement = old.minBidIncrement
          /\ l # <<>> => auction'[x].currentPrice = l[Len(l)].amount
      BY SMTT(30), <1>7, <1>8, <1>9, <2>2, <3>1, <3>5
    <3>9. QED
      BY <3>6, <3>7, <3>8 DEF l
  <2>3. QED
    BY <2>1, <2>2
<1>13. SaleGrounded'
  <2>1. old.winningBidId = 0 /\ old.winnerUserId = Null /\ old.soldPrice = Null
    BY <1>3, <1>5 DEF Inv, SaleGrounded
  <2> HIDE DEF row, bid
  <2>2. QED
    BY <1>7, <1>9, <2>1 DEF Inv, SaleGrounded
<1>14. \A x \in Auctions : RowOK(x)'
  <2> HIDE DEF row, bid
  <2>1. QED
    BY <1>3, <1>5, <1>7, <1>9 DEF Inv, RowOK
<1>15. \A d \in Calls : CallOK(d)'
  <2> SUFFICES ASSUME NEW d \in Calls PROVE CallOK(d)'
    OBVIOUS
  <2>1. CASE d = c
    <3>1. calls'[c].pc = "announce" /\ calls'[c].req = req
      BY <1>1 DEF AcceptBid, Call
    <3>2. QED
      BY <1>3, <2>1, <3>1 DEF CallOK
  <2>2. CASE d # c
    <3>1. calls'[d] = calls[d] /\ CallOK(d)
      BY <1>1, <2>2 DEF AcceptBid, Inv
    <3>2. CASE calls[d].pc # "write"
      BY <3>1, <3>2 DEF CallOK
    <3>3. CASE calls[d].pc = "write"
      <4>1. calls[d].req \in Inputs /\ calls[d].req.auctionId \in Auctions
        BY <3>1, <3>3, BiddingAssumption DEF CallOK
      <4>2. ~BidRefused(calls[d].row, d)'
        BY <3>1, <3>3 DEF CallOK, BidRefused
      <4>3. calls[d].row.rowVersion \in Nat
        BY <1>1 DEF Call, Row
      <4> HIDE DEF row, bid
      <4>4. QED
        BY SMTT(30), <1>7, <1>9, <3>1, <3>3, <4>1, <4>2, <4>3 DEF CallOK
    <3>4. QED
      BY <3>2, <3>3
  <2>3. QED
    BY <2>1, <2>2
<1>16. \A s \in Settlers : SettlerOK(s)'
  <2> SUFFICES ASSUME NEW s \in Settlers PROVE SettlerOK(s)'
    OBVIOUS
  <2>1. SettlerOK(s) /\ settling'[s] = settling[s]
    BY DEF Inv
  <2> HIDE DEF row, bid
  <2>2. \A x \in Auctions : Len(bids'[x]) \in Nat /\ Len(bids[x]) <= Len(bids'[x])
                              /\ Len(bids[x]) \in Nat
    BY SMTT(30), <1>1, <1>9, <1>10
  <2>3. settling[s].highestBid \in Nat
    BY DEF Inv, TypeOK, SettlementTypeOK, Settler
  <2>4. QED
    BY SMTT(30), <1>5, <1>7, <1>9, <2>1, <2>2, <2>3 DEF SettlerOK
<1>17. \A k \in DeskCalls : DeskOK(k)'
  <2> HIDE DEF row, bid
  <2>1. QED
    BY <1>7, <1>9 DEF Inv, DeskOK
<1>18. QED
  BY <1>11, <1>12, <1>13, <1>14, <1>15, <1>16, <1>17 DEF Inv

-----------------------------------------------------------------------------
(***************************************************************************)
(* Settlement                                                              *)
(***************************************************************************)

\* A step that moves one settlement and writes no row.
LEMMA SettlerMoves ==
  ASSUME Inv, StoreTypeOK', auction' = auction, bids' = bids,
         UNCHANGED <<calls, desk>>, pass' \in Pass, faults' \in Nat,
         NEW s \in Settlers, settling' \in [Settlers -> Settler],
         \A t \in Settlers \ {s} : settling'[t] = settling[t],
         SettlerOK(s)'
  PROVE  Inv'
<1>1. TypeOK'
  BY DEF Inv, TypeOK, BiddingTypeOK, SettlementTypeOK, LifecycleTypeOK, DeskTypeOK
<1>2. QED
  BY <1>1, RowsUntouched DEF Inv

LEMMA FinishedTyped ==
  ASSUME NEW s \in Settlers
  PROVE  FinishedSettler(s) \in Settler /\ FinishedSettler(s).pc \in {"idle", "done"}
<1>1. IdleSettler \in Settler /\ IdleSettler.pc = "idle"
  BY IdleTyped DEF IdleSettler
<1>2. QED
  BY <1>1 DEF FinishedSettler, Settler

LEMMA SettlerFinishes ==
  ASSUME Inv, StoreTypeOK', auction' = auction, bids' = bids,
         UNCHANGED <<calls, desk>>, pass' \in Pass, faults' \in Nat,
         NEW s \in Settlers, Finish(s)
  PROVE  Inv'
<1>1. settling \in [Settlers -> Settler]
  BY DEF Inv, TypeOK, SettlementTypeOK
<1>2. /\ settling' \in [Settlers -> Settler]
      /\ \A t \in Settlers \ {s} : settling'[t] = settling[t]
      /\ settling'[s].pc \in {"idle", "done"}
  BY <1>1, FinishedTyped DEF Finish
<1>3. SettlerOK(s)'
  BY <1>2 DEF SettlerOK
<1>4. QED
  BY <1>2, <1>3, SettlerMoves

LEMMA SettleCalled ==
  ASSUME Inv, UNCHANGED storeVars, UNCHANGED <<calls, desk>>, pass' \in Pass, faults' \in Nat,
         NEW s \in Settlers, NEW a \in Auctions, Settle(s, a)
  PROVE  Inv'
<1>1. settling \in [Settlers -> Settler]
  BY DEF Inv, TypeOK, SettlementTypeOK
<1>2. /\ settling' \in [Settlers -> Settler]
      /\ \A t \in Settlers \ {s} : settling'[t] = settling[t]
      /\ settling'[s].pc = "read" /\ settling'[s].auctionId = a
  BY <1>1 DEF Settle, Settler
<1>3. SettlerOK(s)'
  BY <1>2 DEF SettlerOK
<1>4. QED
  BY <1>2, <1>3, StoreUntouched, SettlerMoves

\* Every step of a settlement but its write.
LEMMA QuietSettlement ==
  ASSUME Inv, UNCHANGED <<calls, desk>>, pass' \in Pass, faults' \in Nat, NEW s \in Settlers,
         \/ FindPublicAuction(s) \/ SettleRead(s) \/ SettleDecide(s)
         \/ SettleLost(s) \/ SettleAnnounce(s)
  PROVE  Inv'
<1>0. settling \in [Settlers -> Settler] /\ SettlerOK(s) /\ now \in Nat
  BY DEF Inv, TypeOK, SettlementTypeOK, StoreTypeOK
<1> DEFINE a == settling[s].auctionId
<1>1. CASE FindPublicAuction(s)
  BY <1>1, SettleCalled, SettlerFinishes, StoreUntouched DEF FindPublicAuction
<1>2. CASE SettleRead(s)
  <2> DEFINE row == auction[a]
  <2>1. CASE Finish(s)
    BY <1>2, <2>1, SettlerFinishes, StoreUntouched DEF SettleRead
  <2>2. CASE /\ row.status = "ACTIVE"
             /\ settling' = [settling EXCEPT ![s].pc = "decide", ![s].row = row]
    <3>1. a \in Auctions
      BY <1>0, <1>2 DEF SettlerOK, SettleRead
    <3>2. row \in Row
      BY <3>1 DEF Inv, TypeOK, StoreTypeOK
    <3>3. /\ settling' \in [Settlers -> Settler]
          /\ \A t \in Settlers \ {s} : settling'[t] = settling[t]
          /\ settling'[s].pc = "decide" /\ settling'[s].row = row
          /\ settling'[s].auctionId = a
      BY <1>0, <2>2, <3>2 DEF Settler
    <3>4. StoreTypeOK' /\ auction' = auction /\ bids' = bids
      BY <1>2, StoreUntouched DEF SettleRead
    <3>5. SettlerOK(s)'
      BY <2>2, <3>1, <3>3, <3>4 DEF SettlerOK
    <3>6. QED
      BY <3>3, <3>4, <3>5, SettlerMoves
  <2>3. QED
    BY <1>2, <2>1, <2>2 DEF SettleRead
<1>3. CASE SettleDecide(s)
  <2> DEFINE n == LeadingBid(bids[a])
  <2>1. CASE Finish(s)
    BY <1>3, <2>1, SettlerFinishes, StoreUntouched DEF SettleDecide
  <2>2. CASE settling' = [settling EXCEPT ![s].pc = "write", ![s].highestBid = n,
                                          ![s].endedAt = now]
    <3>1. a \in Auctions /\ settling[s].pc = "decide"
      BY <1>0, <1>3 DEF SettlerOK, SettleDecide
    <3>2. n = Len(bids[a]) /\ n \in Nat /\ n \in 0 .. n
      <4>1. Len(bids[a]) \in Nat
        BY <3>1 DEF Inv, TypeOK, StoreTypeOK
      <4>2. QED
        BY <3>1, <4>1, LeadingBidIsLast DEF Inv, TypeOK
    <3> HIDE DEF n
    <3>3. /\ settling' \in [Settlers -> Settler]
          /\ \A t \in Settlers \ {s} : settling'[t] = settling[t]
      <4> DEFINE w == [settling[s] EXCEPT !.pc = "write", !.highestBid = n, !.endedAt = now]
      <4>1. w \in Settler
        BY <1>0, <3>2 DEF Settler
      <4>2. settling' = [settling EXCEPT ![s] = w]
        BY <1>0, <2>2
      <4>3. QED
        BY <1>0, <4>1, <4>2
    <3>4. /\ settling'[s].pc = "write" /\ settling'[s].row = settling[s].row
          /\ settling'[s].auctionId = a /\ settling'[s].highestBid = n
      BY <1>0, <2>2 DEF Settler
    <3>5. StoreTypeOK' /\ auction' = auction /\ bids' = bids
      BY <1>3, StoreUntouched DEF SettleDecide
    <3>6. SettlerOK(s)'
      BY <1>0, <3>1, <3>2, <3>4, <3>5 DEF SettlerOK
    <3>7. QED
      BY <3>3, <3>5, <3>6, SettlerMoves
  <2>3. QED
    BY <1>3, <2>1, <2>2 DEF SettleDecide
<1>4. CASE SettleLost(s)
  BY <1>4, SettlerFinishes, StoreUntouched DEF SettleLost
<1>5. CASE SettleAnnounce(s)
  <2>1. settling[s].out \subseteq Messages
    BY <1>0 DEF Settler
  <2>2. StoreTypeOK' /\ auction' = auction /\ bids' = bids
    BY <1>5, <2>1 DEF SettleAnnounce, Emit, Inv, TypeOK, StoreTypeOK
  <2>3. QED
    BY <1>5, <2>2, SettlerFinishes DEF SettleAnnounce
<1>6. QED
  BY <1>1, <1>2, <1>3, <1>4, <1>5

\* A result written over an open auction is one a row may take.
Result(old, status, end, winner, bid, price) ==
  [old EXCEPT !.status = status, !.endedAt = end, !.winnerUserId = winner,
              !.winningBidId = bid, !.soldPrice = price, !.rowVersion = @ + 1]

LEMMA ResultReplaces ==
  ASSUME Inv, NEW a \in Auctions, auction[a].status = "ACTIVE",
         NEW status \in Settled, NEW end \in Nat, NEW winner \in Users \cup {Null},
         NEW bid \in Nat, NEW price \in NatOrNull,
         IF status = "SOLD"
           THEN /\ bid \in DOMAIN bids[a] /\ winner = bids[a][bid].bidderId
                /\ price = bids[a][bid].amount
                /\ calculateReserveMet(price, auction[a].reservePrice)
           ELSE bid = 0 /\ winner = Null /\ price = Null
  PROVE  Replaces(a, Result(auction[a], status, end, winner, bid, price))
<1> DEFINE old == auction[a]
<1> DEFINE v == old.rowVersion + 1
<1> DEFINE r == [old EXCEPT !.status = status, !.endedAt = end, !.winnerUserId = winner,
                            !.winningBidId = bid, !.soldPrice = price, !.rowVersion = v]
<1>1. old \in Row
  BY DEF Inv, TypeOK, StoreTypeOK
<1>2. v \in Nat /\ old.minBidIncrement > 0
  BY <1>1 DEF Row, Inv, RowOK
<1>3. Result(old, status, end, winner, bid, price) = r
  BY DEF Result
<1>4. r \in Row
  <2> DEFINE half == [old EXCEPT !.status = status, !.endedAt = end, !.winnerUserId = winner]
  <2>1. r = [half EXCEPT !.winningBidId = bid, !.soldPrice = price, !.rowVersion = v]
    OBVIOUS
  <2> HIDE DEF v, old, r
  <2>2. half \in Row
    BY <1>1 DEF Row, Settled, Status, NatOrNull
  <2> HIDE DEF half
  <2>3. QED
    BY <1>2, <2>1, <2>2 DEF Row
<1>5. /\ r.status = status /\ r.winnerUserId = winner /\ r.winningBidId = bid
      /\ r.soldPrice = price /\ r.rowVersion = v /\ r.bidCount = old.bidCount
      /\ r.currentPrice = old.currentPrice /\ r.startingPrice = old.startingPrice
      /\ r.minBidIncrement = old.minBidIncrement /\ r.reservePrice = old.reservePrice
  BY <1>1 DEF Row
<1> HIDE DEF r
<1>6. SaleOf(r, bids[a])
  BY <1>5 DEF SaleOf
<1>7. QED
  BY <1>2, <1>3, <1>4, <1>5, <1>6 DEF Replaces, Settled, Closed

LEMMA SettledRowReplaces ==
  ASSUME Inv, NEW s \in Settlers, settling[s].pc = "write",
         SettleGuard(auction[settling[s].auctionId])
  PROVE  LET a == settling[s].auctionId
         IN  a \in Auctions /\ Replaces(a, RowAfterSettlement(a, s))
<1> DEFINE a == settling[s].auctionId
<1> DEFINE old == auction[a]
<1> DEFINE b == bids[a]
<1> DEFINE n == settling[s].highestBid
<1> DEFINE end == settling[s].endedAt
<1> DEFINE sold == Sells(a, n, settling[s].row.reservePrice)
<1>1. /\ a \in Auctions /\ old.status = "ACTIVE" /\ n \in 0 .. Len(b)
      /\ settling[s].row.reservePrice = old.reservePrice
  BY DEF Inv, SettlerOK, SettleGuard
<1>2. b \in Seq(Bid) /\ end \in Nat
  BY <1>1 DEF Inv, TypeOK, StoreTypeOK, SettlementTypeOK, Settler
<1>3. CASE sold
  <2>1. n \in DOMAIN b /\ b[n] \in Bid /\ n \in Nat
    BY <1>1, <1>2, <1>3 DEF Sells
  <2>2. b[n].bidderId \in Users \cup {Null} /\ b[n].amount \in NatOrNull
    BY <2>1 DEF Bid, NatOrNull
  <2>3. calculateReserveMet(b[n].amount, old.reservePrice)
    BY <1>1, <1>3 DEF Sells
  <2>4. RowAfterSettlement(a, s) = Result(old, "SOLD", end, b[n].bidderId, n, b[n].amount)
    BY <1>3 DEF RowAfterSettlement, Result
  <2>5. "SOLD" \in Settled
    BY DEF Settled
  <2> HIDE DEF end, n
  <2>6. Replaces(a, Result(old, "SOLD", end, b[n].bidderId, n, b[n].amount))
    BY <1>1, <1>2, <2>1, <2>2, <2>3, <2>5, ResultReplaces
  <2>7. QED
    BY <1>1, <2>4, <2>6
<1>4. CASE ~sold
  <2>1. RowAfterSettlement(a, s) = Result(old, "UNSOLD", end, Null, 0, Null)
    BY <1>4 DEF RowAfterSettlement, Result
  <2>2. "UNSOLD" \in Settled /\ Null \in NatOrNull /\ Null \in Users \cup {Null}
    BY DEF Settled, NatOrNull
  <2> HIDE DEF end
  <2>3. Replaces(a, Result(old, "UNSOLD", end, Null, 0, Null))
    BY <1>1, <1>2, <2>2, ResultReplaces
  <2>4. QED
    BY <1>1, <2>1, <2>3
<1>5. QED
  BY <1>3, <1>4

\* Who is told of a result are users.
LEMMA SettlementNotificationsTyped ==
  ASSUME StoreTypeOK, NEW a \in Auctions, NEW row \in Row
  PROVE  SettlementNotifications(a, row) \subseteq Messages
<1> DEFINE others == (findAuctionAudience(a, {row.winnerUserId}) \cup {SellerOf[a]})
                       \ {row.winnerUserId}
<1>1. others \subseteq Users
  BY AudienceTyped, StoreAssumption
<1>2. row.winnerUserId \in Users \cup {Null} /\ row.winningBidId \in Nat
  BY DEF Row
<1>3. \A u \in others : Notification("AUCTION_ENDED", a, u, 0) \in Messages
  BY <1>1, MessagesTyped DEF MessageType
<1>4. row.winnerUserId # Null =>
        Notification("AUCTION_WON", a, row.winnerUserId, row.winningBidId) \in Messages
  BY <1>2, MessagesTyped DEF MessageType
<1> HIDE DEF others
<1>5. SettlementNotifications(a, row) \subseteq
        {Notification("AUCTION_WON", a, u, row.winningBidId) :
           u \in {row.winnerUserId} \ {Null}}
        \cup {Notification("AUCTION_ENDED", a, u, 0) : u \in others}
  BY DEF SettlementNotifications, others
<1>6. QED
  BY <1>3, <1>4, <1>5

\* The guarded write of a settlement.
LEMMA SettleWriteKeepsInv ==
  ASSUME Inv, UNCHANGED <<calls, desk, pass, faults>>, NEW s \in Settlers, SettleWrite(s)
  PROVE  Inv'
<1> DEFINE a == settling[s].auctionId
<1> DEFINE row == RowAfterSettlement(a, s)
<1> DEFINE told == SettlementNotifications(a, row)
<1> DEFINE out == told \cup {RoomMessage("auction:ended", a, row.winningBidId, row.endedAt)}
<1>1. /\ settling[s].pc = "write" /\ SettleGuard(auction[a])
      /\ auction' = [auction EXCEPT ![a] = row]
      /\ events' = [events EXCEPT ![a] = Append(@, "ENDED")]
      /\ notifications' = notifications \cup told
      /\ settling' = [settling EXCEPT ![s].pc = "announce", ![s].out = out]
      /\ UNCHANGED <<now, bids, extensions, announced>>
  BY DEF SettleWrite
<1>2. a \in Auctions /\ Replaces(a, row)
  BY <1>1, SettledRowReplaces
<1> HIDE DEF row
<1>3. row \in Row
  BY <1>2 DEF Replaces
<1>4. told \subseteq Messages /\ out \subseteq Messages
  <2>1. row.winningBidId \in Nat /\ row.endedAt \in NatOrNull
    BY <1>3 DEF Row
  <2>2. RoomMessage("auction:ended", a, row.winningBidId, row.endedAt) \in Messages
    BY <1>2, <2>1, MessagesTyped DEF MessageType
  <2>3. told \subseteq Messages
    BY <1>2, <1>3, SettlementNotificationsTyped DEF Inv, TypeOK
  <2>4. QED
    BY <2>2, <2>3
<1> HIDE DEF told, out
<1>5. settling \in [Settlers -> Settler] /\ SettlerOK(s)
  BY DEF Inv, TypeOK, SettlementTypeOK
<1>6. /\ settling' \in [Settlers -> Settler]
      /\ \A t \in Settlers \ {s} : settling'[t] = settling[t]
      /\ settling'[s].pc = "announce" /\ settling'[s].auctionId = a
  BY <1>1, <1>4, <1>5 DEF Settler
<1>7. SettlerOK(s)'
  BY <1>2, <1>6 DEF SettlerOK
<1>8. events' \in [Auctions -> Seq(EventType)]
  <2>1. events \in [Auctions -> Seq(EventType)]
    BY DEF Inv, TypeOK, StoreTypeOK
  <2>2. "ENDED" \in EventType
    BY DEF EventType
  <2>3. QED
    BY <1>1, <1>2, <2>1, <2>2
<1>9. TypeOK'
  BY <1>1, <1>2, <1>4, <1>6, <1>8, RowReplaced DEF Inv, TypeOK, StoreTypeOK, BiddingTypeOK,
     SettlementTypeOK, LifecycleTypeOK, DeskTypeOK
<1>10. QED
  BY <1>1, <1>2, <1>6, <1>7, <1>9, RowReplaced DEF Inv

LEMMA SettlementKeepsInv ==
  ASSUME Inv, UNCHANGED <<calls, desk, pass, faults>>, NEW s \in Settlers,
         FindPublicAuction(s) \/ SettlementStep(s)
  PROVE  Inv'
<1>1. pass' \in Pass /\ faults' \in Nat
  BY DEF Inv, TypeOK, LifecycleTypeOK
<1>2. QED
  BY <1>1, QuietSettlement, SettleWriteKeepsInv DEF SettlementStep

-----------------------------------------------------------------------------
(***************************************************************************)
(* The lifecycle pass                                                      *)
(***************************************************************************)

\* A step of the pass that writes no row and touches no settlement.
LEMMA PassMoves ==
  ASSUME Inv, StoreTypeOK', auction' = auction, bids' = bids, pass' \in Pass,
         UNCHANGED <<calls, desk, settling, faults>>
  PROVE  Inv'
<1>1. TypeOK'
  BY DEF Inv, TypeOK, BiddingTypeOK, SettlementTypeOK, LifecycleTypeOK, DeskTypeOK
<1>2. QED
  BY <1>1, RowsUntouched DEF Inv

LEMMA DueRowsTyped ==
  ASSUME Inv, NEW batch \in SUBSET Auctions
  PROVE  DueRows(batch) \in SUBSET DueAuction
<1>1. \A a \in Auctions : auction[a].currentEndAt \in NatOrNull
  <2>1. \A a \in Auctions : auction[a] \in Row
    BY DEF Inv, TypeOK, StoreTypeOK
  <2>2. QED
    BY <2>1 DEF Row
<1>2. QED
  BY <1>1 DEF DueRows, DueAuction

\* An auction opens: it has no bids yet.
LEMMA StartKeepsInv ==
  ASSUME Inv, UNCHANGED <<calls, desk, faults>>, StartAuction
  PROVE  Inv'
<1>0. /\ pass \in Pass /\ pass.now \in Nat /\ pass.due \in SUBSET DueAuction
      /\ auction \in [Auctions -> Row] /\ events \in [Auctions -> Seq(EventType)]
  BY DEF Inv, TypeOK, LifecycleTypeOK, StoreTypeOK, Pass
<1>1. PICK d \in pass.due :
        LET a == d.auctionId
        IN  /\ StartGuard(auction[a], pass.now)
            /\ auction' = [auction EXCEPT ![a].status = "ACTIVE",
                                          ![a].startedAt = pass.now,
                                          ![a].rowVersion = @ + 1]
            /\ events' = [events EXCEPT ![a] = Append(@, "STARTED")]
            /\ pass' = [pass EXCEPT
                 !.pc = "announce",
                 !.due = @ \ {d},
                 !.out = {RoomMessage("auction:started", a, 0, d.endsAt)}]
  BY DEF StartAuction
<1> DEFINE a == d.auctionId
<1> DEFINE old == auction[a]
<1> DEFINE v == old.rowVersion + 1
<1> DEFINE r == [old EXCEPT !.status = "ACTIVE", !.startedAt = pass.now, !.rowVersion = v]
<1>2. a \in Auctions /\ d.endsAt \in NatOrNull
  BY <1>0 DEF DueAuction
<1>3. /\ old \in Row /\ v \in Nat /\ old.status = "SCHEDULED" /\ bids[a] = <<>>
      /\ old.minBidIncrement > 0
  BY SMTT(30), <1>0, <1>1, <1>2 DEF StartGuard, Inv, RowOK, Row
<1>4. auction' = [auction EXCEPT ![a] = r]
  BY <1>0, <1>1, <1>2, <1>3
<1>5. /\ r \in Row /\ r.status = "ACTIVE" /\ r.rowVersion = v /\ r.bidCount = old.bidCount
      /\ r.currentPrice = old.currentPrice /\ r.minBidIncrement = old.minBidIncrement
      /\ r.winningBidId = old.winningBidId /\ r.winnerUserId = old.winnerUserId
      /\ r.soldPrice = old.soldPrice
  <2> HIDE DEF v, old
  <2>1. QED
    BY <1>0, <1>3 DEF Row, Status, NatOrNull
<1>6. SaleOf(r, bids[a])
  <2>1. old.winningBidId = 0 /\ old.winnerUserId = Null /\ old.soldPrice = Null
    BY <1>2, <1>3 DEF Inv, SaleGrounded
  <2> HIDE DEF r
  <2>2. QED
    BY <1>5, <2>1 DEF SaleOf
<1>7. Replaces(a, r)
  <2> HIDE DEF r
  <2>1. QED
    BY <1>3, <1>5, <1>6 DEF Replaces, Closed, Settled
<1> HIDE DEF r
<1>8. pass' \in Pass
  <2> DEFINE m == RoomMessage("auction:started", a, 0, d.endsAt)
  <2> DEFINE left == pass.due \ {d}
  <2>1. m \in Messages
    BY <1>2, MessagesTyped DEF MessageType
  <2>2. pass' = [pass EXCEPT !.pc = "announce", !.due = left, !.out = {m}]
    BY <1>0, <1>1 DEF Pass
  <2>3. left \in SUBSET DueAuction
    BY <1>0
  <2> HIDE DEF left, m
  <2>4. QED
    BY <1>0, <2>1, <2>2, <2>3 DEF Pass
<1>9. events' \in [Auctions -> Seq(EventType)]
  <2>1. "STARTED" \in EventType
    BY DEF EventType
  <2>2. QED
    BY <1>0, <1>1, <1>2, <2>1
<1>10. UNCHANGED <<now, bids, extensions, notifications, announced, settling>>
  BY DEF StartAuction
<1>11. TypeOK'
  BY <1>2, <1>4, <1>7, <1>8, <1>9, <1>10, RowReplaced DEF Inv, TypeOK, StoreTypeOK,
     BiddingTypeOK, SettlementTypeOK, LifecycleTypeOK, DeskTypeOK
<1>12. QED
  BY <1>2, <1>4, <1>7, <1>10, <1>11, RowReplaced DEF Inv

LEMMA LifecycleKeepsInv ==
  ASSUME Inv, UNCHANGED <<calls, desk, faults>>, LifecycleStep
  PROVE  Inv'
<1>0. pass \in Pass /\ now \in Nat /\ faults' \in Nat /\ Timer \in Settlers
  BY DEF Inv, TypeOK, LifecycleTypeOK, StoreTypeOK, Settlers
<1>1. CASE BeginPass
  <2>1. PICK batch \in SUBSET Auctions :
          pass' = [IdlePass EXCEPT !.pc = "start", !.now = now, !.due = DueRows(batch)]
    BY <1>1 DEF BeginPass
  <2>2. DueRows(batch) \in SUBSET DueAuction
    BY DueRowsTyped
  <2>3. pass' \in Pass
    BY <1>0, <2>1, <2>2, IdleTyped DEF Pass
  <2>4. QED
    BY <1>1, <2>3, StoreUntouched, PassMoves DEF BeginPass
<1>2. CASE StartAuction
  BY <1>2, StartKeepsInv
<1>3. CASE SkipStart
  <2>1. pass' \in Pass
    BY <1>0, <1>3 DEF SkipStart, Pass
  <2>2. QED
    BY <1>3, <2>1, StoreUntouched, PassMoves DEF SkipStart
<1>4. CASE AnnounceStart
  <2>1. pass' \in Pass /\ pass.out \subseteq Messages
    BY <1>0, <1>4 DEF AnnounceStart, Pass
  <2>2. StoreTypeOK' /\ auction' = auction /\ bids' = bids
    BY <1>4, <2>1 DEF AnnounceStart, Emit, Inv, TypeOK, StoreTypeOK
  <2>3. QED
    BY <1>4, <2>1, <2>2, PassMoves DEF AnnounceStart
<1>5. CASE BeginSettling
  <2>1. PICK batch \in SUBSET Auctions :
          pass' = [pass EXCEPT !.pc = "settle", !.due = DueRows(batch)]
    BY <1>5 DEF BeginSettling
  <2>2. DueRows(batch) \in SUBSET DueAuction
    BY DueRowsTyped
  <2>3. pass' \in Pass
    BY <1>0, <2>1, <2>2 DEF Pass
  <2>4. QED
    BY <1>5, <2>3, StoreUntouched, PassMoves DEF BeginSettling
<1>6. CASE SettleNext
  <2>1. PICK d \in pass.due : Settle(Timer, d.auctionId) /\ pass' = [pass EXCEPT !.due = @ \ {d}]
    BY <1>6 DEF SettleNext
  <2>2. d.auctionId \in Auctions /\ pass' \in Pass
    BY <1>0, <2>1 DEF Pass, DueAuction
  <2>3. QED
    BY <1>0, <1>6, <2>1, <2>2, SettleCalled DEF SettleNext
<1>7. CASE EndPass
  BY <1>7, IdleTyped, StoreUntouched, PassMoves DEF EndPass
<1>8. CASE SettlementStep(Timer) /\ UNCHANGED pass
  BY <1>0, <1>8, SettlementKeepsInv
<1>9. QED
  BY <1>1, <1>2, <1>3, <1>4, <1>5, <1>6, <1>7, <1>8 DEF LifecycleStep

-----------------------------------------------------------------------------
(***************************************************************************)
(* The seller's desk                                                       *)
(***************************************************************************)

\* An edit writes columns of the right types and leaves the rest alone.
Edited(r, old) ==
  /\ r \in Row
  /\ r.status = old.status /\ r.bidCount = old.bidCount /\ r.rowVersion = old.rowVersion
  /\ r.currentPrice = old.currentPrice /\ r.winningBidId = old.winningBidId
  /\ r.winnerUserId = old.winnerUserId /\ r.soldPrice = old.soldPrice

LEMMA ContentsTyped ==
  ASSUME NEW old \in Row, NEW d \in Drafts, NEW sent
  PROVE  /\ Edited(WithContents(old, d, sent), old)
         /\ old.minBidIncrement > 0 \/ "minBidIncrement" \in sent =>
              WithContents(old, d, sent).minBidIncrement > 0
<1> DEFINE p == IF "startingPrice" \in sent THEN d.startingPrice ELSE old.startingPrice
<1> DEFINE m == IF "minBidIncrement" \in sent THEN d.minBidIncrement ELSE old.minBidIncrement
<1> DEFINE v == IF "reservePrice" \in sent THEN d.reservePrice ELSE old.reservePrice
<1> DEFINE i == IF "images" \in sent THEN d.images ELSE old.images
<1> DEFINE t == IF "scheduledStartAt" \in sent THEN d.scheduledStartAt
                                               ELSE old.scheduledStartAt
<1> DEFINE o == IF "scheduledEndAt" \in sent THEN d.scheduledEndAt ELSE old.originalEndAt
<1> DEFINE e == IF "scheduledEndAt" \in sent THEN d.scheduledEndAt ELSE old.currentEndAt
<1> DEFINE r == [old EXCEPT !.startingPrice = p, !.minBidIncrement = m, !.reservePrice = v,
                            !.images = i, !.scheduledStartAt = t, !.originalEndAt = o,
                            !.currentEndAt = e]
<1>1. /\ d.startingPrice \in Nat /\ d.minBidIncrement \in Nat /\ d.minBidIncrement > 0
      /\ d.reservePrice \in NatOrNull /\ d.images \in Nat
      /\ d.scheduledStartAt \in NatOrNull /\ d.scheduledEndAt \in NatOrNull
  BY DeskAssumption DEF Draft
<1>2. /\ old.startingPrice \in Nat /\ old.minBidIncrement \in Nat
      /\ old.reservePrice \in NatOrNull /\ old.images \in Nat
      /\ old.scheduledStartAt \in NatOrNull /\ old.originalEndAt \in NatOrNull
      /\ old.currentEndAt \in NatOrNull
  BY DEF Row
<1>3. /\ p \in Nat /\ m \in Nat /\ v \in NatOrNull /\ i \in Nat /\ t \in NatOrNull
      /\ o \in NatOrNull /\ e \in NatOrNull
      /\ old.minBidIncrement > 0 \/ "minBidIncrement" \in sent => m > 0
  BY <1>1, <1>2
<1>4. WithContents(old, d, sent) = r
  BY DEF WithContents
<1> HIDE DEF p, m, v, i, t, o, e
<1>5. r \in Row
  BY <1>3 DEF Row
<1>6. /\ r.status = old.status /\ r.bidCount = old.bidCount /\ r.rowVersion = old.rowVersion
      /\ r.currentPrice = old.currentPrice /\ r.winningBidId = old.winningBidId
      /\ r.winnerUserId = old.winnerUserId /\ r.soldPrice = old.soldPrice
      /\ r.minBidIncrement = m
  BY DEF Row
<1>7. QED
  BY <1>3, <1>4, <1>5, <1>6 DEF Edited

LEMMA CreateKeepsInv ==
  ASSUME Inv, NEW a \in Auctions, CreateDraft(a),
         UNCHANGED <<calls, settling, pass, faults>>
  PROVE  Inv'
<1>1. PICK d \in Drafts :
        auction' = [auction EXCEPT
          ![a] = [WithContents(NoRow, d, Columns) EXCEPT !.status = "DRAFT", !.rowVersion = 1]]
  BY DEF CreateDraft
<1>2. /\ auction[a].status = "NONE" /\ auction[a] \in Row /\ bids[a] = <<>>
      /\ auction[a].bidCount = 0
      /\ UNCHANGED <<now, bids, extensions, notifications, announced, desk>>
  BY DEF CreateDraft, Inv, RowOK, TypeOK, StoreTypeOK, LedgerSound
<1> DEFINE w == WithContents(NoRow, d, Columns)
<1> DEFINE r == [w EXCEPT !.status = "DRAFT", !.rowVersion = 1]
<1>3. Edited(w, NoRow) /\ w.minBidIncrement > 0
  BY NoRowTyped, ContentsTyped DEF Columns
<1> HIDE DEF w
<1>4. /\ r \in Row /\ r.status = "DRAFT" /\ r.bidCount = 0 /\ r.minBidIncrement > 0
      /\ r.currentPrice = 0 /\ r.winningBidId = 0 /\ r.winnerUserId = Null /\ r.soldPrice = Null
  BY <1>3 DEF Edited, NoRow, Row, Status
<1>5. Replaces(a, r)
  <2> HIDE DEF r
  <2>1. QED
    BY <1>2, <1>4 DEF Replaces, SaleOf, Closed, Settled
<1>6. auction' = [auction EXCEPT ![a] = r]
  BY <1>1 DEF w
<1> HIDE DEF r
<1>7. events' \in [Auctions -> Seq(EventType)]
  <2>1. events \in [Auctions -> Seq(EventType)] /\ "CREATED" \in EventType
    BY DEF Inv, TypeOK, StoreTypeOK, EventType
  <2>2. QED
    BY <2>1 DEF CreateDraft
<1>8. TypeOK'
  BY <1>2, <1>5, <1>6, <1>7, RowReplaced DEF Inv, TypeOK, StoreTypeOK,
     BiddingTypeOK, SettlementTypeOK, LifecycleTypeOK, DeskTypeOK
<1>9. QED
  BY <1>2, <1>5, <1>6, <1>8, RowReplaced DEF Inv

\* A step that moves one desk execution and writes no row.
LEMMA DeskMoves ==
  ASSUME Inv, StoreTypeOK', auction' = auction, bids' = bids,
         UNCHANGED <<calls, settling, pass, faults>>,
         NEW k \in DeskCalls, desk' \in [DeskCalls -> DeskCall],
         \A j \in DeskCalls \ {k} : desk'[j] = desk[j],
         DeskOK(k)'
  PROVE  Inv'
<1>1. TypeOK'
  BY DEF Inv, TypeOK, BiddingTypeOK, SettlementTypeOK, LifecycleTypeOK, DeskTypeOK
<1>2. QED
  BY <1>1, RowsUntouched DEF Inv

\* An execution that is over holds nothing.
LEMMA DoneTyped ==
  ASSUME Inv, NEW k \in DeskCalls, Done(k)
  PROVE  /\ desk' \in [DeskCalls -> DeskCall]
         /\ \A j \in DeskCalls \ {k} : desk'[j] = desk[j]
         /\ DeskOK(k)'
<1>1. desk \in [DeskCalls -> DeskCall]
  BY DEF Inv, TypeOK, DeskTypeOK
<1>2. desk'[k] = DoneDesk /\ DoneDesk.pc = "done"
  BY <1>1 DEF Done, DoneDesk, IdleDesk
<1>3. QED
  BY <1>1, <1>2, IdleTyped DEF Done, DeskOK

\* The write of a desk execution.
LEMMA DeskWrites ==
  ASSUME Inv, UNCHANGED <<calls, settling, pass, faults>>,
         NEW k \in DeskCalls, NEW row, NEW log \in Seq(EventType),
         desk[k].auctionId \in Auctions,
         Replaces(desk[k].auctionId, [row EXCEPT !.rowVersion = @ + 1]),
         WriteRow(k, row, log), notifications' \subseteq Messages,
         desk' \in [DeskCalls -> DeskCall],
         \A j \in DeskCalls \ {k} : desk'[j] = desk[j],
         DeskOK(k)'
  PROVE  Inv'
<1> DEFINE a == desk[k].auctionId
<1> DEFINE r == [row EXCEPT !.rowVersion = @ + 1]
<1>1. /\ auction' = [auction EXCEPT ![a] = r]
      /\ events' = [events EXCEPT ![a] = @ \o log]
      /\ UNCHANGED <<now, bids, extensions, announced>>
  BY DEF WriteRow
<1>2. Replaces(a, r)
  OBVIOUS
<1> HIDE DEF r
<1>3. events' \in [Auctions -> Seq(EventType)]
  <2>1. events \in [Auctions -> Seq(EventType)] /\ events[a] \in Seq(EventType)
    BY DEF Inv, TypeOK, StoreTypeOK
  <2>2. events[a] \o log \in Seq(EventType)
    BY <2>1
  <2>3. QED
    BY <1>1, <2>1, <2>2
<1>4. TypeOK'
  BY <1>1, <1>2, <1>3, RowReplaced DEF Inv, TypeOK, StoreTypeOK,
     BiddingTypeOK, SettlementTypeOK, LifecycleTypeOK, DeskTypeOK
<1>5. QED
  BY <1>1, <1>2, <1>4, RowReplaced DEF Inv

\* Changing the status, the times and the pictures of a row that names no
\* winner, and nothing the ledger depends on.
LEMMA StatusReplaces ==
  ASSUME Inv, NEW a \in Auctions, auction[a].status # "NONE",
         NEW row \in Row,
         row.bidCount = auction[a].bidCount, row.rowVersion = auction[a].rowVersion,
         row.currentPrice = auction[a].currentPrice,
         row.startingPrice = auction[a].startingPrice,
         row.minBidIncrement = auction[a].minBidIncrement,
         row.reservePrice = auction[a].reservePrice,
         row.winningBidId = auction[a].winningBidId,
         row.winnerUserId = auction[a].winnerUserId, row.soldPrice = auction[a].soldPrice,
         row.status # "NONE",
         (row.status = "SOLD") <=> (auction[a].status = "SOLD"),
         row.status \in {"DRAFT", "SCHEDULED"} => bids[a] = <<>>,
         auction[a].status \in {"ACTIVE"} \cup Closed => row.status \in {"ACTIVE"} \cup Closed
  PROVE  Replaces(a, [row EXCEPT !.rowVersion = @ + 1])
<1> DEFINE v == row.rowVersion + 1
<1> DEFINE r == [row EXCEPT !.rowVersion = v]
<1>1. v \in Nat /\ auction[a].minBidIncrement > 0
  BY DEF Row, Inv, RowOK
<1>2. [row EXCEPT !.rowVersion = @ + 1] = r /\ r.rowVersion = auction[a].rowVersion + 1
  BY DEF Row
<1>3. /\ r \in Row /\ r.status = row.status /\ r.bidCount = row.bidCount
      /\ r.currentPrice = row.currentPrice /\ r.startingPrice = row.startingPrice
      /\ r.minBidIncrement = row.minBidIncrement /\ r.reservePrice = row.reservePrice
      /\ r.winningBidId = row.winningBidId /\ r.winnerUserId = row.winnerUserId
      /\ r.soldPrice = row.soldPrice
  <2> HIDE DEF v
  <2>1. QED
    BY <1>1 DEF Row
<1> HIDE DEF r
<1>4. SaleOf(r, bids[a])
  BY <1>3 DEF Inv, SaleGrounded, SaleOf
<1>5. QED
  BY <1>1, <1>2, <1>3, <1>4 DEF Replaces

LEMMA BeginKeepsInv ==
  ASSUME Inv, NEW k \in DeskCalls, Begin(k), UNCHANGED <<calls, settling, pass, faults>>
  PROVE  Inv'
<1>0. /\ desk \in [DeskCalls -> DeskCall] /\ now \in Nat /\ auction \in [Auctions -> Row]
      /\ StoreTypeOK' /\ auction' = auction /\ bids' = bids
  BY StoreUntouched DEF Begin, Inv, TypeOK, DeskTypeOK, StoreTypeOK
<1>1. PICK op \in Operations, a \in Auctions :
        \E d \in IF op = "edit" THEN Drafts ELSE {Null},
           sent \in IF op = "edit" THEN Forms ELSE {{}} :
          /\ auction[a].status # "NONE"
          /\ desk' = [desk EXCEPT
               ![k] = IF MayBegin(op, auction[a], d, sent)
                      THEN [pc |-> "write", op |-> op, auctionId |-> a,
                            now |-> now, row |-> auction[a],
                            draft |-> d, sent |-> sent, out |-> {}]
                      ELSE DoneDesk]
  BY DEF Begin
<1>2. PICK d \in (IF op = "edit" THEN Drafts ELSE {Null}),
           sent \in (IF op = "edit" THEN Forms ELSE {{}}) :
          /\ auction[a].status # "NONE"
          /\ desk' = [desk EXCEPT
               ![k] = IF MayBegin(op, auction[a], d, sent)
                      THEN [pc |-> "write", op |-> op, auctionId |-> a,
                            now |-> now, row |-> auction[a],
                            draft |-> d, sent |-> sent, out |-> {}]
                      ELSE DoneDesk]
  BY <1>1
<1>3. CASE ~MayBegin(op, auction[a], d, sent)
  <2>1. Done(k)
    BY <1>2, <1>3 DEF Done
  <2>2. QED
    BY <1>0, <2>1, DoneTyped, DeskMoves
<1>4. CASE MayBegin(op, auction[a], d, sent)
  <2> DEFINE w == [pc |-> "write", op |-> op, auctionId |-> a, now |-> now,
                   row |-> auction[a], draft |-> d, sent |-> sent, out |-> {}]
  <2>1. desk' = [desk EXCEPT ![k] = w]
    BY <1>2, <1>4
  <2>2. op \in Operation /\ d \in Drafts \cup {Null} /\ sent \in SUBSET Columns
    BY DeskAssumption
  <2>3. w \in DeskCall
    BY <1>0, <2>2 DEF DeskCall
  <2>4. /\ op = "edit" => d \in Drafts
        /\ op \in {"edit", "cancel"} => auction[a].status \in {"DRAFT", "SCHEDULED"}
        /\ op = "adminCancel" => auction[a].status \in CANCELLABLE_BY_ADMIN
    BY <1>4 DEF MayBegin, assertSellerMayChange
  <2>5. DeskOK(k)'
    BY <1>0, <1>2, <2>1, <2>4 DEF DeskOK
  <2>6. QED
    BY <1>0, <2>1, <2>3, <2>5, DeskMoves
<1>5. QED
  BY <1>3, <1>4

LEMMA PublishKeepsInv ==
  ASSUME Inv, NEW k \in DeskCalls, Publish(k), UNCHANGED <<calls, settling, pass, faults>>
  PROVE  Inv'
<1> DEFINE a == desk[k].auctionId
<1> DEFINE old == auction[a]
<1> DEFINE at == desk[k].row.scheduledStartAt <= desk[k].now
<1>1. /\ a \in Auctions /\ old.status = "DRAFT" /\ old \in Row /\ bids[a] = <<>>
      /\ desk[k].now \in Nat
  BY DEF Publish, Writing, PublishGuard, Inv, DeskOK, TypeOK, StoreTypeOK, DeskTypeOK,
     DeskCall, RowOK
<1>2. PICK status \in {"ACTIVE", "SCHEDULED"}, started \in NatOrNull, log \in Seq(EventType) :
        WriteRow(k, [old EXCEPT !.status = status, !.startedAt = started], log)
  <2>1. <<"PUBLISHED", "STARTED">> \in Seq(EventType) /\ <<"PUBLISHED">> \in Seq(EventType)
    BY DEF EventType
  <2>2. CASE at
    BY <1>1, <2>1, <2>2 DEF Publish, NatOrNull
  <2>3. CASE ~at
    BY <1>1, <2>1, <2>3 DEF Publish, NatOrNull
  <2>4. QED
    BY <2>2, <2>3
<1> DEFINE row == [old EXCEPT !.status = status, !.startedAt = started]
<1>3. /\ row \in Row /\ row.status = status /\ row.bidCount = old.bidCount
      /\ row.rowVersion = old.rowVersion /\ row.currentPrice = old.currentPrice
      /\ row.startingPrice = old.startingPrice /\ row.minBidIncrement = old.minBidIncrement
      /\ row.reservePrice = old.reservePrice /\ row.winningBidId = old.winningBidId
      /\ row.winnerUserId = old.winnerUserId /\ row.soldPrice = old.soldPrice
  BY <1>1 DEF Row, Status
<1>4. WriteRow(k, row, log)
  BY <1>2
<1> HIDE DEF row
<1>5. Replaces(a, [row EXCEPT !.rowVersion = @ + 1])
  BY <1>1, <1>3, StatusReplaces DEF Closed, Settled
<1>6. Done(k) /\ notifications' \subseteq Messages
  BY DEF Publish, Inv, TypeOK, StoreTypeOK
<1>7. QED
  BY <1>1, <1>4, <1>5, <1>6, DoneTyped, DeskWrites

\* An edit is written only over a row that is still DRAFT or SCHEDULED, so
\* over an empty ledger.
LEMMA UpdateKeepsInv ==
  ASSUME Inv, NEW k \in DeskCalls, UpdateOwnAuction(k),
         UNCHANGED <<calls, settling, pass, faults>>
  PROVE  Inv'
<1> DEFINE a == desk[k].auctionId
<1> DEFINE old == auction[a]
<1> DEFINE row == EditedRow(k)
<1>1. desk[k].pc = "write" /\ desk[k].op = "edit" /\ SellerGuard(k) /\ DeskOK(k)
  BY DEF UpdateOwnAuction, Writing, Inv
<1>2. /\ a \in Auctions /\ desk[k].draft \in Drafts
      /\ old.status \in {"DRAFT", "SCHEDULED"}
  BY <1>1 DEF SellerGuard, DeskOK
<1>3. /\ old \in Row /\ bids[a] = <<>> /\ old.minBidIncrement > 0 /\ old.rowVersion \in Nat
      /\ old.winningBidId = 0 /\ old.winnerUserId = Null /\ old.soldPrice = Null
  BY <1>2 DEF Inv, TypeOK, StoreTypeOK, RowOK, SaleGrounded, Row
<1>4. Edited(row, old) /\ row.minBidIncrement > 0
  BY <1>2, <1>3, ContentsTyped DEF EditedRow
<1> HIDE DEF row
<1> DEFINE v == row.rowVersion + 1
<1> DEFINE r == [row EXCEPT !.rowVersion = v]
<1>5. [row EXCEPT !.rowVersion = @ + 1] = r /\ v \in Nat /\ v = old.rowVersion + 1
  BY SMTT(30), <1>3, <1>4 DEF Row, Edited
<1>6. /\ r \in Row /\ r.status = old.status /\ r.rowVersion = v /\ r.bidCount = old.bidCount
      /\ r.minBidIncrement = row.minBidIncrement
      /\ r.winningBidId = 0 /\ r.winnerUserId = Null /\ r.soldPrice = Null
  <2> HIDE DEF v
  <2>1. QED
    BY <1>3, <1>4, <1>5 DEF Row, Edited
<1>7. Replaces(a, [row EXCEPT !.rowVersion = @ + 1])
  <2> HIDE DEF r
  <2>1. QED
    BY <1>2, <1>3, <1>4, <1>5, <1>6 DEF Replaces, SaleOf, Closed, Settled
<1>8. /\ WriteRow(k, row, <<>>) /\ Done(k) /\ notifications' \subseteq Messages
      /\ <<>> \in Seq(EventType)
  BY DEF UpdateOwnAuction, row, Inv, TypeOK, StoreTypeOK
<1>9. QED
  BY <1>2, <1>7, <1>8, DoneTyped, DeskWrites

LEMMA CancelKeepsInv ==
  ASSUME Inv, NEW k \in DeskCalls, Cancel(k), UNCHANGED <<calls, settling, pass, faults>>
  PROVE  Inv'
<1> DEFINE a == desk[k].auctionId
<1> DEFINE old == auction[a]
<1> DEFINE told == CancelNotifications(k)
<1> DEFINE out == told \cup {RoomMessage("auction:cancelled", a, 0, Null)}
<1> DEFINE row == [old EXCEPT !.status = "CANCELLED", !.endedAt = desk[k].now]
<1>1. /\ desk[k].pc = "write" /\ CancelGuard(k) /\ DeskOK(k)
      /\ WriteRow(k, row, <<"CANCELLED">>)
      /\ notifications' = notifications \cup told
      /\ desk' = [desk EXCEPT ![k].pc = "announce", ![k].out = out]
  BY DEF Cancel, Inv
<1>2. a \in Auctions /\ old.status \in {"DRAFT", "SCHEDULED", "ACTIVE"}
  BY <1>1 DEF CancelGuard, SellerGuard, DeskOK, CANCELLABLE_BY_ADMIN
<1>3. old \in Row /\ desk[k].now \in Nat /\ desk \in [DeskCalls -> DeskCall]
  BY <1>2 DEF Inv, TypeOK, StoreTypeOK, DeskTypeOK, DeskCall
<1>4. /\ row \in Row /\ row.status = "CANCELLED" /\ row.bidCount = old.bidCount
      /\ row.rowVersion = old.rowVersion /\ row.currentPrice = old.currentPrice
      /\ row.startingPrice = old.startingPrice /\ row.minBidIncrement = old.minBidIncrement
      /\ row.reservePrice = old.reservePrice /\ row.winningBidId = old.winningBidId
      /\ row.winnerUserId = old.winnerUserId /\ row.soldPrice = old.soldPrice
  BY <1>3 DEF Row, Status, NatOrNull
<1> HIDE DEF row
<1>5. Replaces(a, [row EXCEPT !.rowVersion = @ + 1])
  BY <1>2, <1>4, StatusReplaces DEF Closed, Settled
<1>6. told \subseteq Messages
  <2>1. \A x : findAuctionAudience(a, x) \subseteq Users
    BY <1>2, AudienceTyped DEF Inv, TypeOK
  <2>2. SellerOf[a] \in Users
    BY <1>2, StoreAssumption
  <2>3. \A u \in Users : Notification("AUCTION_CANCELLED", a, u, 0) \in Messages
    BY <1>2, MessagesTyped DEF MessageType
  <2>4. QED
    BY <2>1, <2>2, <2>3 DEF CancelNotifications
<1>7. out \subseteq Messages
  <2>1. RoomMessage("auction:cancelled", a, 0, Null) \in Messages
    BY <1>2, MessagesTyped DEF MessageType, NatOrNull
  <2>2. QED
    BY <1>6, <2>1
<1> HIDE DEF told, out
<1>8. /\ desk' \in [DeskCalls -> DeskCall]
      /\ \A j \in DeskCalls \ {k} : desk'[j] = desk[j]
      /\ desk'[k].pc = "announce"
  <2> DEFINE new == [desk[k] EXCEPT !.pc = "announce", !.out = out]
  <2>1. desk[k] \in DeskCall
    BY <1>3
  <2>2. new \in DeskCall /\ new.pc = "announce"
    BY <1>7, <2>1 DEF DeskCall
  <2>3. desk' = [desk EXCEPT ![k] = new]
    BY <1>1
  <2> HIDE DEF new
  <2>4. QED
    BY <1>3, <2>2, <2>3
<1>9. DeskOK(k)'
  BY <1>8 DEF DeskOK
<1>10. notifications' \subseteq Messages /\ <<"CANCELLED">> \in Seq(EventType)
  BY <1>1, <1>6 DEF Inv, TypeOK, StoreTypeOK, EventType
<1>11. QED
  BY <1>1, <1>2, <1>5, <1>8, <1>9, <1>10, DeskWrites

\* Pictures come and go; nothing else of the row moves but its version.
LEMMA ImagesKeepInv ==
  ASSUME Inv, NEW k \in DeskCalls, AddDraftImage(k) \/ RemoveDraftImage(k),
         UNCHANGED <<calls, settling, pass, faults>>
  PROVE  Inv'
<1> DEFINE a == desk[k].auctionId
<1> DEFINE old == auction[a]
<1>1. a \in Auctions /\ old.status # "NONE"
  BY DEF AddDraftImage, RemoveDraftImage, Writing, Inv, DeskOK
<1>2. old \in Row /\ old.images \in Nat
  BY <1>1 DEF Inv, TypeOK, StoreTypeOK, Row
<1>3. PICK n \in Nat : WriteRow(k, [old EXCEPT !.images = n], <<>>)
  <2>1. CASE AddDraftImage(k)
    <3>1. WriteRow(k, [old EXCEPT !.images = old.images + 1], <<>>) /\ old.images + 1 \in Nat
      BY <1>2, <2>1 DEF AddDraftImage
    <3>2. QED
      BY <3>1
  <2>2. CASE RemoveDraftImage(k)
    <3>1. WriteRow(k, [old EXCEPT !.images = old.images - 1], <<>>) /\ old.images - 1 \in Nat
      BY <1>2, <2>2 DEF RemoveDraftImage
    <3>2. QED
      BY <3>1
  <2>3. QED
    BY <2>1, <2>2
<1> DEFINE row == [old EXCEPT !.images = n]
<1>4. /\ row \in Row /\ row.status = old.status /\ row.bidCount = old.bidCount
      /\ row.rowVersion = old.rowVersion /\ row.currentPrice = old.currentPrice
      /\ row.startingPrice = old.startingPrice /\ row.minBidIncrement = old.minBidIncrement
      /\ row.reservePrice = old.reservePrice /\ row.winningBidId = old.winningBidId
      /\ row.winnerUserId = old.winnerUserId /\ row.soldPrice = old.soldPrice
  BY <1>2 DEF Row
<1>5. WriteRow(k, row, <<>>) /\ <<>> \in Seq(EventType)
  BY <1>3
<1> HIDE DEF row
<1>6. old.status \in {"DRAFT", "SCHEDULED"} => bids[a] = <<>>
  BY <1>1 DEF Inv, RowOK
<1>7. Replaces(a, [row EXCEPT !.rowVersion = @ + 1])
  BY <1>1, <1>4, <1>6, StatusReplaces
<1>8. Done(k) /\ notifications' \subseteq Messages
  BY DEF AddDraftImage, RemoveDraftImage, Inv, TypeOK, StoreTypeOK
<1>9. QED
  BY <1>1, <1>5, <1>7, <1>8, DoneTyped, DeskWrites

LEMMA DeskKeepsInv ==
  ASSUME Inv, NEW k \in DeskCalls, DeskStep(k), UNCHANGED <<calls, settling, pass, faults>>
  PROVE  Inv'
<1>1. CASE Refuse(k)
  BY <1>1, StoreUntouched, DoneTyped, DeskMoves DEF Refuse
<1>2. CASE AnnounceCancel(k)
  <2>1. desk[k].out \subseteq Messages
    BY DEF Inv, TypeOK, DeskTypeOK, DeskCall
  <2>2. StoreTypeOK' /\ auction' = auction /\ bids' = bids
    BY <1>2, <2>1 DEF AnnounceCancel, Emit, Inv, TypeOK, StoreTypeOK
  <2>3. QED
    BY <1>2, <2>2, DoneTyped, DeskMoves DEF AnnounceCancel
<1>3. QED
  BY <1>1, <1>2, BeginKeepsInv, PublishKeepsInv, UpdateKeepsInv, CancelKeepsInv, ImagesKeepInv
     DEF DeskStep

-----------------------------------------------------------------------------
(***************************************************************************)
(* Faults, the clock, and the invariant                                    *)
(***************************************************************************)

LEMMA ClockKeepsInv ==
  ASSUME Inv, ClockStep
  PROVE  Inv'
<1>1. StoreTypeOK' /\ auction' = auction /\ bids' = bids
  BY DEF ClockStep, Tick, Inv, TypeOK, StoreTypeOK
<1>2. pass' \in Pass /\ UNCHANGED <<calls, desk, settling, pass, faults>>
  BY DEF ClockStep, Inv, TypeOK, LifecycleTypeOK
<1>3. QED
  BY <1>1, <1>2, PassMoves

\* A settlement that is lost holds nothing any more.
LEMMA LostSettler ==
  ASSUME Inv, NEW s \in Settlers
  PROVE  SettlerLost(s) \in Settler /\ SettlerLost(s).pc \in {"idle", "done"}
<1>1. settling[s] \in Settler
  BY DEF Inv, TypeOK, SettlementTypeOK
<1>2. QED
  BY <1>1, FinishedTyped DEF SettlerLost

LEMMA PassFailureKeepsInv ==
  ASSUME Inv, PassFailure
  PROVE  Inv'
<1>1. Timer \in Settlers /\ settling \in [Settlers -> Settler]
  BY DEF Settlers, Inv, TypeOK, SettlementTypeOK
<1>2. /\ settling' = [settling EXCEPT ![Timer] = SettlerLost(Timer)]
      /\ UNCHANGED storeVars /\ UNCHANGED <<calls, desk>> /\ pass' \in Pass /\ faults' \in Nat
  BY IdleTyped DEF PassFailure, PassFails, Inv, TypeOK
<1>3. /\ settling' \in [Settlers -> Settler]
      /\ \A t \in Settlers \ {Timer} : settling'[t] = settling[t]
      /\ SettlerOK(Timer)'
  BY <1>1, <1>2, LostSettler DEF SettlerOK
<1>4. QED
  BY <1>1, <1>2, <1>3, StoreUntouched, SettlerMoves

LEMMA CrashKeepsInv ==
  ASSUME Inv, Crash
  PROVE  Inv'
<1>1. StoreTypeOK' /\ auction' = auction /\ bids' = bids
  BY StoreUntouched DEF Crash
<1>2. \A c \in Calls : calls'[c] \in Call /\ CallOK(c)'
  <2> SUFFICES ASSUME NEW c \in Calls PROVE calls'[c] \in Call /\ CallOK(c)'
    OBVIOUS
  <2>1. calls'[c] = CallLost(calls[c]) /\ calls[c] \in Call /\ CallOK(c)
    BY DEF Crash, Inv, TypeOK, BiddingTypeOK
  <2>2. CASE calls[c].pc \in {"idle", "done"}
    BY <1>1, <2>1, <2>2 DEF CallLost, CallOK
  <2>3. CASE calls[c].pc \notin {"idle", "done"}
    <3> DEFINE w == [IdleCall EXCEPT !.pc = "done", !.req = calls[c].req,
                                     !.answer = [kind |-> "lost"]]
    <3>1. calls'[c] = w /\ calls[c].req \in Inputs
      BY <2>1, <2>3 DEF CallLost, CallOK
    <3>2. [kind |-> "lost"] \in BidAnswer
      BY DEF BidAnswer
    <3>3. w \in Call
      BY <3>1, <3>2, IdleTyped DEF Call
    <3>4. CallOK(c)'
      BY <3>1 DEF CallOK, IdleCall
    <3>5. QED
      BY <3>1, <3>3, <3>4
  <2>4. QED
    BY <2>2, <2>3
<1>3. \A s \in Settlers : settling'[s] \in Settler /\ SettlerOK(s)'
  BY LostSettler DEF Crash, SettlerOK
<1>4. \A k \in DeskCalls : desk'[k] \in DeskCall /\ DeskOK(k)'
  <2> SUFFICES ASSUME NEW k \in DeskCalls PROVE desk'[k] \in DeskCall /\ DeskOK(k)'
    OBVIOUS
  <2>1. desk'[k] = DeskLost(desk[k]) /\ desk[k] \in DeskCall
    BY DEF Crash, Inv, TypeOK, DeskTypeOK
  <2>2. DoneDesk.pc = "done"
    BY DEF DoneDesk, IdleDesk
  <2>3. QED
    BY <2>1, <2>2, IdleTyped DEF DeskLost, DeskOK
<1>5. TypeOK'
  <2>1. /\ calls' \in [Calls -> Call] /\ settling' \in [Settlers -> Settler]
        /\ desk' \in [DeskCalls -> DeskCall] /\ pass' \in Pass /\ faults' \in Nat
    BY <1>2, <1>3, <1>4, IdleTyped DEF Crash, Inv, TypeOK
  <2>2. QED
    BY <1>1, <2>1 DEF TypeOK, BiddingTypeOK, SettlementTypeOK, LifecycleTypeOK, DeskTypeOK
<1>6. QED
  BY <1>1, <1>2, <1>3, <1>4, <1>5, RowsUntouched DEF Inv

\* Inv is inductive: one step per kind of actor.
THEOREM StepKeepsInv == Inv /\ [Next]_vars => Inv'
<1> SUFFICES ASSUME Inv, [Next]_vars PROVE Inv'
  OBVIOUS
<1>1. CASE ClockStep
  BY <1>1, ClockKeepsInv
<1>2. ASSUME NEW c \in Calls, BidderStep(c) PROVE Inv'
  BY <1>2, QuietBidding, AcceptKeepsInv DEF BidderStep, BiddingStep
<1>3. ASSUME NEW r \in Readers, ReaderStep(r) PROVE Inv'
  BY <1>3, SettlementKeepsInv DEF ReaderStep, Settlers
<1>4. CASE TimerStep
  BY <1>4, LifecycleKeepsInv DEF TimerStep
<1>5. CASE SellerStep
  BY <1>5, CreateKeepsInv, DeskKeepsInv DEF SellerStep
<1>6. CASE PassFailure
  BY <1>6, PassFailureKeepsInv
<1>7. CASE Crash
  BY <1>7, CrashKeepsInv
<1>8. CASE UNCHANGED vars
  <2>1. /\ UNCHANGED storeVars /\ UNCHANGED <<calls, settling, pass, desk, faults>>
    BY <1>8 DEF vars
  <2>2. pass' \in Pass
    BY <2>1 DEF Inv, TypeOK, LifecycleTypeOK
  <2>3. QED
    BY <2>1, <2>2, StoreUntouched, PassMoves
<1>9. QED
  BY <1>1, <1>2, <1>3, <1>4, <1>5, <1>6, <1>7, <1>8 DEF Next

\* The invariant, for every reachable state.
THEOREM Invariance == Spec => []Inv
<1>1. Init => Inv
  BY InitInv
<1>2. Inv /\ [Next]_vars => Inv'
  BY StepKeepsInv
<1>3. QED
  BY <1>1, <1>2, PTL DEF Spec

\* Every row, request, settlement, pass and desk execution keeps its type.
THEOREM TypeCorrect == Spec => []TypeOK
<1>1. Inv => TypeOK
  BY DEF Inv
<1>2. QED
  BY <1>1, Invariance, PTL

\* placeBidInTransaction keeps the ledger in order under any interleaving,
\* for any number of bidders, retries, readers, sellers and crashes.
THEOREM LedgerIsSound == Spec => []LedgerSound
<1>1. Inv => LedgerSound
  BY DEF Inv
<1>2. QED
  BY <1>1, Invariance, PTL

\* settleInTransaction sells only to a bid on record that clears the reserve.
THEOREM SalesAreGrounded == Spec => []SaleGrounded
<1>1. Inv => SaleGrounded
  BY DEF Inv
<1>2. QED
  BY <1>1, Invariance, PTL

-----------------------------------------------------------------------------
(***************************************************************************)
(* Action properties                                                       *)
(***************************************************************************)

\* What a step may do to auction x: nothing to the outcome of a closed one,
\* nothing to the terms of one that has opened.
Lawful(x) ==
  /\ auction[x].status \in Closed => Outcome(x)' = Outcome(x)
  /\ auction[x].status \in Settled \cup {"ACTIVE"} =>
       TermsOf(auction'[x]) = TermsOf(auction[x])

LEMMA ElsewhereLawful ==
  ASSUME NEW x, auction'[x] = auction[x], bids'[x] = bids[x],
         extensions'[x] = extensions[x]
  PROVE  Lawful(x)
BY DEF Lawful, Outcome, TermsOf

LEMMA QuietLawful ==
  ASSUME UNCHANGED <<auction, bids, extensions>>
  PROVE  \A x \in Auctions : Lawful(x)
BY ElsewhereLawful

\* One row is rewritten; it is not that of a closed auction, and if it has
\* opened its terms stand.
LEMMA RowWriteLawful ==
  ASSUME Inv, NEW a \in Auctions, NEW r, auction' = [auction EXCEPT ![a] = r],
         \A x \in Auctions \ {a} : bids'[x] = bids[x] /\ extensions'[x] = extensions[x],
         auction[a].status \notin Closed,
         auction[a].status = "ACTIVE" => TermsOf(r) = TermsOf(auction[a])
  PROVE  \A x \in Auctions : Lawful(x)
<1>1. auction \in [Auctions -> Row]
  BY DEF Inv, TypeOK, StoreTypeOK
<1>2. auction'[a] = r /\ \A x \in Auctions \ {a} : auction'[x] = auction[x]
  BY <1>1
<1>3. Lawful(a)
  BY <1>2 DEF Lawful, Closed
<1>4. QED
  BY <1>2, <1>3, ElsewhereLawful

LEMMA AcceptLawful ==
  ASSUME Inv, NEW c \in Calls, AcceptBid(c)
  PROVE  \A x \in Auctions : Lawful(x)
<1> DEFINE a == calls[c].req.auctionId
<1> DEFINE old == auction[a]
<1> DEFINE amount == calls[c].req.amount
<1> DEFINE extends == calculateAntiSniping(calls[c].row, calls[c].now)
<1> DEFINE end == ExtendedEnd(calls[c].row)
<1>1. /\ calls[c].pc = "write" /\ BidGuard(old, c)
      /\ auction' = [auction EXCEPT ![a] = RowAfterBid(old, amount, extends, end)]
      /\ \E b : bids' = [bids EXCEPT ![a] = b]
      /\ \E e : extensions' = [extensions EXCEPT ![a] = e]
  BY DEF AcceptBid
<1>2. a \in Auctions
  <2>1. calls[c].req \in Inputs
    BY <1>1 DEF Inv, CallOK
  <2>2. QED
    BY <2>1, BiddingAssumption
<1>3. old \in Row /\ old.status = "ACTIVE"
  BY <1>1, <1>2 DEF Inv, TypeOK, StoreTypeOK, BidGuard
<1>4. TermsOf(RowAfterBid(old, amount, extends, end)) = TermsOf(old)
  <2> HIDE DEF old, extends, end, amount
  <2>1. QED
    BY <1>3 DEF RowAfterBid, TermsOf, Row
<1>5. \A x \in Auctions \ {a} : bids'[x] = bids[x] /\ extensions'[x] = extensions[x]
  BY <1>1 DEF Inv, TypeOK, StoreTypeOK
<1> HIDE DEF old, extends, end, amount
<1>6. QED
  BY <1>1, <1>2, <1>3, <1>4, <1>5, RowWriteLawful DEF Closed, Settled, old

LEMMA SettleLawful ==
  ASSUME Inv, NEW s \in Settlers, SettleWrite(s)
  PROVE  \A x \in Auctions : Lawful(x)
<1> DEFINE a == settling[s].auctionId
<1> DEFINE r == RowAfterSettlement(a, s)
<1>1. /\ settling[s].pc = "write" /\ SettleGuard(auction[a])
      /\ auction' = [auction EXCEPT ![a] = r]
      /\ UNCHANGED <<bids, extensions>>
  BY DEF SettleWrite
<1>2. a \in Auctions
  BY <1>1 DEF Inv, SettlerOK
<1>3. auction[a] \in Row /\ auction[a].status = "ACTIVE"
  BY <1>1, <1>2 DEF Inv, TypeOK, StoreTypeOK, SettleGuard
<1>4. TermsOf(r) = TermsOf(auction[a])
  BY <1>3 DEF RowAfterSettlement, TermsOf, Row
<1> HIDE DEF r
<1>5. QED
  BY <1>1, <1>2, <1>3, <1>4, RowWriteLawful DEF Closed, Settled

LEMMA StartLawful ==
  ASSUME Inv, StartAuction
  PROVE  \A x \in Auctions : Lawful(x)
<1>0. pass.due \in SUBSET DueAuction /\ auction \in [Auctions -> Row]
  BY DEF Inv, TypeOK, LifecycleTypeOK, Pass, StoreTypeOK
<1>1. PICK d \in pass.due :
        LET a == d.auctionId
        IN  /\ StartGuard(auction[a], pass.now)
            /\ auction' = [auction EXCEPT ![a].status = "ACTIVE",
                                          ![a].startedAt = pass.now,
                                          ![a].rowVersion = @ + 1]
  BY DEF StartAuction
<1> DEFINE a == d.auctionId
<1>2. a \in Auctions
  BY <1>0 DEF DueAuction
<1>3. \E r : auction' = [auction EXCEPT ![a] = r]
  BY <1>0, <1>1, <1>2
<1>4. auction[a].status = "SCHEDULED" /\ UNCHANGED <<bids, extensions>>
  BY <1>1 DEF StartGuard, StartAuction
<1>5. QED
  BY <1>2, <1>3, <1>4, RowWriteLawful DEF Closed, Settled

\* The desk writes only rows that are still in a status it may write, and
\* pictures, which no outcome and no term depends on.
LEMMA DeskLawful ==
  ASSUME Inv, NEW k \in DeskCalls, DeskStep(k)
  PROVE  \A x \in Auctions : Lawful(x)
<1> DEFINE a == desk[k].auctionId
<1>1. CASE Begin(k) \/ Refuse(k) \/ AnnounceCancel(k)
  <2>1. UNCHANGED <<auction, bids, extensions>>
    BY <1>1 DEF Begin, Refuse, AnnounceCancel, Emit, storeVars
  <2>2. QED
    BY <2>1, QuietLawful
<1>2. ASSUME NEW row, NEW log, WriteRow(k, row, log), a \in Auctions,
             auction[a].status \in {"DRAFT", "SCHEDULED"} \/
               (auction[a].status = "ACTIVE" /\
                  TermsOf([row EXCEPT !.rowVersion = @ + 1]) = TermsOf(auction[a]))
      PROVE  \A x \in Auctions : Lawful(x)
  <2> DEFINE r == [row EXCEPT !.rowVersion = @ + 1]
  <2>1. auction' = [auction EXCEPT ![a] = r] /\ UNCHANGED <<bids, extensions>>
    BY <1>2 DEF WriteRow
  <2>2. /\ auction[a].status \notin Closed
        /\ auction[a].status = "ACTIVE" => TermsOf(r) = TermsOf(auction[a])
    BY <1>2 DEF Closed, Settled
  <2> HIDE DEF r
  <2>3. QED
    BY <1>2, <2>1, <2>2, RowWriteLawful
<1>3. desk[k].pc = "write" => DeskOK(k) /\ a \in Auctions /\ auction[a] \in Row
  BY DEF Inv, DeskOK, TypeOK, StoreTypeOK
<1>4. CASE Publish(k)
  <2>1. a \in Auctions /\ auction[a].status = "DRAFT" /\ \E row, log : WriteRow(k, row, log)
    BY <1>3, <1>4 DEF Publish, Writing, PublishGuard
  <2>2. QED
    BY <1>2, <2>1
<1>5. CASE UpdateOwnAuction(k)
  <2>1. /\ a \in Auctions /\ auction[a].status \in {"DRAFT", "SCHEDULED"}
        /\ \E row, log : WriteRow(k, row, log)
    BY <1>3, <1>5 DEF UpdateOwnAuction, Writing, SellerGuard, DeskOK
  <2>2. QED
    BY <1>2, <2>1
<1>6. CASE Cancel(k)
  <2> DEFINE row == [auction[a] EXCEPT !.status = "CANCELLED", !.endedAt = desk[k].now]
  <2>1. /\ a \in Auctions /\ auction[a] \in Row
        /\ auction[a].status \in {"DRAFT", "SCHEDULED", "ACTIVE"}
        /\ WriteRow(k, row, <<"CANCELLED">>)
    BY <1>3, <1>6 DEF Cancel, CancelGuard, SellerGuard, DeskOK, CANCELLABLE_BY_ADMIN
  <2>2. TermsOf([row EXCEPT !.rowVersion = @ + 1]) = TermsOf(auction[a])
    BY <2>1 DEF TermsOf, Row
  <2> HIDE DEF row
  <2>3. QED
    BY <1>2, <2>1, <2>2
<1>7. CASE AddDraftImage(k) \/ RemoveDraftImage(k)
  <2>1. /\ a \in Auctions /\ auction[a] \in Row
        /\ \E n : WriteRow(k, [auction[a] EXCEPT !.images = n], <<>>)
    BY <1>3, <1>7 DEF AddDraftImage, RemoveDraftImage, Writing
  <2>2. PICK n : auction' = [auction EXCEPT
                   ![a] = [[auction[a] EXCEPT !.images = n] EXCEPT !.rowVersion = @ + 1]]
    BY <2>1 DEF WriteRow
  <2>3. UNCHANGED <<bids, extensions>> /\ auction \in [Auctions -> Row]
    BY <2>1 DEF WriteRow, Inv, TypeOK, StoreTypeOK
  <2> DEFINE r == [[auction[a] EXCEPT !.images = n] EXCEPT !.rowVersion = @ + 1]
  <2>4. /\ TermsOf(r) = TermsOf(auction[a])
        /\ r.status = auction[a].status /\ r.winnerUserId = auction[a].winnerUserId
        /\ r.winningBidId = auction[a].winningBidId /\ r.soldPrice = auction[a].soldPrice
        /\ r.endedAt = auction[a].endedAt /\ r.currentEndAt = auction[a].currentEndAt
    BY <2>1 DEF TermsOf, Row
  <2> HIDE DEF r
  <2>5. auction'[a] = r /\ \A x \in Auctions \ {a} : auction'[x] = auction[x]
    BY <2>1, <2>2, <2>3 DEF r
  <2> SUFFICES ASSUME NEW x \in Auctions PROVE Lawful(x)
    OBVIOUS
  <2>6. CASE x = a
    <3>1. Outcome(x)' = Outcome(x)
      BY <2>3, <2>4, <2>5, <2>6 DEF Outcome
    <3>2. TermsOf(auction'[x]) = TermsOf(auction[x])
      BY <2>4, <2>5, <2>6
    <3>3. QED
      BY <3>1, <3>2 DEF Lawful
  <2>7. CASE x # a
    BY <2>3, <2>5, <2>7, ElsewhereLawful
  <2>8. QED
    BY <2>6, <2>7
<1>8. QED
  BY <1>1, <1>4, <1>5, <1>6, <1>7 DEF DeskStep

\* Every step of the system is lawful for every auction.
LEMMA StepLawful ==
  ASSUME Inv, [Next]_vars
  PROVE  \A x \in Auctions : Lawful(x)
<1>1. ASSUME UNCHANGED storeVars PROVE \A x \in Auctions : Lawful(x)
  BY <1>1, QuietLawful DEF storeVars
<1>2. ASSUME NEW m, Emit(m) PROVE \A x \in Auctions : Lawful(x)
  BY <1>2, QuietLawful DEF Emit
<1>3. CASE ClockStep
  BY <1>3, QuietLawful DEF ClockStep, Tick
<1>4. ASSUME NEW c \in Calls, BidderStep(c) PROVE \A x \in Auctions : Lawful(x)
  BY <1>1, <1>2, <1>4, AcceptLawful DEF BidderStep, BiddingStep, ReceiveBid, LookupRequest,
     ReadAuction, CollideOnRequest, LoseRace, AnswerLostRace, AnnounceBid
<1>5. ASSUME NEW s \in Settlers, FindPublicAuction(s) \/ SettlementStep(s)
      PROVE  \A x \in Auctions : Lawful(x)
  BY <1>1, <1>2, <1>5, SettleLawful DEF FindPublicAuction, SettlementStep, SettleRead,
     SettleDecide, SettleLost, SettleAnnounce
<1>6. ASSUME NEW r \in Readers, ReaderStep(r) PROVE \A x \in Auctions : Lawful(x)
  BY <1>5, <1>6 DEF ReaderStep, Settlers
<1>7. CASE TimerStep
  <2>1. Timer \in Settlers
    BY DEF Settlers
  <2>2. CASE StartAuction
    BY <2>2, StartLawful
  <2>3. CASE SettlementStep(Timer)
    BY <1>5, <2>1, <2>3
  <2>4. CASE BeginPass \/ SkipStart \/ BeginSettling \/ SettleNext \/ EndPass
    BY <1>1, <2>4 DEF BeginPass, SkipStart, BeginSettling, SettleNext, EndPass
  <2>5. CASE AnnounceStart
    BY <1>2, <2>5 DEF AnnounceStart
  <2>6. QED
    BY <1>7, <2>2, <2>3, <2>4, <2>5 DEF TimerStep, LifecycleStep
<1>8. CASE SellerStep
  <2>1. ASSUME NEW a \in Auctions, CreateDraft(a) PROVE \A x \in Auctions : Lawful(x)
    <3>1. /\ auction[a].status = "NONE" /\ UNCHANGED <<bids, extensions>>
          /\ \E r : auction' = [auction EXCEPT ![a] = r]
      BY <2>1 DEF CreateDraft
    <3>2. QED
      BY <3>1, RowWriteLawful DEF Closed, Settled
  <2>2. QED
    BY <1>8, <2>1, DeskLawful DEF SellerStep
<1>9. CASE PassFailure \/ Crash \/ UNCHANGED vars
  BY <1>1, <1>9 DEF PassFailure, PassFails, Crash, vars
<1>10. QED
  BY <1>3, <1>4, <1>6, <1>7, <1>8, <1>9 DEF Next

\* No late bid, second settlement, stale edit or stale cancellation changes
\* the outcome of an auction that is over.
THEOREM OutcomesAreFinal == Spec => ResultsAreFinal
<1> DEFINE A == \A a \in Auctions : auction[a].status \in Closed => Outcome(a)' = Outcome(a)
<1>1. Inv /\ [Next]_vars => [A]_vars
  BY StepLawful DEF Lawful
<1>2. QED
  BY <1>1, Invariance, PTL DEF Spec, ResultsAreFinal

\* No edit that read an auction before it opened changes the terms people
\* are bidding against.
THEOREM TermsStandOnceOpen == Spec => OpenTermsStand
<1> DEFINE A == \A a \in Auctions : auction[a].status \in Settled \cup {"ACTIVE"} =>
                  TermsOf(auction'[a]) = TermsOf(auction[a])
<1>1. Inv /\ [Next]_vars => [A]_vars
  BY StepLawful DEF Lawful
<1>2. QED
  BY <1>1, Invariance, PTL DEF Spec, OpenTermsStand
=============================================================================
