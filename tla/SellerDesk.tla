----------------------------- MODULE SellerDesk -----------------------------
(***************************************************************************)
(* What a seller does to their own auction (create, edit, publish, cancel, *)
(* add or take off a picture) and what an admin may do to it (cancel).     *)
(* Every operation but create reads the row, checks it, and writes later:  *)
(*                                                                         *)
(*   idle -> write -> (announce ->) done                                   *)
(*                                                                         *)
(* so each write says which part of what was read it still insists on.     *)
(***************************************************************************)
EXTENDS AuctionStore

CONSTANTS
  DeskCalls,      \* executions of these operations
  Operations,     \* the operations the clients use
  Drafts,         \* the contents a seller may write: terms, schedule, pictures
  Forms,          \* the sets of columns an edit may send
  SCHEDULE_PAST_GRACE   \* how much of the past still counts as now in a form

Operation == {"publish", "edit", "cancel", "adminCancel", "addImage", "removeImage"}

Columns == {"startingPrice", "minBidIncrement", "reservePrice", "images",
            "scheduledStartAt", "scheduledEndAt"}

Draft == [startingPrice : Nat \ {0}, minBidIncrement : Nat \ {0},
          reservePrice : NatOrNull \ {0}, images : Nat,
          scheduledStartAt : NatOrNull, scheduledEndAt : NatOrNull]

ASSUME DeskAssumption ==
  /\ Operations \subseteq Operation
  /\ Drafts \subseteq Draft
  /\ Forms \subseteq SUBSET Columns
  /\ SCHEDULE_PAST_GRACE \in Nat

VARIABLE desk   \* progress of each execution

DeskCall == [pc : {"idle", "write", "announce", "done"},
             op : Operation \cup {Null}, auctionId : Auctions \cup {Null},
             now : Nat, row : Row, draft : Drafts \cup {Null}, sent : SUBSET Columns,
             out : SUBSET Messages]

IdleDesk == [pc |-> "idle", op |-> Null, auctionId |-> Null, now |-> 0,
             row |-> NoRow, draft |-> Null, sent |-> {}, out |-> {}]

DoneDesk == [IdleDesk EXCEPT !.pc = "done"]

DeskInit == desk = [k \in DeskCalls |-> IdleDesk]

-----------------------------------------------------------------------------
(***************************************************************************)
(* Contents                                                                *)
(***************************************************************************)

\* The columns create and edit write, of those the request sent: both ends
\* of the auction are the drafted end until anti-sniping moves one of them.
WithContents(row, d, sent) ==
  LET Sent(column, new, old) == IF column \in sent THEN new ELSE old
  IN  [row EXCEPT
         !.startingPrice = Sent("startingPrice", d.startingPrice, @),
         !.minBidIncrement = Sent("minBidIncrement", d.minBidIncrement, @),
         !.reservePrice = Sent("reservePrice", d.reservePrice, @),
         !.images = Sent("images", d.images, @),
         !.scheduledStartAt = Sent("scheduledStartAt", d.scheduledStartAt, @),
         !.originalEndAt = Sent("scheduledEndAt", d.scheduledEndAt, @),
         !.currentEndAt = Sent("scheduledEndAt", d.scheduledEndAt, @)]

\* IsNotInThePast on the times the request sent.
NotInThePast(d, sent) ==
  LET Ahead(t) == IF t = Null THEN TRUE ELSE t + SCHEDULE_PAST_GRACE >= now
  IN  /\ "scheduledStartAt" \in sent => Ahead(d.scheduledStartAt)
      /\ "scheduledEndAt" \in sent => Ahead(d.scheduledEndAt)

\* What the operation insists on when it reads the row.
MayBegin(op, row, d, sent) ==
  CASE op = "publish"     -> row.status = "DRAFT" /\ validateDraftForPublish(row, now)
    [] op = "edit"        -> assertSellerMayChange(row) /\ NotInThePast(d, sent)
    [] op = "cancel"      -> assertSellerMayChange(row)
    [] op = "adminCancel" -> row.status \in CANCELLABLE_BY_ADMIN
    [] op = "addImage"    -> row.status = "DRAFT" /\ row.images < MAX_AUCTION_IMAGES
    [] op = "removeImage" -> row.status = "DRAFT" /\ row.images > 0

-----------------------------------------------------------------------------
(***************************************************************************)
(* Steps                                                                   *)
(***************************************************************************)

\* createDraft: one insert, with the CREATED event.
CreateDraft(a) ==
  /\ auction[a].status = "NONE"
  /\ \E d \in Drafts :
       /\ NotInThePast(d, Columns)
       /\ auction' = [auction EXCEPT
            ![a] = [WithContents(NoRow, d, Columns) EXCEPT !.status = "DRAFT", !.rowVersion = 1]]
  /\ events' = [events EXCEPT ![a] = Append(@, "CREATED")]
  /\ UNCHANGED <<now, bids, extensions, notifications, announced, desk>>

\* The row is read and checked, or the request is refused.
Begin(k) ==
  /\ desk[k].pc = "idle"
  /\ \E op \in Operations, a \in Auctions :
       \E d \in IF op = "edit" THEN Drafts ELSE {Null},
          sent \in IF op = "edit" THEN Forms ELSE {{}} :
         /\ auction[a].status # "NONE"
         /\ desk' = [desk EXCEPT
              ![k] = IF MayBegin(op, auction[a], d, sent)
                     THEN [pc |-> "write", op |-> op, auctionId |-> a,
                           now |-> now, row |-> auction[a],
                           draft |-> d, sent |-> sent, out |-> {}]
                     ELSE DoneDesk]
  /\ UNCHANGED storeVars

Writing(k, op) == desk[k].pc = "write" /\ desk[k].op = op

Done(k) == desk' = [desk EXCEPT ![k] = DoneDesk]

\* The write of an operation: the new row and the audit events; a
\* cancellation goes on to announce.
WriteRow(k, row, log) ==
  LET a == desk[k].auctionId
  IN  /\ auction' = [auction EXCEPT ![a] = [row EXCEPT !.rowVersion = @ + 1]]
      /\ events' = [events EXCEPT ![a] = @ \o log]
      /\ UNCHANGED <<now, bids, extensions, announced>>

\* Mutant: publish writes whatever the status has become.
PublishGuard_None(k) == desk[k].op = "publish"

\* publishDraft is guarded on DRAFT alone.  Whether it starts at once was
\* decided on the row and the clock it read.
PublishGuard(k) == auction[desk[k].auctionId].status = "DRAFT"

Publish(k) ==
  LET immediately == desk[k].row.scheduledStartAt <= desk[k].now
  IN  /\ Writing(k, "publish")
      /\ PublishGuard(k)
      /\ WriteRow(k,
           [auction[desk[k].auctionId] EXCEPT
              !.status = IF immediately THEN "ACTIVE" ELSE "SCHEDULED",
              !.startedAt = IF immediately THEN desk[k].now ELSE Null],
           IF immediately THEN <<"PUBLISHED", "STARTED">> ELSE <<"PUBLISHED">>)
      /\ Done(k)
      /\ UNCHANGED notifications

\* Mutant: the status read is not insisted on.
SellerGuard_BidsOnly(k) ==
  auction[desk[k].auctionId].bidCount = desk[k].row.bidCount

\* Edits and the seller's cancellation are guarded on the status and bid
\* count read.
SellerGuard(k) ==
  /\ auction[desk[k].auctionId].status = desk[k].row.status
  /\ auction[desk[k].auctionId].bidCount = desk[k].row.bidCount

EditedRow(k) ==
  WithContents(auction[desk[k].auctionId], desk[k].draft, desk[k].sent)

\* An edit of a SCHEDULED auction is judged by the publish gate again.
EditStands(k) ==
  desk[k].row.status = "SCHEDULED" => validateDraftForPublish(EditedRow(k), now)

UpdateOwnAuction(k) ==
  /\ Writing(k, "edit")
  /\ SellerGuard(k)
  /\ EditStands(k)
  /\ WriteRow(k, EditedRow(k), <<>>)
  /\ Done(k)
  /\ UNCHANGED notifications

\* Mutant: an admin's cancellation is checked when it reads, not when it writes.
CancelGuard_AdminAlways(k) ==
  \/ desk[k].op = "cancel" /\ SellerGuard(k)
  \/ desk[k].op = "adminCancel"

CancelGuard(k) ==
  \/ desk[k].op = "cancel" /\ SellerGuard(k)
  \/ /\ desk[k].op = "adminCancel"
     /\ auction[desk[k].auctionId].status = desk[k].row.status

\* Bidders and watchers hear; a seller hears only of an admin's decision.
CancelNotifications(k) ==
  LET a == desk[k].auctionId
      told == IF desk[k].op = "cancel"
              THEN findAuctionAudience(a, {SellerOf[a]})
              ELSE findAuctionAudience(a, {}) \cup {SellerOf[a]}
  IN  {Notification("AUCTION_CANCELLED", a, u, 0) : u \in told}

Cancel(k) ==
  /\ desk[k].pc = "write"
  /\ CancelGuard(k)
  /\ WriteRow(k, [auction[desk[k].auctionId] EXCEPT !.status = "CANCELLED",
                                                    !.endedAt = desk[k].now],
              <<"CANCELLED">>)
  /\ notifications' = notifications \cup CancelNotifications(k)
  /\ desk' = [desk EXCEPT
       ![k].pc = "announce",
       ![k].out = CancelNotifications(k) \cup
         {RoomMessage("auction:cancelled", desk[k].auctionId, 0, Null)}]

\* The picture is inserted or deleted and the version bumped whatever the
\* status has become since it was read.  Positions and ids of pictures are
\* not carried: once anything was written since the read, the slot after the
\* last one read may or may not be taken, the picture may or may not be gone,
\* and the write may go either way (Refuse).
AddDraftImage(k) ==
  /\ Writing(k, "addImage")
  /\ WriteRow(k, [auction[desk[k].auctionId] EXCEPT !.images = @ + 1], <<>>)
  /\ Done(k)
  /\ UNCHANGED notifications

\* Mutant: the picture count is taken on trust from the read.
RemoveDraftImage_Unchecked(k) ==
  /\ Writing(k, "removeImage")
  /\ WriteRow(k, [auction[desk[k].auctionId] EXCEPT !.images = @ - 1], <<>>)
  /\ Done(k)
  /\ UNCHANGED notifications

RemoveDraftImage(k) ==
  /\ Writing(k, "removeImage")
  /\ auction[desk[k].auctionId].images > 0
  /\ WriteRow(k, [auction[desk[k].auctionId] EXCEPT !.images = @ - 1], <<>>)
  /\ Done(k)
  /\ UNCHANGED notifications

\* A write that matches nothing, an edit the gate refuses, a picture whose
\* slot was taken or that is already gone: the transaction rolls back.
Refuse(k) ==
  /\ desk[k].pc = "write"
  /\ CASE desk[k].op = "publish" -> ~PublishGuard(k)
       [] desk[k].op = "edit" -> ~(SellerGuard(k) /\ EditStands(k))
       [] desk[k].op \in {"cancel", "adminCancel"} -> ~CancelGuard(k)
       [] desk[k].op \in {"addImage", "removeImage"} ->
            auction[desk[k].auctionId].rowVersion # desk[k].row.rowVersion
  /\ Done(k)
  /\ UNCHANGED storeVars

AnnounceCancel(k) ==
  /\ desk[k].pc = "announce"
  /\ Emit(desk[k].out)
  /\ Done(k)

DeskStep(k) ==
  \/ Begin(k)
  \/ Publish(k)
  \/ UpdateOwnAuction(k)
  \/ Cancel(k)
  \/ AddDraftImage(k)
  \/ RemoveDraftImage(k)
  \/ Refuse(k)
  \/ AnnounceCancel(k)

\* The process dies: open transactions roll back, announcements are lost.
DeskLost(call) == IF call.pc = "idle" THEN call ELSE DoneDesk

DeskTypeOK == desk \in [DeskCalls -> DeskCall]
=============================================================================
