------------------------------ MODULE Lifecycle ------------------------------
(***************************************************************************)
(* AuctionLifecycleService: the pass that runs every ten seconds, starts   *)
(* SCHEDULED auctions whose time has come, one transaction each, and then  *)
(* settles the ACTIVE ones whose end has passed, one settleAuction each.   *)
(*                                                                         *)
(*   idle -> start -> (announce -> start)* -> settle -> idle               *)
(*                                                                         *)
(* `reconciling` is pc # "idle": a pass never overlaps the next tick.      *)
(***************************************************************************)
EXTENDS Settlement

CONSTANT LIFECYCLE_BATCH_SIZE   \* auctions one pass may start, and may settle

ASSUME LifecycleAssumption == LIFECYCLE_BATCH_SIZE \in Nat \ {0}

VARIABLE pass   \* the running pass

\* One auction of the batch, with the end time read along for the broadcast.
DueAuction == [auctionId : Auctions, endsAt : NatOrNull]

Pass == [pc : {"idle", "start", "announce", "settle"}, now : Nat,
         due : SUBSET DueAuction, out : SUBSET Messages]

IdlePass == [pc |-> "idle", now |-> 0, due |-> {}, out |-> {}]

LifecycleInit == pass = IdlePass

-----------------------------------------------------------------------------
\* The guard of the updateMany that opens one auction.
StartGuard(row, t) ==
  /\ row.status = "SCHEDULED"
  /\ row.scheduledStartAt # Null
  /\ row.scheduledStartAt <= t

DueToStart(row, t) == StartGuard(row, t) /\ row.currentEndAt # Null

\* findMany with `take`: the earliest by time, at most a batch of them.  Ties
\* (ordered by id in the code) may fall either way.
IsBatch(batch, candidates, time) ==
  /\ batch \subseteq candidates
  /\ \/ batch = candidates /\ Cardinality(candidates) <= LIFECYCLE_BATCH_SIZE
     \/ Cardinality(batch) = LIFECYCLE_BATCH_SIZE
  /\ \A a \in batch, b \in candidates \ batch : time[a] <= time[b]

DueRows(batch) ==
  {[auctionId |-> a, endsAt |-> auction[a].currentEndAt] : a \in batch}

-----------------------------------------------------------------------------
(***************************************************************************)
(* Steps                                                                   *)
(***************************************************************************)
BeginPass ==
  /\ pass.pc = "idle"
  /\ \E batch \in SUBSET Auctions :
       /\ IsBatch(batch, {a \in Auctions : DueToStart(auction[a], now)},
                  [a \in Auctions |-> auction[a].scheduledStartAt])
       /\ pass' = [IdlePass EXCEPT !.pc = "start", !.now = now,
                                   !.due = DueRows(batch)]
  /\ UNCHANGED <<storeVars, settling>>

\* One auction of the batch is opened, if it is still SCHEDULED and still due.
StartAuction ==
  /\ pass.pc = "start"
  /\ \E d \in pass.due :
       LET a == d.auctionId
       IN  /\ StartGuard(auction[a], pass.now)
           /\ auction' = [auction EXCEPT ![a].status = "ACTIVE",
                                         ![a].startedAt = pass.now,
                                         ![a].rowVersion = @ + 1]
           /\ events' = [events EXCEPT ![a] = Append(@, "STARTED")]
           /\ pass' = [pass EXCEPT
                !.pc = "announce",
                !.due = @ \ {d},
                !.out = {RoomMessage("auction:started", a, 0, d.endsAt)}]
  /\ UNCHANGED <<now, bids, extensions, notifications, announced, settling>>

\* updateMany matched nothing: cancelled, or moved to a later start.
SkipStart ==
  /\ pass.pc = "start"
  /\ \E d \in pass.due :
       /\ ~StartGuard(auction[d.auctionId], pass.now)
       /\ pass' = [pass EXCEPT !.due = @ \ {d}]
  /\ UNCHANGED <<storeVars, settling>>

AnnounceStart ==
  /\ pass.pc = "announce"
  /\ Emit(pass.out)
  /\ pass' = [pass EXCEPT !.pc = "start", !.out = {}]
  /\ UNCHANGED settling

\* The batch of auctions to settle is read.
BeginSettling ==
  /\ pass.pc = "start"
  /\ pass.due = {}
  /\ \E batch \in SUBSET Auctions :
       /\ IsBatch(batch, {a \in Auctions : IsDue(auction[a], now)},
                  [a \in Auctions |-> auction[a].currentEndAt])
       /\ pass' = [pass EXCEPT !.pc = "settle", !.due = DueRows(batch)]
  /\ UNCHANGED <<storeVars, settling>>

SettleNext ==
  /\ pass.pc = "settle"
  /\ settling[Timer].pc = "idle"
  /\ \E d \in pass.due :
       /\ Settle(Timer, d.auctionId)
       /\ pass' = [pass EXCEPT !.due = @ \ {d}]
  /\ UNCHANGED storeVars

EndPass ==
  /\ pass.pc = "settle"
  /\ pass.due = {}
  /\ settling[Timer].pc = "idle"
  /\ pass' = IdlePass
  /\ UNCHANGED <<storeVars, settling>>

\* Mutant: `reconciling` is not reset when a pass throws.
PassFails_NoReset ==
  /\ pass.pc # "idle"
  /\ pass' = [IdlePass EXCEPT !.pc = "stuck"]
  /\ settling' = [settling EXCEPT ![Timer] = SettlerLost(Timer)]
  /\ UNCHANGED storeVars

\* A database error mid-pass is caught; the next tick has another go.
PassFails ==
  /\ pass.pc # "idle"
  /\ pass' = IdlePass
  /\ settling' = [settling EXCEPT ![Timer] = SettlerLost(Timer)]
  /\ UNCHANGED storeVars

\* The pass's own work, the settlement it waits for included.
LifecycleStep ==
  \/ BeginPass
  \/ StartAuction
  \/ SkipStart
  \/ AnnounceStart
  \/ BeginSettling
  \/ SettleNext
  \/ EndPass
  \/ SettlementStep(Timer) /\ UNCHANGED pass

LifecycleTypeOK == pass \in Pass
=============================================================================
