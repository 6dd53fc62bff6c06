----------------------------- MODULE OrderPages -----------------------------
(***************************************************************************)
(* One paid order on the pages of its buyer and its seller: the detail     *)
(* pages, the seller's list with its groups, and the buttons that move the *)
(* parcel.                                                                 *)
(*                                                                         *)
(* A press: idle -> load -> write -> emit -> answer -> done.               *)
(***************************************************************************)
EXTENDS Channels

CONSTANTS
  OrderKind,    \* which page each screen is: order | selling | sold
  ListOf,       \* the seller's list in the same browser tab as a page, or Nothing
  Presses       \* executions of PATCH /orders/:id/shipment from these pages

VARIABLES
  parcel,       \* the shipment's status; the order is CANCELLED with it
  presses       \* progress of each press

orderVars == <<parcel, presses>>

OrderScreens == DOMAIN OrderKind

-----------------------------------------------------------------------------
(***************************************************************************)
(* What the API answers                                                    *)
(***************************************************************************)
ShipmentStatus == {"PROCESSING", "SHIPPED", "IN_TRANSIT", "DELIVERED", "CANCELLED"}

nextStatuses(from) == CASE from = "PROCESSING" -> {"SHIPPED", "CANCELLED"}
                        [] from = "SHIPPED" -> {"IN_TRANSIT"}
                        [] from = "IN_TRANSIT" -> {"DELIVERED"}
                        [] OTHER -> {}

\* How far a parcel has come, along either way it can go.
Stage(status) == CASE status = "PROCESSING" -> 0 [] status \in {"SHIPPED", "CANCELLED"} -> 1
                   [] status = "IN_TRANSIT" -> 2 [] status = "DELIVERED" -> 3

\* The groups of the seller's list and the parcels each asks for.
GROUPS == [all |-> ShipmentStatus, todo |-> {"PROCESSING"},
           moving |-> {"SHIPPED", "IN_TRANSIT"}, done |-> {"DELIVERED", "CANCELLED"}]

\* findOne, getTimeline and listForSeller, as one read each.
Answer(key) ==
  CASE key = "order" -> IF parcel = "CANCELLED" THEN "CANCELLED" ELSE "PAID"
    [] key = "shipment" -> parcel
    [] OTHER -> IF parcel \in GROUPS[key] THEN parcel ELSE "absent"

-----------------------------------------------------------------------------
ASSUME OrderAssumption ==
  /\ OrderScreens \subseteq Screens
  /\ \A s \in OrderScreens : OrderKind[s] \in {"order", "selling", "sold"}
  /\ Nothing \notin ShipmentStatus \cup {"PAID", "absent"}

Keys(s) == IF OrderKind[s] = "sold" THEN DOMAIN GROUPS ELSE {"order", "shipment"}

\* The queries a mounted page runs: the timeline only of an order seen as PAID,
\* and not behind an error.
Active(s, r) ==
  IF r.link = "closed" THEN {}
  ELSE IF OrderKind[s] = "sold" THEN {r.shown.group}
  ELSE {"order"} \cup IF r.shown.data["order"] = "PAID" /\ ~r.failed
                       THEN {"shipment"} ELSE {}

\* The page's own key, and everything under it.
reread(s, r) == Invalidated(r, Keys(s), Active(s, r))

-----------------------------------------------------------------------------
(***************************************************************************)
(* Pages                                                                   *)
(***************************************************************************)
OrdersInit(ps, start) ==
  /\ parcel \in start
  /\ presses = [k \in ps |-> [pc |-> "idle", from |-> Nothing, next |-> Nothing,
                                   seen |-> Nothing, answer |-> Nothing, left |-> FALSE]]

\* Pages of one browser tab take turns.
OneTab(s) == {t \in DOMAIN screen \cap OrderScreens : t # s /\ (t = ListOf[s] \/ s = ListOf[t])}

MountPage(s, old) ==
  LET kept == IF screen[s].shown = Nothing THEN [Closed EXCEPT !.shown = EmptyCache(Keys(s))]
              ELSE screen[s]
      open == [kept EXCEPT !.link = "down"]
  IN  /\ screen[s].link = "closed"
      /\ \A t \in OneTab(s) : screen[t].link = "closed"
      /\ Put(s, LookedAt(open, Active(s, open), old))
      /\ UNCHANGED <<losses, orderVars>>

\* Going elsewhere in the tab: the socket closes; the cache, its fetches and a
\* press under way go on.
LeavePage(s) ==
  /\ screen[s].link # "closed"
  /\ losses < MaxLosses
  /\ losses' = losses + 1
  /\ Put(s, [Dropped(screen[s]) EXCEPT !.link = "closed"])
  /\ presses' = [k \in DOMAIN presses |-> [presses[k] EXCEPT !.left = @ \/ presses[k].from = s]]
  /\ UNCHANGED parcel

HearOrder(s) ==
  /\ screen[s].inbox # <<>>
  /\ LET r == [screen[s] EXCEPT !.inbox = Tail(@)]
     IN  Put(s, IF Head(screen[s].inbox).name \in useUserChannel THEN reread(s, r) ELSE r)
  /\ UNCHANGED <<losses, orderVars>>

\* SellingOrderList: another group, another key.
setGroup(s, group) ==
  /\ OrderKind[s] = "sold" /\ screen[s].link # "closed"
  /\ group # screen[s].shown.group
  /\ Put(s, LookedAt([screen[s] EXCEPT !.shown.group = group], {group}, FALSE))
  /\ UNCHANGED <<losses, orderVars>>

ServeOrder(s) ==
  /\ \E key \in DOMAIN screen[s].reads :
       /\ ~screen[s].reads[key].served
       /\ Put(s, Served(screen[s], key, Answer(key)))
  /\ UNCHANGED <<losses, orderVars>>

\* An answer comes in; an order now seen as PAID brings its timeline on screen.
ShowOrder(s) ==
  /\ \E key \in DOMAIN screen[s].reads :
       LET r == [CacheAnswered(screen[s], key) EXCEPT !.failed = @ /\ key # "order"]
       IN  /\ screen[s].reads[key].served
           /\ Put(s, LookedAt(r, Active(s, r) \ Active(s, screen[s]), FALSE))
  /\ UNCHANGED <<losses, orderVars>>

\* A failed read of the order hides what is below it.
LoseOrder(s) ==
  /\ losses < MaxLosses
  /\ losses' = losses + 1
  /\ \E key \in DOMAIN screen[s].reads :
       Put(s, [CacheFailed(screen[s], key) EXCEPT !.failed = @ \/ key = "order"])
  /\ UNCHANGED orderVars

-----------------------------------------------------------------------------
(***************************************************************************)
(* ShipmentControls and ShipmentService.updateStatus                       *)
(***************************************************************************)
Go(k, pc) == [presses EXCEPT ![k].pc = pc]
AnsweredWith(k, answer) == [presses EXCEPT ![k].pc = "answer", ![k].answer = answer]

\* ShipmentPanel shows nothing without a timeline; its buttons are the steps the
\* timeline on screen allows, one mutation at a time.
Buttons(s) ==
  IF "shipment" \in Active(s, screen[s]) /\ screen[s].shown.data["shipment"] # Nothing
  THEN nextStatuses(screen[s].shown.data["shipment"]) ELSE {}
Pending(s) == \E k \in DOMAIN presses : /\ presses[k].from = s /\ ~presses[k].left
                                 /\ presses[k].pc \notin {"idle", "done"}
advance(s, k) ==
  /\ OrderKind[s] = "selling" /\ ~Pending(s) /\ presses[k].pc = "idle"
  /\ \E next \in Buttons(s) :
       presses' = [presses EXCEPT ![k] = [@ EXCEPT !.pc = "load", !.from = s, !.next = next]]
  /\ UNCHANGED <<parcel, channelVars>>

\* loadOrderParties and canTransition, on the status as it is by then.
LoadParties(k) ==
  /\ presses[k].pc = "load"
  /\ presses' = IF presses[k].next \in nextStatuses(parcel)
                THEN [presses EXCEPT ![k].pc = "write", ![k].seen = parcel]
                ELSE AnsweredWith(k, "400")
  /\ UNCHANGED <<parcel, channelVars>>

\* Written if the status is still the one that was checked.
updateStatus(k) ==
  /\ presses[k].pc = "write"
  /\ IF parcel = presses[k].seen
     THEN parcel' = presses[k].next /\ presses' = Go(k, "emit")
     ELSE presses' = AnsweredWith(k, "409") /\ UNCHANGED parcel
  /\ UNCHANGED channelVars

\* After the commit both parties are told.
emitOrderStatusChanged(k, parties) ==
  /\ presses[k].pc = "emit"
  /\ screen' = emitToRooms(screen, {userRoom(user) : user \in parties},
                           "order:status_changed", Nothing)
  /\ presses' = AnsweredWith(k, "ok")
  /\ UNCHANGED <<losses, parcel>>

\* Mutant: a moved parcel is only read again in the list.
onSettled_ListOnly(s, t, answer) ==
  IF answer = "ok" /\ t = ListOf[s] /\ screen[t].shown # Nothing THEN reread(t, screen[t])
  ELSE screen[t]

\* onSuccess reads the order and the list again, onError the order after a 409:
\* what screen t becomes when a press from s is answered.
onSettled(s, t, answer) ==
  CASE t = s /\ answer \in {"ok", "409"} -> reread(s, screen[s])
    [] t = ListOf[s] /\ answer = "ok" /\ screen[t].shown # Nothing -> reread(t, screen[t])
    [] OTHER -> screen[t]

AnswerPress(k) ==
  /\ presses[k].pc = "answer"
  /\ screen' = [t \in DOMAIN screen |-> IF t \in OrderScreens
                                  THEN onSettled(presses[k].from, t, presses[k].answer)
                                  ELSE screen[t]]
  /\ presses' = Go(k, "done")
  /\ UNCHANGED <<losses, parcel>>

\* A restart ends the presses under way; one that was written stays written.
RestartOrders ==
  presses' = [k \in DOMAIN presses |->
    IF presses[k].pc \in {"load", "write", "emit"}
    THEN [presses[k] EXCEPT !.pc = "answer", !.answer = "lost"] ELSE presses[k]]

-----------------------------------------------------------------------------
\* A parcel is on screen as far as a press from that page has brought it, once
\* the press is answered and nothing is being read: with or without a socket.
PressIsShown(k) ==
  LET s == presses[k].from
      shown == screen[s].shown.data["shipment"]
  IN  (/\ presses[k].pc = "done" /\ presses[k].answer = "ok" /\ DOMAIN screen[s].reads = {}
       /\ "shipment" \in Active(s, screen[s]) \ screen[s].shown.behind)
      => Stage(shown) >= Stage(presses[k].next)

\* Every query on a resting page shows what the API would answer now.
PageIsCurrent(s) ==
  (Resting(s) /\ \A k \in DOMAIN presses : presses[k].pc # "emit") =>
    \A key \in Active(s, screen[s]) :
      key \in screen[s].shown.behind \/ screen[s].shown.data[key] = Answer(key)

OrdersTypeOK ==
  /\ parcel \in ShipmentStatus
  /\ \A k \in DOMAIN presses : presses[k].pc \in {"idle", "load", "write", "emit", "answer", "done"}
=============================================================================
