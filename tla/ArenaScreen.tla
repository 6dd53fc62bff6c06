----------------------------- MODULE ArenaScreen ----------------------------
(***************************************************************************)
(* The browser's side of one live auction: the arena page with its three   *)
(* hooks (useAuctionRoom, useAuctionPresence, useArenaWakeUps), what an    *)
(* arena read does on its way and when it arrives, the pages a tab goes    *)
(* through (toArena and toResult are a page being rendered on the server), *)
(* and the bid form (PlaceBidControl).                                     *)
(*                                                                         *)
(* An event heard is a request started: the socket's delay is part of the  *)
(* request's.  Answers arrive in any order.                                *)
(***************************************************************************)
EXTENDS LiveRoom

CONSTANTS
  TRANSITION_RECHECK, EDGE_BUFFER,  \* the delays of useArenaWakeUps
  MaxLosses       \* bound on dropped sockets, failed requests and glances away

ASSUME ScreenAssumption == TRANSITION_RECHECK \in Nat \ {0} /\ EDGE_BUFFER \in Nat

VARIABLES
  tab,            \* what each tab holds
  losses,         \* failures so far
  slipped         \* (history) users whose leaving nothing was left to notice, and
                  \* "count" once somebody came in unannounced

screenVars == <<tab, losses, slipped>>

\* A request for the arena: how far the server is with it, what it has read,
\* whether the tab was in the room when it began, and (history) whether a
\* later one has been answered before it.
Ask(r) == [step |-> "asked", arena |-> Null, inRoom |-> r.room, overtaken |-> FALSE]

\* `asks` is a join on its way, `joined` whether the last POST was answered well,
\* `behind` and `missed` (history) whether what is shown was overtaken and
\* whether a request ever failed; `sending` is the bid under way.
Unopened ==
  [page |-> "closed", link |-> "down", conn |-> 0, room |-> FALSE, asks |-> FALSE,
   reads |-> <<>>, shown |-> Null, inRoom |-> FALSE, behind |-> FALSE, missed |-> FALSE,
   wakeAt |-> Null, held |-> FALSE, joined |-> FALSE, openedUnfinished |-> FALSE,
   attempt |-> Null, minted |-> 0, sending |-> Null, confirmed |-> 0]

Put(t, r) == tab' = [tab EXCEPT ![t] = r]
Conn(t) == <<t, tab[t].conn>>
CanAsk(r) == Len(r.reads) < scene.reads
refresh(r) == [r EXCEPT !.reads = Append(@, Ask(r))]

\* Request i is over: every older one still under way is overtaken.
Without(r, i) ==
  [j \in 1 .. (Len(r.reads) - 1) |-> IF j < i THEN [r.reads[j] EXCEPT !.overtaken = TRUE]
                                     ELSE r.reads[j + 1]]

OnArena(r) == r.page = "arena"

-----------------------------------------------------------------------------
(***************************************************************************)
(* useArenaWakeUps                                                         *)
(***************************************************************************)

\* Mutant: an auction at its end is taken to be settled already.
AtTheEnd_Never == Null

\* The end has come and the auction still reads ACTIVE: ask again shortly.
AtTheEnd == TRANSITION_RECHECK

\* How long until time alone changes what an arena read at time t says; Null
\* for never.
nextArenaWakeUp(r, t) ==
  LET c == calculateCountdown(r, t)
      untilWindow == IF c.msUntilEnd > ANTI_SNIPING_WINDOW
                     THEN c.msUntilEnd - ANTI_SNIPING_WINDOW ELSE 0
  IN  CASE r.status = "SCHEDULED" ->
             IF c.msUntilStart > 0 THEN c.msUntilStart + EDGE_BUFFER ELSE TRANSITION_RECHECK
        [] r.status = "ACTIVE" ->
             IF c.msUntilEnd = 0 THEN AtTheEnd
             ELSE IF ~describeSuddenDeath(r, t) /\ untilWindow > 0 THEN untilWindow + EDGE_BUFFER
             ELSE c.msUntilEnd + EDGE_BUFFER
        [] OTHER -> Null

\* When the timer of a new arena rings, counted from its arrival; the clock
\* stops at MaxClock, and so does every timer.
WakeAt(a) ==
  IF a.wake = Null THEN Null ELSE IF now + a.wake > MaxClock THEN MaxClock ELSE now + a.wake

Wake(t) ==
  /\ OnArena(tab[t]) /\ tab[t].wakeAt # Null /\ CanAsk(tab[t])
  /\ tab[t].wakeAt <= now
  /\ Put(t, [refresh(tab[t]) EXCEPT !.wakeAt = Null])
  /\ UNCHANGED <<roomVars, losses, slipped>>

\* The tab is looked at again (visibilitychange), or a connection attempt fails
\* (connect_error): a read more, the timer as it was.
Glance(t) ==
  /\ OnArena(tab[t]) /\ CanAsk(tab[t]) /\ losses < MaxLosses
  /\ tab[t].shown.row.status \in {"SCHEDULED", "ACTIVE"} \/ tab[t].link = "down"
  /\ losses' = losses + 1
  /\ Put(t, refresh(tab[t]))
  /\ UNCHANGED <<roomVars, slipped>>

-----------------------------------------------------------------------------
(***************************************************************************)
(* useAuctionRoom                                                          *)
(***************************************************************************)

\* Mutant: people coming and going is nobody's news.
ROOM_EVENTS_NoPresence == {"auction:bid", "auction:extension", "auction:started",
                           "auction:ended", "auction:cancelled"}

ROOM_EVENTS == {"auction:bid", "auction:extension", "auction:presence",
                "auction:started", "auction:ended", "auction:cancelled"}

\* "connect": a read at once, and a join once the token is at hand.
Connect(t) ==
  /\ OnArena(tab[t]) /\ tab[t].link = "down" /\ CanAsk(tab[t])
  /\ Put(t, [refresh(tab[t]) EXCEPT !.link = "up", !.conn = @ + 1, !.asks = TRUE])
  /\ UNCHANGED <<roomVars, losses, slipped>>

\* auction:join arrives: the room first, the token check after it.
JoinRoom(t) ==
  /\ tab[t].asks
  /\ LET public == row.status \in PUBLIC_AUCTION_STATUSES
     IN  /\ Put(t, [tab[t] EXCEPT !.asks = FALSE, !.room = public])
         /\ joining' = IF public THEN joining \cup {Conn(t)} ELSE joining
  /\ UNCHANGED <<row, bids, now, settling, seats, seating, registry, ended, outbox, losses, slipped>>

\* emitToAuction: everybody in the room hears it, and asks again.
emitToAuction ==
  /\ outbox # <<>>
  /\ LET hears == {t \in Tabs : OnArena(tab[t]) /\ tab[t].room /\ Head(outbox) \in ROOM_EVENTS}
     IN  /\ \A t \in hears : CanAsk(tab[t])
         /\ tab' = [t \in Tabs |-> IF t \in hears THEN refresh(tab[t]) ELSE tab[t]]
  /\ outbox' = Tail(outbox)
  /\ UNCHANGED <<row, bids, now, settling, seats, seating, registry, joining, ended, losses, slipped>>

\* The connection `r` had, gone; `left` says goodbye was said.
Gone(t, left) ==
  IF tab[t].link = "up" THEN ended \cup {[conn |-> Conn(t), left |-> left]} ELSE ended

Offline(r) == [r EXCEPT !.link = "down", !.room = FALSE, !.asks = FALSE]

DropSocket(t) ==
  /\ tab[t].link = "up" /\ losses < MaxLosses
  /\ losses' = losses + 1
  /\ Put(t, Offline(tab[t]))
  /\ ended' = Gone(t, FALSE)
  /\ UNCHANGED <<row, bids, now, settling, seats, seating, registry, joining, outbox, slipped>>

-----------------------------------------------------------------------------
(***************************************************************************)
(* useAuctionPresence                                                      *)
(***************************************************************************)
Active(a) == a.you /\ a.row.status \in {"SCHEDULED", "ACTIVE"}

\* The effect runs (hold, POST) or is cleaned up (release, and a DELETE as soon
\* as the POST is known to have worked) when `active` turns.
Presence(r, active) == [r EXCEPT !.held = active, !.joined = IF active = r.held THEN @ ELSE FALSE]

Seating(t, active) ==
  LET r == tab[t]
      mine == {c \in seating : c.tab = t /\ c.op = "join"}
  IN  IF active /\ ~r.held THEN seating \cup {Call("join", t, OwnerOf[t])}
      ELSE IF ~active /\ r.held
           THEN IF r.joined THEN seating \cup {Call("leave", t, OwnerOf[t])}
                ELSE (seating \ mine) \cup {[c EXCEPT !.left = TRUE] : c \in mine}
      ELSE seating

\* The POST is answered, well or with an error.  An older POST that seated the
\* person finds a newer hold and leaves nobody; when the newer one is refused
\* in its turn, its screen has nothing to leave by.
JoinAnswered(c) ==
  LET r == tab[c.tab]
      ok == c.step = "joined"
      leaves == ok /\ c.left /\ ~r.held /\ r.page # "gone"
      shows == ok /\ ~c.left /\ OnArena(r)
  IN  /\ c.step \in {"joined", "refused"}
      /\ c.left \/ r.page # "arena" \/ CanAsk(r)
      /\ seating' = (seating \ {c}) \cup IF leaves THEN {Call("leave", c.tab, c.user)} ELSE {}
      /\ IF shows THEN Put(c.tab, [refresh(r) EXCEPT !.joined = TRUE]) ELSE UNCHANGED tab
      /\ slipped' = IF /\ ~leaves /\ ~shows /\ ~r.joined /\ r.page # "gone" /\ c.user \in seats
                       /\ \A d \in seating \ {c} : d.tab # c.tab
                    THEN slipped \cup {c.user} ELSE slipped
      /\ UNCHANGED <<row, bids, now, settling, seats, registry, joining, ended, outbox, losses>>

\* The answer is lost: the screen takes it for a refusal, and will not leave.
LoseJoin(c) ==
  /\ c.step = "joined" /\ losses < MaxLosses
  /\ losses' = losses + 1
  /\ seating' = seating \ {c}
  /\ slipped' = slipped \cup {c.user}
  /\ UNCHANGED <<row, bids, now, settling, seats, registry, joining, ended, outbox, tab>>

\* A join written on a look that is out of date says nothing of it.
JoinWrittenFor(c) ==
  /\ JoinWritten(c)
  /\ slipped' = IF c.was /\ c.user \notin seats THEN slipped \cup {"count"} ELSE slipped
  /\ UNCHANGED <<tab, losses>>

\* The gateway registers a connection that is no longer there.
RegisterFor(c) ==
  /\ Register(c)
  /\ slipped' = IF /\ OwnerOf[c[1]] # Null
                   /\ ~(tab[c[1]].link = "up" /\ Conn(c[1]) = c)
                   /\ \A e \in ended : e.conn # c
                THEN slipped \cup {OwnerOf[c[1]]} ELSE slipped
  /\ UNCHANGED <<tab, losses>>

\* A connection is noticed gone.  After a goodbye nobody leaves by it, even if
\* it was the last that would have let somebody go.
DisconnectFor(e) ==
  /\ handleDisconnect(e)
  /\ slipped' = IF e.left THEN slipped \cup releaseSocket(e.conn) ELSE slipped
  /\ UNCHANGED <<tab, losses>>

-----------------------------------------------------------------------------
\* Who may see the reader's own side of it: the server renders without a token.
Signed(t) == OwnerOf[t] # Null /\ tab[t].page \notin {"toArena", "toResult"}

WithRead(t, i, step, arena) ==
  Put(t, [tab[t] EXCEPT !.reads[i].step = step, !.reads[i].arena = arena])

-----------------------------------------------------------------------------
(***************************************************************************)
(* getArena: the auction, then the people, the time and the bids            *)
(***************************************************************************)
ReadAuction(t, i) ==
  /\ tab[t].reads[i].step = "asked"
  /\ findPublicAuction
  /\ WithRead(t, i, "auction", [row |-> row', you |-> Signed(t)])
  /\ UNCHANGED <<bids, now, settling, seats, seating, registry, joining, ended, losses, slipped>>

\* What getLobby and getArena read after it, in one step: nothing below depends
\* on how these reads are spread over time, only on their coming later.
ReadRest(t, i) ==
  /\ tab[t].reads[i].step = "auction"
  /\ LET a == tab[t].reads[i].arena
     IN  WithRead(t, i, "ready", [row |-> a.row, you |-> a.you, seats |-> Cardinality(seats),
                                  newest |-> Len(bids), winner |-> WinnerRead,
                                  wake |-> nextArenaWakeUp(a.row, now)])
  /\ UNCHANGED <<roomVars, losses, slipped>>

\* Not there to be seen: a page is not found, a refresh keeps what it has.
ReadNotFound(t, i) ==
  /\ tab[t].reads[i].step = "asked" /\ row.status = "CANCELLED"
  /\ Put(t, IF tab[t].page \in {"toArena", "toResult"}
            THEN [Unopened EXCEPT !.page = "away"]
            ELSE [tab[t] EXCEPT !.reads = Without(tab[t], i), !.behind = TRUE, !.missed = TRUE])
  /\ UNCHANGED <<roomVars, losses, slipped>>

LoseRead(t, i) ==
  /\ losses < MaxLosses /\ tab[t].page \in {"arena", "result"}
  /\ losses' = losses + 1
  /\ Put(t, [tab[t] EXCEPT !.reads = Without(tab[t], i), !.behind = TRUE, !.missed = TRUE])
  /\ UNCHANGED <<roomVars, slipped>>

\* What stays on screen; the delay has gone into the timer.
Screenful(a) == [row |-> a.row, you |-> a.you, seats |-> a.seats, newest |-> a.newest, winner |-> a.winner]

\* Request i of a tab has arrived.
Arrived(t, i) ==
  [tab[t] EXCEPT !.shown = Screenful(tab[t].reads[i].arena), !.reads = Without(tab[t], i),
                 !.inRoom = tab[t].reads[i].inRoom, !.behind = tab[t].reads[i].overtaken]

\* setArena: the new arena arms the next timer and may turn presence.
Show(t, i) ==
  LET a == tab[t].reads[i].arena
  IN  /\ OnArena(tab[t]) /\ tab[t].reads[i].step = "ready"
      /\ Put(t, [Presence(Arrived(t, i), Active(a)) EXCEPT !.wakeAt = WakeAt(a)])
      /\ seating' = Seating(t, Active(a))
      /\ UNCHANGED <<row, bids, now, settling, seats, registry, joining, ended, outbox, losses, slipped>>

\* The result page shows its one read more.
ShowResult(t, i) ==
  /\ tab[t].page = "result" /\ tab[t].reads[i].step = "ready"
  /\ Put(t, Arrived(t, i))
  /\ UNCHANGED <<roomVars, losses, slipped>>

-----------------------------------------------------------------------------
(***************************************************************************)
(* Pages                                                                   *)
(***************************************************************************)
Open(t, page) ==
  /\ tab[t].page = "closed"
  /\ LET r == [tab[t] EXCEPT !.page = page] IN Put(t, refresh(r))
  /\ UNCHANGED <<roomVars, losses, slipped>>

\* The server has rendered the page: the arena as it was, or the result; a
\* result page with no result leads to the arena.  The result page asks once
\* more, as the reader it has.
Land(t) ==
  LET a == tab[t].reads[1].arena
      result == describeAuctionResult(a)
      fresh == [tab[t] EXCEPT !.reads = <<>>, !.shown = Screenful(a), !.behind = FALSE, !.inRoom = FALSE]
  IN  /\ tab[t].page \in {"toArena", "toResult"}
      /\ tab[t].reads[1].step = "ready"
      /\ \/ /\ tab[t].page = "toArena"
            /\ Put(t, [fresh EXCEPT !.page = "arena", !.wakeAt = WakeAt(a),
                                    !.openedUnfinished = result = Null])
         \/ /\ tab[t].page = "toResult" /\ result # Null
            /\ Put(t, refresh([fresh EXCEPT !.page = "result"]))
         \/ /\ tab[t].page = "toResult" /\ result = Null
            /\ Put(t, refresh([fresh EXCEPT !.page = "toArena", !.shown = Null]))
      /\ UNCHANGED <<roomVars, losses, slipped>>

\* Unmounting the arena: goodbye on the socket, and presence is released.
Leave(t, page) ==
  /\ Put(t, [Unopened EXCEPT !.page = page, !.minted = tab[t].minted,
                             !.reads = IF page = "toResult" THEN <<Ask(Unopened)>> ELSE <<>>])
  /\ ended' = Gone(t, TRUE)
  /\ seating' = Seating(t, FALSE)
  /\ UNCHANGED <<row, bids, now, settling, seats, registry, joining, outbox, losses, slipped>>

\* A result arrived on a page opened before there was one: on to its own page.
Redirect(t) ==
  /\ OnArena(tab[t]) /\ tab[t].openedUnfinished
  /\ describeAuctionResult(tab[t].shown) # Null
  /\ Leave(t, "toResult")

Navigate(t) == OnArena(tab[t]) /\ Leave(t, "away")

\* The tab is closed: no cleanup runs, the socket just goes.  With no counted
\* connection, or a POST still to land, nothing will let this person go.
Close(t) ==
  /\ tab[t].page \in {"arena", "result"}
  /\ Put(t, [Unopened EXCEPT !.page = "gone"])
  /\ ended' = Gone(t, FALSE)
  /\ slipped' = IF \/ tab[t].held /\ (tab[t].link = "down" \/ Conn(t) \notin registry)
                   \/ \E c \in seating : c.tab = t /\ c.op = "join" /\ (c.step # "joined" \/ c.left)
                THEN slipped \cup {OwnerOf[t]} ELSE slipped
  /\ UNCHANGED <<row, bids, now, settling, seats, seating, registry, joining, outbox, losses>>

-----------------------------------------------------------------------------
(***************************************************************************)
(* PlaceBidControl                                                         *)
(***************************************************************************)
\* Mutant: every press is an attempt of its own.
Attempt_Fresh(t) == <<t, tab[t].minted>>

\* attemptId.current ??= randomUUID()
Attempt(t) == IF tab[t].attempt = Null THEN <<t, tab[t].minted>> ELSE tab[t].attempt

\* The quick amounts offered: the minimum shown, and a step above it.
quickAmounts(a) == {calculateMinimumBid(a.row), calculateMinimumBid(a.row) + a.row.minBidIncrement}

\* submit: an amount the screen takes to be enough.
Press(t, amount) ==
  /\ OnArena(tab[t]) /\ describeBiddingAccess(tab[t].shown) /\ tab[t].sending = Null
  /\ amount >= calculateMinimumBid(tab[t].shown.row)
  /\ Put(t, [tab[t] EXCEPT !.sending = [id |-> Attempt(t), amount |-> amount, answer |-> Null],
                           !.attempt = Attempt(t),
                           !.minted = IF Attempt(t) = tab[t].attempt THEN @ ELSE @ + 1])
  /\ UNCHANGED <<roomVars, losses, slipped>>

\* placeBid: the bid recorded under this id answers for it; otherwise it is judged.
PlaceBid(t) ==
  LET bid == tab[t].sending
      recorded == RecordedUnder(bid.id)
      Say(answer) == Put(t, [tab[t] EXCEPT !.sending.answer = answer])
  IN  /\ bid # Null /\ bid.answer = Null
      /\ \/ /\ recorded # {}
            /\ Say(IF \E n \in recorded : bids[n].amount = bid.amount THEN "placed" ELSE "refused")
            /\ UNCHANGED <<row, bids, outbox>>
         \/ /\ recorded = {}
            /\ \E at \in NotBefore(now) :
                 \/ Taken(bid.amount, at) /\ RecordBid(bid.id, bid.amount, at) /\ Say("placed")
                 \/ ~Taken(bid.amount, at) /\ Say("refused") /\ UNCHANGED <<row, bids, outbox>>
      /\ UNCHANGED <<now, settling, seats, seating, registry, joining, ended, losses, slipped>>

\* The answer arrives: a bid placed ends the attempt, a refusal keeps it.
BidAnswered(t) ==
  /\ tab[t].sending # Null /\ tab[t].sending.answer # Null
  /\ LET r == [tab[t] EXCEPT !.sending = Null]
     IN  \/ /\ tab[t].sending.answer = "placed" /\ CanAsk(r)
            /\ Put(t, refresh([r EXCEPT !.attempt = Null, !.confirmed = @ + 1]))
         \/ tab[t].sending.answer = "refused" /\ Put(t, r)
  /\ UNCHANGED <<roomVars, losses, slipped>>

\* The connection fails before the request arrives, or before its answer does.
LoseBid(t) ==
  /\ tab[t].sending # Null /\ losses < MaxLosses
  /\ losses' = losses + 1
  /\ Put(t, [tab[t] EXCEPT !.sending = Null])
  /\ UNCHANGED <<roomVars, slipped>>
=============================================================================
