------------------------------- MODULE Arena --------------------------------
(***************************************************************************)
(* One live auction and the tabs that watch it: LiveRoom and the screens,  *)
(* together, in one of a few scenes.                                       *)
(***************************************************************************)
EXTENDS ArenaScreen

CONSTANTS
  Scenes,         \* the auctions, tabs and bounds to start from
  Readers         \* the tabs the liveness property is about

\* Null is no attempt and no result; an auction starts out unfinished and without bids.
ASSUME ArenaAssumption ==
  /\ Outsider \notin Tabs /\ MaxClock \in Nat
  /\ Null \notin Tabs \X Nat
  /\ Null \notin [outcome : Settled, soldPrice : NatOrNull, winner : Nat]
  /\ \A x \in Scenes :
       /\ x.tabs \cup x.forms \subseteq Tabs
       /\ x.pages \subseteq {"toArena", "toResult"}
       /\ x.row \in AuctionRow
       /\ x.row.status \in {"SCHEDULED", "ACTIVE"} /\ x.row.bidCount = 0
       /\ x.bodies \subseteq AuctionEdit

arenaVars == <<roomVars, screenVars, scene>>

ArenaInit ==
  /\ scene \in Scenes
  /\ row = scene.row /\ bids = <<>> /\ now = 0 /\ settling = Null
  /\ seats = {} /\ seating = {} /\ registry = {} /\ joining = {} /\ ended = {} /\ outbox = <<>>
  /\ tab = [t \in Tabs |-> Unopened]
  /\ losses = scene.lost /\ slipped = {}

\* What the scene lets happen besides the screens' own steps.
Outside ==
  /\ \/ Tick
     \/ StartAuction
     \/ \E edit \in scene.bodies : updateOwnAuction(edit)
     \/ SettleDecide
     \/ SettleWrite
     \/ "cancel" \in scene.outside /\ CancelAuction
     \/ "bids" \in scene.outside /\ OutsideBid
  /\ UNCHANGED screenVars

Participation ==
  \/ /\ \E c \in seating : JoinAsked(c) \/ LeaveWritten(c)
     /\ UNCHANGED screenVars
  \/ \E c \in seating : JoinWrittenFor(c) \/ JoinAnswered(c) \/ LoseJoin(c)
  \/ \E c \in joining : RegisterFor(c)
  \/ \E e \in ended : DisconnectFor(e)

Reading(t) ==
  \E i \in DOMAIN tab[t].reads :
    \/ ReadAuction(t, i) \/ ReadRest(t, i) \/ ReadNotFound(t, i)
    \/ Show(t, i) \/ ShowResult(t, i)

TabStep(t) ==
  \/ \E page \in scene.pages : Open(t, page)
  \/ Land(t)
  \/ Reading(t)
  \/ \E i \in DOMAIN tab[t].reads : LoseRead(t, i)
  \/ Wake(t)
  \/ Glance(t)
  \/ t \in scene.online /\ Connect(t)
  \/ JoinRoom(t)
  \/ DropSocket(t)
  \/ Redirect(t)
  \/ Navigate(t)
  \/ Close(t)

FormStep(t) ==
  \/ \E amount \in quickAmounts(tab[t].shown) : Press(t, amount)
  \/ PlaceBid(t)
  \/ BidAnswered(t)
  \/ LoseBid(t)

ArenaNext ==
  /\ \/ Outside
     \/ Participation
     \/ emitToAuction
     \/ \E t \in scene.tabs : TabStep(t)
     \/ \E t \in scene.forms : OnArena(tab[t]) /\ FormStep(t)
  /\ UNCHANGED scene

\* Time passes, the lifecycle timer keeps running, a request is answered (or
\* fails), a due timer rings.  Nobody has to open, connect, close or bid, and no
\* event has to be emitted or heard.
ArenaFairness ==
  /\ WF_arenaVars(Outside /\ (Tick \/ SettleDecide \/ SettleWrite) /\ UNCHANGED scene)
  /\ \A t \in Readers :
       /\ WF_arenaVars((Reading(t) \/ Land(t)) /\ UNCHANGED scene)
       /\ WF_arenaVars(Wake(t) /\ UNCHANGED scene)

ArenaSpec == ArenaInit /\ [][ArenaNext]_arenaVars /\ ArenaFairness

-----------------------------------------------------------------------------
(***************************************************************************)
(* Properties                                                              *)
(***************************************************************************)

\* A result on screen is how the auction ended, whole: the outcome and price on
\* the row, and for a sale the bid that won, at that price.  getArena reads the
\* row, then the winner, while the timer and other readers settle.
ResultsAreWhole ==
  \A t \in Tabs : tab[t].shown # Null =>
    LET result == describeAuctionResult(tab[t].shown)
    IN  result # Null =>
          /\ result.outcome = row.status /\ result.soldPrice = row.soldPrice
          /\ result.outcome = "SOLD" =>
               result.winner # 0 /\ bids[result.winner].amount = result.soldPrice

\* A row that was read is the row, or the row before edits of a seller whose
\* auction has not started: the one commit the room is not told of.
OnlyEditsMissed(read) ==
  \/ read = row
  \/ {read.status, row.status} = {"SCHEDULED"} /\ read.edition < row.edition

\* A tab in the room with nothing under way, whose last answer was asked for in
\* the room and not overtaken, shows the auction, the bids and the people as
\* they are, unless its seller has edited it in the lobby since: every other
\* commit that changes them is announced after it, the start among them.
WatchersAreCurrent ==
  \A t \in Tabs :
    LET r == tab[t]
    IN  (/\ OnArena(r) /\ r.room /\ r.reads = <<>> /\ r.inRoom /\ ~r.behind
         /\ outbox = <<>>)
        => /\ OnlyEditsMissed(r.shown.row) /\ r.shown.newest = Len(bids)
           /\ r.shown.seats = Cardinality(seats) \/ "count" \in slipped

\* Somebody with no tab on the auction and nothing of theirs under way is not
\* counted as present, except through the five gaps `slipped` records.
SeatsAreReleased ==
  \A u \in seats \ slipped :
    \/ \E t \in Tabs : OwnerOf[t] = u /\ OnArena(tab[t])
    \/ \E c \in seating : c.user = u
    \/ \E e \in ended : OwnerOf[e.conn[1]] = u

\* With no attempt pending, the bids a form has made are the ones it confirmed,
\* and one more at most while there is one: a retry is the same bid.
PressesAreOneBid ==
  \A t \in Tabs : OnArena(tab[t]) =>
    LET made == Cardinality({n \in DOMAIN bids : bids[n].clientRequestId[1] = t})
    IN  made <= tab[t].confirmed + IF tab[t].attempt = Null THEN 0 ELSE 1

\* Under fairness, a tab left on the arena comes to show how it ended, with no
\* socket at all, unless one of its requests failed: useArenaWakeUps.
EndsAreShown ==
  \A t \in Readers :
    (OnArena(tab[t]) /\ Due(row, now)) ~>
      \/ ~OnArena(tab[t]) \/ tab[t].missed
      \/ describeAuctionResult(tab[t].shown) # Null

-----------------------------------------------------------------------------
(***************************************************************************)
(* Claims of the code's comments that the code does not keep               *)
(***************************************************************************)

\* What place-bid-control.tsx says of a lost answer: pressing again replays the
\* first bid.  It does not: the amount no longer passes the form.
AttemptsCanBeReplayed ==
  \A t \in Tabs :
    (OnArena(tab[t]) /\ tab[t].attempt # Null /\ tab[t].sending = Null) =>
      \A n \in RecordedUnder(tab[t].attempt) :
        bids[n].amount >= calculateMinimumBid(tab[t].shown.row)
=============================================================================
