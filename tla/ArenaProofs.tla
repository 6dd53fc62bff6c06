---------------------------- MODULE ArenaProofs -----------------------------
(***************************************************************************)
(* Proofs about Arena, for every number of tabs, bids, reads and failures. *)
(*                                                                         *)
(* A settled row never changes again, so a result that was read is the     *)
(* result.  A tab in the room is owed a read for everything announced, so  *)
(* what its newest request has read is current (but for a seller's edits   *)
(* in the lobby, which nobody is told of) or an announcement is still to   *)
(* be emitted.  A seat has somebody to give it up: a tab that holds it, a  *)
(* call under way, or a connection that is counted.                        *)
(***************************************************************************)
EXTENDS Arena, TLAPS, FiniteSetTheorems, SequenceTheorems

-----------------------------------------------------------------------------
(***************************************************************************)
(* The inductive invariant                                                 *)
(***************************************************************************)
Connections == Tabs \X Nat
Attempts == Tabs \X Nat
Bid == [amount : Nat, sequenceNo : Nat, clientRequestId : (Tabs \cup {Outsider}) \X Nat]
CallRecord == [op : {"join", "leave"}, tab : Tabs, user : {OwnerOf[t] : t \in Tabs},
               step : {"ask", "write", "joined", "refused"}, was : BOOLEAN, left : BOOLEAN]
Goodbye == [conn : Connections, left : BOOLEAN]

\* What a request has read, after the auction and at the end, and what is shown.
HalfArena == [row : AuctionRow, you : BOOLEAN]
FullArena == [row : AuctionRow, you : BOOLEAN, seats : Nat, newest : Nat, winner : Nat,
              wake : NatOrNull]
Shown == [row : AuctionRow, you : BOOLEAN, seats : Nat, newest : Nat, winner : Nat]
Request ==
  [step : {"asked"}, arena : {Null}, inRoom : BOOLEAN, overtaken : BOOLEAN] \cup
  [step : {"auction"}, arena : HalfArena, inRoom : BOOLEAN, overtaken : BOOLEAN] \cup
  [step : {"ready"}, arena : FullArena, inRoom : BOOLEAN, overtaken : BOOLEAN]
Sending == [id : Attempts, amount : Nat, answer : {Null, "placed", "refused"}]

TabRecord ==
  [page : {"closed", "toArena", "toResult", "arena", "result", "away", "gone"},
   link : {"up", "down"}, conn : Nat, room : BOOLEAN, asks : BOOLEAN,
   reads : Seq(Request), shown : Shown \cup {Null}, inRoom : BOOLEAN, behind : BOOLEAN,
   missed : BOOLEAN, wakeAt : NatOrNull, held : BOOLEAN, joined : BOOLEAN,
   openedUnfinished : BOOLEAN, attempt : Attempts \cup {Null}, minted : Nat,
   sending : Sending \cup {Null}, confirmed : Nat]

RoomTyped ==
  /\ row \in AuctionRow /\ bids \in Seq(Bid) /\ now \in Nat /\ settling \in NatOrNull
  /\ IsFiniteSet(seats)
  /\ seating \subseteq CallRecord
  /\ \A c \in seating : c.user = OwnerOf[c.tab] /\ (c.op = "leave" => c.step = "ask")
  /\ registry \subseteq Connections /\ joining \subseteq Connections
  /\ ended \subseteq Goodbye
  /\ outbox \in Seq(ROOM_EVENTS)

TabsTyped == tab \in [Tabs -> TabRecord] /\ scene \in Scenes

\* What each page has and has not.
PageHas(r) ==
  /\ r.page \in {"arena", "result"} => r.shown \in Shown
  /\ r.page # "arena" => /\ r.link = "down" /\ r.conn = 0 /\ ~r.held
                         /\ r.attempt = Null /\ r.sending = Null /\ r.confirmed = 0
  /\ r.page \notin {"arena", "result"} => r.shown = Null
  /\ r.link = "down" => ~r.room /\ ~r.asks
  /\ ~(r.room /\ r.asks)
  /\ r.joined => r.held
PageOK(r) ==
  /\ PageHas(r)
  /\ r.page \in {"toArena", "toResult"} => r.reads # <<>>
  /\ r.page \in {"closed", "away", "gone"} => r.reads = <<>>
Pages == \A t \in Tabs : PageOK(tab[t])

ArenaTypeOK == RoomTyped /\ TabsTyped /\ Pages

\* Every bid is higher than the ones before it.
Ledger ==
  /\ row.bidCount = Len(bids)
  /\ bids # <<>> => row.currentPrice = bids[Len(bids)].amount
  /\ \A i, j \in DOMAIN bids : i < j => bids[i].amount < bids[j].amount
  /\ settling # Null => settling \in 0 .. Len(bids)

SaleStands ==
  row.status = "SOLD" =>
    row.winningBidId \in DOMAIN bids /\ row.soldPrice = bids[row.winningBidId].amount

\* What was read of a settled auction is what it still is.
RowStands(a) == a.row.status \in Settled => a.row = row
WinnerStands(a) == a.row.status \in Settled => a.winner = row.winningBidId
ReadStands(q) == /\ q.step # "asked" => RowStands(q.arena)
                 /\ q.step = "ready" => WinnerStands(q.arena)
ResultOK(r) ==
  /\ r.page \in {"arena", "result"} => RowStands(r.shown) /\ WinnerStands(r.shown)
  /\ \A i \in DOMAIN r.reads : ReadStands(r.reads[i])
ResultsStand == SaleStands /\ \A t \in Tabs : ResultOK(tab[t])

\* The bids of a tab, and the ones its attempt is not.
MadeBy(t) == {n \in DOMAIN bids : bids[n].clientRequestId[1] = t}
Others(t, r) == {n \in MadeBy(t) : bids[n].clientRequestId # r.attempt}
FormOK(t, r) ==
  /\ r.attempt # Null => r.attempt[1] = t /\ r.attempt[2] < r.minted
  /\ r.sending # Null => r.sending.id = r.attempt /\ r.attempt # Null
  /\ r.page # "gone" => \A n \in MadeBy(t) : bids[n].clientRequestId[2] < r.minted
  /\ OnArena(r) => Cardinality(Others(t, r)) <= r.confirmed
  /\ r.page \in {"closed", "toArena"} => MadeBy(t) = {}
  /\ (r.page = "toResult" /\ MadeBy(t) # {}) =>
       /\ row.status \in Settled
       /\ \A i \in DOMAIN r.reads : r.reads[i].step # "asked" => r.reads[i].arena.row.status \in Settled
OneEach == \A t \in Tabs : \A m, n \in MadeBy(t) :
             bids[m].clientRequestId = bids[n].clientRequestId => m = n
Forms == OneEach /\ \A t \in Tabs : FormOK(t, tab[t])

\* The newest request of a tab, if nothing newer was answered before it.
Newest(r) == r.reads[Len(r.reads)]
CountStands(a) == a.newest = Len(bids) /\ (a.seats = Cardinality(seats) \/ "count" \in slipped)
ReadIsCurrent(q) == /\ q.step # "asked" => OnlyEditsMissed(q.arena.row)
                    /\ q.step = "ready" => CountStands(q.arena)
WatchOK(r) ==
  /\ (r.room /\ r.reads = <<>> /\ r.inRoom /\ ~r.behind /\ outbox = <<>>) =>
       OnlyEditsMissed(r.shown.row) /\ CountStands(r.shown)
  /\ (r.room /\ r.reads # <<>> /\ Newest(r).inRoom /\ ~Newest(r).overtaken /\ outbox = <<>>) =>
       ReadIsCurrent(Newest(r))
  /\ (r.link = "up" /\ ~r.room) =>
       IF r.reads = <<>> THEN ~r.inRoom \/ r.behind ELSE ~Newest(r).inRoom \/ Newest(r).overtaken
Watched == \A t \in Tabs : WatchOK(tab[t])

\* Whoever is counted can still be let go.
Lives(c) == tab[c[1]].link = "up" /\ tab[c[1]].conn = c[2]
Holds(u) == \E t \in Tabs : OwnerOf[t] = u /\ tab[t].held /\ tab[t].joined
Calls(u) == \E c \in seating : c.user = u /\ (c.op = "leave" \/ tab[c.tab].page # "gone")
Counted(u) == \E c \in registry : OwnerOf[c[1]] = u
SeatsHeld ==
  /\ \A u \in seats \ slipped : Holds(u) \/ Calls(u) \/ Counted(u)
  /\ \A c \in registry : Lives(c) \/ (\E e \in ended : e.conn = c) \/ OwnerOf[c[1]] \in slipped
  /\ \A c \in seating : (c.op = "join" /\ ~c.left /\ tab[c.tab].page # "gone") =>
       tab[c.tab].held /\ ~tab[c.tab].joined
  /\ \A c \in seating : (c.op = "join" /\ tab[c.tab].page = "gone" /\ c.step # "joined") =>
       c.user \in slipped
  /\ \A c, d \in seating : (c.op = "join" /\ d.op = "join" /\ ~c.left /\ ~d.left /\ c.tab = d.tab) =>
       c = d

ArenaInv == ArenaTypeOK /\ Ledger /\ ResultsStand /\ Forms /\ Watched /\ SeatsHeld

-----------------------------------------------------------------------------
(***************************************************************************)
(* Requests                                                                *)
(***************************************************************************)

\* refresh puts one more request, which has read nothing, behind the others.
LEMMA RefreshFacts ==
  ASSUME NEW r \in TabRecord
  PROVE  /\ refresh(r) \in TabRecord
         /\ refresh(r) = [r EXCEPT !.reads = Append(r.reads, Ask(r))]
         /\ refresh(r).reads \in Seq(Request) /\ refresh(r).reads # <<>>
         /\ Newest(refresh(r)) = Ask(r)
         /\ \A i \in DOMAIN refresh(r).reads :
              refresh(r).reads[i] = Ask(r) \/ (i \in DOMAIN r.reads /\ refresh(r).reads[i] = r.reads[i])
<1> DEFINE q == Ask(r)
<1>1. r.reads \in Seq(Request) /\ r.room \in BOOLEAN
  BY DEF TabRecord
<1>2. q \in Request /\ Ask(r) = q
  BY <1>1 DEF Ask, Request
<1> HIDE DEF q
<1>3. /\ Append(r.reads, q) \in Seq(Request) /\ Append(r.reads, q) # <<>>
      /\ Len(Append(r.reads, q)) = Len(r.reads) + 1
      /\ Append(r.reads, q)[Len(r.reads) + 1] = q
      /\ \A i \in DOMAIN Append(r.reads, q) :
           Append(r.reads, q)[i] = q \/ (i \in DOMAIN r.reads /\ Append(r.reads, q)[i] = r.reads[i])
  BY <1>1, <1>2
<1>4. refresh(r) = [r EXCEPT !.reads = Append(r.reads, q)]
  BY <1>2 DEF refresh
<1>5. refresh(r).reads = Append(r.reads, q) /\ refresh(r) \in TabRecord
  BY <1>3, <1>4 DEF TabRecord
<1> QED
  BY <1>2, <1>3, <1>4, <1>5 DEF Newest

\* Without takes one request out, and the ones before it are overtaken.
LEMMA WithoutFacts ==
  ASSUME NEW r \in TabRecord, NEW i \in DOMAIN r.reads
  PROVE  /\ Without(r, i) \in Seq(Request)
         /\ Len(Without(r, i)) = Len(r.reads) - 1
         /\ \A j \in DOMAIN Without(r, i) :
              \E k \in DOMAIN r.reads :
                /\ Without(r, i)[j].step = r.reads[k].step
                /\ Without(r, i)[j].arena = r.reads[k].arena
         /\ Without(r, i) # <<>> =>
              IF i = Len(r.reads) THEN Without(r, i)[Len(Without(r, i))].overtaken
              ELSE Without(r, i)[Len(Without(r, i))] = Newest(r)
<1> DEFINE q == r.reads
           w == Without(r, i)
           n == Len(q) - 1
<1>1. q \in Seq(Request)
  BY DEF TabRecord
<1>2. Len(q) \in Nat /\ i \in 1 .. Len(q) /\ n \in Nat /\ \A k \in 1 .. Len(q) : q[k] \in Request
  BY <1>1
<1>3. w = [j \in 1 .. n |-> IF j < i THEN [q[j] EXCEPT !.overtaken = TRUE] ELSE q[j + 1]]
  BY DEF Without
<1>4. \A x \in Request : /\ [x EXCEPT !.overtaken = TRUE] \in Request
                         /\ [x EXCEPT !.overtaken = TRUE].step = x.step
                         /\ [x EXCEPT !.overtaken = TRUE].arena = x.arena
                         /\ [x EXCEPT !.overtaken = TRUE].overtaken
  BY DEF Request
<1> HIDE DEF w, q
<1>5. \A j \in 1 .. n : w[j] \in Request
  BY <1>2, <1>3, <1>4
<1>6. w \in Seq(Request) /\ Len(w) = n /\ DOMAIN w = 1 .. n
  BY <1>2, <1>3, <1>5, w \in [1 .. n -> Request], SeqDef
<1>7. \A j \in DOMAIN w : \E k \in DOMAIN q : w[j].step = q[k].step /\ w[j].arena = q[k].arena
  <2> TAKE j \in DOMAIN w
  <2>1. CASE j < i
    <3>1. j \in 1 .. Len(q) /\ j \in DOMAIN q /\ q[j] \in Request
      BY <1>1, <1>2, <1>6
    <3>2. w[j] = [q[j] EXCEPT !.overtaken = TRUE]
      BY <1>3, <1>6, <2>1
    <3> QED
      BY <1>4, <3>1, <3>2
  <2>2. CASE ~(j < i)
    BY <1>1, <1>2, <1>3, <1>6, <2>2, j + 1 \in DOMAIN q
  <2> QED
    BY <2>1, <2>2
<1>8. w # <<>> => IF i = Len(q) THEN w[Len(w)].overtaken ELSE w[Len(w)] = q[Len(q)]
  BY <1>2, <1>3, <1>4, <1>6
<1> QED
  BY <1>6, <1>7, <1>8 DEF w, q, Newest

-----------------------------------------------------------------------------
(***************************************************************************)
(* Steps that touch one tab only                                           *)
(***************************************************************************)
LEMMA PutFacts ==
  ASSUME TabsTyped, NEW t \in Tabs, NEW r, Put(t, r)
  PROVE  /\ tab'[t] = r
         /\ \A x \in Tabs \ {t} : tab'[x] = tab[x]
         /\ r \in TabRecord => tab' \in [Tabs -> TabRecord]
BY DEF Put, TabsTyped

\* What the seats rest on is not touched.
SameHold(t, r) ==
  /\ r.held = tab[t].held /\ r.joined = tab[t].joined
  /\ r.link = tab[t].link /\ r.conn = tab[t].conn
  /\ r.page = "gone" <=> tab[t].page = "gone"

LEMMA OneTabStep ==
  ASSUME ArenaInv, NEW t \in Tabs, NEW r \in TabRecord, Put(t, r),
         UNCHANGED <<roomVars, slipped, scene>>,
         PageOK(r), ResultOK(r), FormOK(t, r), WatchOK(r), SameHold(t, r)
  PROVE  ArenaInv'
<1> USE DEF ArenaInv
<1>1. /\ tab'[t] = r /\ \A x \in Tabs \ {t} : tab'[x] = tab[x]
      /\ tab' \in [Tabs -> TabRecord]
  BY PutFacts DEF ArenaTypeOK
<1>2. /\ row' = row /\ bids' = bids /\ now' = now /\ settling' = settling /\ seats' = seats
      /\ seating' = seating /\ registry' = registry /\ joining' = joining /\ ended' = ended
      /\ outbox' = outbox /\ slipped' = slipped /\ scene' = scene
  BY DEF roomVars
<1>3. ArenaTypeOK'
  <2>1. RoomTyped' /\ TabsTyped'
    BY <1>1, <1>2 DEF ArenaTypeOK, RoomTyped, TabsTyped
  <2>2. Pages'
    BY <1>1 DEF ArenaTypeOK, Pages, PageOK
  <2> QED
    BY <2>1, <2>2 DEF ArenaTypeOK
<1>4. Ledger'
  BY <1>2 DEF Ledger
<1>5. ResultsStand'
  <2>1. SaleStands'
    BY <1>2 DEF ResultsStand, SaleStands
  <2>2. ASSUME NEW x \in Tabs PROVE ResultOK(tab[x])'
    <3>1. ResultOK(tab'[x])
      BY <1>1 DEF ResultsStand
    <3> QED
      BY <1>2, <3>1 DEF ResultOK, ReadStands, RowStands, WinnerStands
  <2> QED
    BY <2>1, <2>2 DEF ResultsStand
<1>6. Forms'
  <2>1. OneEach'
    BY <1>2 DEF Forms, OneEach, MadeBy
  <2>2. ASSUME NEW x \in Tabs PROVE FormOK(x, tab[x])'
    <3>1. FormOK(x, tab'[x])
      BY <1>1 DEF Forms
    <3> QED
      BY <1>2, <3>1 DEF FormOK, MadeBy, Others
  <2> QED
    BY <2>1, <2>2 DEF Forms
<1>7. Watched'
  <2>1. ASSUME NEW x \in Tabs PROVE WatchOK(tab[x])'
    <3>1. WatchOK(tab'[x])
      BY <1>1 DEF Watched
    <3> QED
      BY <1>2, <3>1 DEF WatchOK, CountStands, ReadIsCurrent, OnlyEditsMissed
  <2> QED
    BY <2>1 DEF Watched
<1>8. SeatsHeld'
  <2>1. \A x \in Tabs : /\ tab'[x].held = tab[x].held /\ tab'[x].joined = tab[x].joined
                        /\ tab'[x].link = tab[x].link /\ tab'[x].conn = tab[x].conn
                        /\ tab'[x].page = "gone" <=> tab[x].page = "gone"
    BY <1>1 DEF SameHold
  <2>2. /\ \A c \in seating : c.tab \in Tabs
        /\ \A c \in registry : c[1] \in Tabs
    BY DEF ArenaTypeOK, RoomTyped, CallRecord, Connections
  <2>3. \A u : Holds(u) => Holds(u)'
    BY <2>1 DEF Holds
  <2>4. \A u : Calls(u) => Calls(u)'
    BY <1>2, <2>1, <2>2 DEF Calls
  <2>5. \A u : Counted(u) => Counted(u)'
    BY <1>2 DEF Counted
  <2>6. \A c \in registry : Lives(c)' <=> Lives(c)
    BY <2>1, <2>2 DEF Lives
  <2> QED
    BY <1>2, <2>1, <2>2, <2>3, <2>4, <2>5, <2>6 DEF SeatsHeld
<1> QED
  BY <1>3, <1>4, <1>5, <1>6, <1>7, <1>8

TabOK(t, r) == r \in TabRecord /\ PageOK(r) /\ ResultOK(r) /\ FormOK(t, r) /\ WatchOK(r)

LEMMA EveryTabOK ==
  ASSUME ArenaInv, NEW t \in Tabs PROVE TabOK(t, tab[t])
BY DEF ArenaInv, ArenaTypeOK, TabsTyped, Pages, ResultsStand, Forms, Watched, TabOK

LEMMA TabStepOK ==
  ASSUME ArenaInv, NEW t \in Tabs, NEW r, Put(t, r), TabOK(t, r), SameHold(t, r),
         UNCHANGED <<roomVars, slipped, scene>>
  PROVE  ArenaInv'
BY OneTabStep DEF TabOK

\* One more request leaves a tab in order, whatever it owed its reader before.
LEMMA RefreshKeeps ==
  ASSUME NEW t \in Tabs, NEW r \in TabRecord, PageHas(r), ResultOK(r), FormOK(t, r),
         r.page \notin {"closed", "away", "gone"}
  PROVE  TabOK(t, refresh(r))
<1> DEFINE new == refresh(r)
<1>1. /\ new \in TabRecord /\ new = [r EXCEPT !.reads = Append(r.reads, Ask(r))]
      /\ new.reads \in Seq(Request) /\ new.reads # <<>> /\ Newest(new) = Ask(r)
      /\ \A i \in DOMAIN new.reads :
           new.reads[i] = Ask(r) \/ (i \in DOMAIN r.reads /\ new.reads[i] = r.reads[i])
  BY RefreshFacts
<1>2. /\ new.page = r.page /\ new.shown = r.shown /\ new.link = r.link /\ new.held = r.held
      /\ new.joined = r.joined /\ new.attempt = r.attempt /\ new.sending = r.sending
      /\ new.confirmed = r.confirmed /\ new.room = r.room /\ new.asks = r.asks
      /\ new.minted = r.minted /\ new.inRoom = r.inRoom /\ new.behind = r.behind
      /\ new.conn = r.conn
  BY <1>1 DEF TabRecord
<1>3. Ask(r).step = "asked" /\ Ask(r).inRoom = r.room
  BY DEF Ask
<1> HIDE DEF new
<1>4. PageOK(new)
  BY <1>1, <1>2 DEF PageOK, PageHas
<1>5. ResultOK(new)
  BY <1>1, <1>2, <1>3 DEF ResultOK, ReadStands
<1>6. FormOK(t, new)
  BY <1>1, <1>2, <1>3 DEF FormOK, Others, OnArena
<1>7. WatchOK(new)
  BY <1>1, <1>2, <1>3 DEF WatchOK, ReadIsCurrent
<1> QED
  BY <1>1, <1>4, <1>5, <1>6, <1>7 DEF TabOK, new

\* A request that fails leaves the tab behind.
LEMMA LostReadKeeps ==
  ASSUME NEW t \in Tabs, NEW r, TabOK(t, r), r.page \in {"arena", "result"},
         NEW i \in DOMAIN r.reads
  PROVE  TabOK(t, [r EXCEPT !.reads = Without(r, i), !.behind = TRUE, !.missed = TRUE])
<1> DEFINE new == [r EXCEPT !.reads = Without(r, i), !.behind = TRUE, !.missed = TRUE]
<1>1. r \in TabRecord /\ PageOK(r) /\ ResultOK(r) /\ FormOK(t, r) /\ WatchOK(r)
  BY DEF TabOK
<1>2. /\ Without(r, i) \in Seq(Request)
      /\ \A j \in DOMAIN Without(r, i) :
           \E k \in DOMAIN r.reads :
             /\ Without(r, i)[j].step = r.reads[k].step
             /\ Without(r, i)[j].arena = r.reads[k].arena
      /\ Without(r, i) # <<>> =>
           IF i = Len(r.reads) THEN Without(r, i)[Len(Without(r, i))].overtaken
           ELSE Without(r, i)[Len(Without(r, i))] = Newest(r)
  BY <1>1, WithoutFacts
<1>r. r.reads # <<>> /\ r.reads \in Seq(Request)
  BY <1>1 DEF TabRecord
<1>3. /\ new \in TabRecord /\ new.reads = Without(r, i) /\ new.behind
      /\ new.page = r.page /\ new.shown = r.shown /\ new.link = r.link /\ new.held = r.held
      /\ new.joined = r.joined /\ new.attempt = r.attempt /\ new.sending = r.sending
      /\ new.confirmed = r.confirmed /\ new.room = r.room /\ new.asks = r.asks
      /\ new.minted = r.minted /\ new.inRoom = r.inRoom /\ new.conn = r.conn
  BY <1>1, <1>2 DEF TabRecord
<1> HIDE DEF new
<1>4. PageOK(new)
  BY <1>1, <1>3 DEF PageOK, PageHas
<1>5. ResultOK(new)
  BY <1>1, <1>2, <1>3 DEF ResultOK, ReadStands
<1>6. FormOK(t, new)
  BY <1>1, <1>3 DEF FormOK, Others, OnArena
<1>7. WatchOK(new)
  BY <1>1, <1>2, <1>r, <1>3 DEF WatchOK, Newest
<1> QED
  BY <1>3, <1>4, <1>5, <1>6, <1>7 DEF TabOK, new

\* An answer is current if its request was the newest and asked for in the room.
LEMMA ArrivedKeeps ==
  ASSUME NEW t \in Tabs, TabOK(t, tab[t]), tab[t].page \in {"arena", "result"},
         NEW i \in DOMAIN tab[t].reads, tab[t].reads[i].step = "ready"
  PROVE  /\ TabOK(t, Arrived(t, i))
         /\ Arrived(t, i) = [tab[t] EXCEPT !.shown = Arrived(t, i).shown,
                               !.reads = Arrived(t, i).reads, !.inRoom = Arrived(t, i).inRoom,
                               !.behind = Arrived(t, i).behind]
         /\ tab[t].reads[i].arena \in FullArena
<1> DEFINE r == tab[t]
           q == r.reads[i]
           new == Arrived(t, i)
<1>1. r \in TabRecord /\ PageOK(r) /\ ResultOK(r) /\ FormOK(t, r) /\ WatchOK(r)
  BY DEF TabOK
<1>2. /\ Without(r, i) \in Seq(Request) /\ Len(Without(r, i)) = Len(r.reads) - 1
      /\ \A j \in DOMAIN Without(r, i) :
           \E k \in DOMAIN r.reads :
             /\ Without(r, i)[j].step = r.reads[k].step
             /\ Without(r, i)[j].arena = r.reads[k].arena
      /\ Without(r, i) # <<>> =>
           IF i = Len(r.reads) THEN Without(r, i)[Len(Without(r, i))].overtaken
           ELSE Without(r, i)[Len(Without(r, i))] = Newest(r)
  BY <1>1, WithoutFacts
<1>r. r.reads # <<>> /\ r.reads \in Seq(Request)
  BY <1>1 DEF TabRecord
<1>3. q \in Request /\ q.arena \in FullArena /\ q.inRoom \in BOOLEAN /\ q.overtaken \in BOOLEAN
  <2>1. q \in Request
    BY <1>r
  <2> QED
    BY <2>1 DEF Request
<1>4. /\ Screenful(q.arena) \in Shown /\ Screenful(q.arena).row = q.arena.row
      /\ Screenful(q.arena).winner = q.arena.winner /\ Screenful(q.arena).newest = q.arena.newest
      /\ Screenful(q.arena).seats = q.arena.seats
  BY <1>3 DEF Screenful, Shown, FullArena
<1>5. new = [r EXCEPT !.shown = Screenful(q.arena), !.reads = Without(r, i),
                      !.inRoom = q.inRoom, !.behind = q.overtaken]
  BY DEF Arrived
<1>6. /\ new \in TabRecord /\ new.reads = Without(r, i) /\ new.behind = q.overtaken
      /\ new.inRoom = q.inRoom /\ new.shown = Screenful(q.arena)
      /\ new.page = r.page /\ new.link = r.link /\ new.held = r.held
      /\ new.joined = r.joined /\ new.attempt = r.attempt /\ new.sending = r.sending
      /\ new.confirmed = r.confirmed /\ new.room = r.room /\ new.asks = r.asks
      /\ new.minted = r.minted /\ new.conn = r.conn
  BY ZenonT(60), <1>1, <1>2, <1>3, <1>4, <1>5 DEF TabRecord
<1> HIDE DEF new
<1>7. PageOK(new)
  BY <1>1, <1>4, <1>6 DEF PageOK, PageHas
<1>8. ResultOK(new)
  <2>1. ReadStands(q)
    BY <1>1 DEF ResultOK
  <2>2. RowStands(new.shown) /\ WinnerStands(new.shown)
    BY <1>4, <1>6, <2>1 DEF ReadStands, RowStands, WinnerStands
  <2> QED
    BY SMTT(60), <1>1, <1>2, <1>6, <2>2 DEF ResultOK, ReadStands
<1>9. FormOK(t, new)
  BY <1>1, <1>6 DEF FormOK, Others, OnArena
<1>10. WatchOK(new)
  <2>1. CASE new.reads = <<>>
    <3>1. Len(r.reads) = 1 /\ i = 1 /\ Newest(r) = q
      BY <1>2, <1>r, <1>6, <2>1 DEF Newest
    <3> QED
      BY <1>1, <1>2, <1>r, <1>4, <1>6, <2>1, <3>1 DEF WatchOK, ReadIsCurrent, CountStands
  <2>2. CASE new.reads # <<>>
    BY <1>1, <1>2, <1>r, <1>6, <2>2 DEF WatchOK, Newest
  <2> QED
    BY <2>1, <2>2
<1> QED
  BY <1>3, <1>5, <1>6, <1>7, <1>8, <1>9, <1>10 DEF TabOK, new

Alike(r, s) ==
  /\ r.page = s.page /\ r.reads = s.reads /\ r.shown = s.shown /\ r.link = s.link
  /\ r.held = s.held /\ r.joined = s.joined /\ r.attempt = s.attempt /\ r.sending = s.sending
  /\ r.confirmed = s.confirmed /\ r.room = s.room /\ r.asks = s.asks /\ r.minted = s.minted
  /\ r.inRoom = s.inRoom /\ r.behind = s.behind /\ r.conn = s.conn

LEMMA AlikeOK ==
  ASSUME NEW t \in Tabs, NEW r, NEW s \in TabRecord, TabOK(t, r), Alike(r, s)
  PROVE  TabOK(t, s)
<1>1. PageOK(s)
  BY DEF TabOK, PageOK, PageHas, Alike
<1>2. ResultOK(s)
  BY DEF TabOK, ResultOK, Alike
<1>3. FormOK(t, s)
  BY DEF TabOK, FormOK, Others, OnArena, Alike
<1>4. WatchOK(s)
  BY DEF TabOK, WatchOK, Newest, Alike
<1> QED
  BY <1>1, <1>2, <1>3, <1>4 DEF TabOK

LEMMA WakeKeeps ==
  ASSUME ArenaInv, NEW t \in Tabs, Wake(t), UNCHANGED scene
  PROVE  ArenaInv'
<1> DEFINE r == tab[t]
           new == [refresh(r) EXCEPT !.wakeAt = Null]
<1>1. TabOK(t, r)
  BY EveryTabOK
<1>2. TabOK(t, refresh(r)) /\ refresh(r) \in TabRecord
  BY <1>1, RefreshKeeps DEF TabOK, PageOK, Wake, OnArena
<1>3. refresh(r) = [r EXCEPT !.reads = Append(r.reads, Ask(r))] /\ r \in TabRecord
  BY <1>1, RefreshFacts DEF TabOK
<1>4. new \in TabRecord /\ Alike(refresh(r), new)
  BY <1>2 DEF TabRecord, Alike, NatOrNull
<1>5. TabOK(t, new)
  BY <1>2, <1>4, AlikeOK
<1>6. SameHold(t, new)
  BY <1>3 DEF SameHold, TabRecord
<1>7. Put(t, new) /\ UNCHANGED <<roomVars, slipped, scene>>
  BY DEF Wake
<1> HIDE DEF new
<1> QED
  BY <1>5, <1>6, <1>7, TabStepOK

LEMMA GlanceKeeps ==
  ASSUME ArenaInv, NEW t \in Tabs, Glance(t), UNCHANGED scene
  PROVE  ArenaInv'
<1> DEFINE r == tab[t]
<1>1. TabOK(t, r)
  BY EveryTabOK
<1>2. TabOK(t, refresh(r))
  BY <1>1, RefreshKeeps DEF TabOK, PageOK, Glance, OnArena
<1>3. refresh(r) = [r EXCEPT !.reads = Append(r.reads, Ask(r))] /\ r \in TabRecord
  BY <1>1, RefreshFacts DEF TabOK
<1>4. SameHold(t, refresh(r))
  BY <1>3 DEF SameHold, TabRecord
<1>5. Put(t, refresh(r)) /\ UNCHANGED <<roomVars, slipped, scene>>
  BY DEF Glance
<1> QED
  BY <1>2, <1>4, <1>5, TabStepOK

LEMMA OpenKeeps ==
  ASSUME ArenaInv, NEW t \in Tabs, NEW page \in {"toArena", "toResult"}, Open(t, page),
         UNCHANGED scene
  PROVE  ArenaInv'
<1> DEFINE old == tab[t]
           r == [old EXCEPT !.page = page]
<1>1. TabOK(t, old) /\ old.page = "closed" /\ old \in TabRecord
  BY EveryTabOK DEF Open, TabOK
<1>2. /\ r \in TabRecord /\ r.page = page /\ r.reads = old.reads /\ r.shown = old.shown
      /\ r.link = old.link /\ r.held = old.held /\ r.joined = old.joined
      /\ r.attempt = old.attempt /\ r.sending = old.sending /\ r.confirmed = old.confirmed
      /\ r.room = old.room /\ r.asks = old.asks /\ r.minted = old.minted /\ r.conn = old.conn
  BY <1>1 DEF TabRecord
<1>3. Put(t, refresh(r)) /\ UNCHANGED <<roomVars, slipped, scene>>
  BY DEF Open
<1> HIDE DEF r
<1>4. PageHas(r) /\ ResultOK(r)
  BY <1>1, <1>2 DEF TabOK, PageOK, PageHas, ResultOK
<1>5. FormOK(t, r)
  BY <1>1, <1>2 DEF TabOK, FormOK, OnArena
<1>6. TabOK(t, refresh(r))
  BY <1>2, <1>4, <1>5, RefreshKeeps
<1>7. refresh(r) = [r EXCEPT !.reads = Append(r.reads, Ask(r))]
  BY <1>2, RefreshFacts
<1>8. SameHold(t, refresh(r))
  BY <1>1, <1>2, <1>7 DEF SameHold, TabRecord
<1> QED
  BY <1>3, <1>6, <1>8, TabStepOK

LEMMA LoseReadKeeps ==
  ASSUME ArenaInv, NEW t \in Tabs, NEW i \in DOMAIN tab[t].reads, LoseRead(t, i), UNCHANGED scene
  PROVE  ArenaInv'
<1> DEFINE r == tab[t]
           new == [r EXCEPT !.reads = Without(r, i), !.behind = TRUE, !.missed = TRUE]
<1>1. TabOK(t, r) /\ r \in TabRecord /\ r.page \in {"arena", "result"}
  BY EveryTabOK DEF LoseRead, TabOK
<1>2. TabOK(t, new)
  BY <1>1, LostReadKeeps
<1>3. SameHold(t, new)
  BY <1>1 DEF SameHold, TabRecord
<1>4. Put(t, new) /\ UNCHANGED <<roomVars, slipped, scene>>
  BY DEF LoseRead
<1> HIDE DEF new
<1> QED
  BY <1>2, <1>3, <1>4, TabStepOK

LEMMA ShowResultKeeps ==
  ASSUME ArenaInv, NEW t \in Tabs, NEW i \in DOMAIN tab[t].reads, ShowResult(t, i), UNCHANGED scene
  PROVE  ArenaInv'
<1> DEFINE new == Arrived(t, i)
<1>1. TabOK(t, tab[t]) /\ tab[t] \in TabRecord
  BY EveryTabOK DEF TabOK
<1>2. TabOK(t, new) /\ new = [tab[t] EXCEPT !.shown = new.shown, !.reads = new.reads,
                                             !.inRoom = new.inRoom, !.behind = new.behind]
  BY <1>1, ArrivedKeeps DEF ShowResult
<1>3. Put(t, new) /\ UNCHANGED <<roomVars, slipped, scene>>
  BY DEF ShowResult
<1> HIDE DEF new
<1>4. SameHold(t, new)
  BY <1>1, <1>2 DEF SameHold, TabRecord
<1> QED
  BY <1>2, <1>3, <1>4, TabStepOK

-----------------------------------------------------------------------------
(***************************************************************************)
(* What a request reads                                                    *)
(***************************************************************************)
Filled(r, i, step, arena) == [r EXCEPT !.reads[i].step = step, !.reads[i].arena = arena]

LEMMA FilledFacts ==
  ASSUME NEW r \in TabRecord, NEW i \in DOMAIN r.reads, NEW step, NEW arena,
         \/ step = "auction" /\ arena \in HalfArena
         \/ step = "ready" /\ arena \in FullArena
  PROVE  LET new == Filled(r, i, step, arena)
         IN  /\ new \in TabRecord /\ new = [r EXCEPT !.reads = new.reads]
             /\ new.reads # <<>> /\ Len(new.reads) = Len(r.reads) /\ DOMAIN new.reads = DOMAIN r.reads
             /\ new.reads[i].step = step /\ new.reads[i].arena = arena
             /\ new.reads[i].inRoom = r.reads[i].inRoom
             /\ new.reads[i].overtaken = r.reads[i].overtaken
             /\ \A j \in DOMAIN r.reads \ {i} : new.reads[j] = r.reads[j]
<1> DEFINE q == r.reads
           x == [q[i] EXCEPT !.step = step, !.arena = arena]
           s == [q EXCEPT ![i] = x]
           new == Filled(r, i, step, arena)
<1>1. q \in Seq(Request)
  BY DEF TabRecord
<1>2. i \in 1 .. Len(q) /\ Len(q) \in Nat /\ q[i] \in Request
  BY <1>1
<1>3. /\ x \in Request /\ x.step = step /\ x.arena = arena /\ x.inRoom = q[i].inRoom
      /\ x.overtaken = q[i].overtaken
  BY <1>2 DEF Request
<1>4. new = [r EXCEPT !.reads = s]
  BY <1>2 DEF Filled, TabRecord
<1> HIDE DEF x, q
<1>5. /\ s \in Seq(Request) /\ Len(s) = Len(q) /\ DOMAIN s = DOMAIN q /\ s # <<>> /\ s[i] = x
      /\ \A j \in DOMAIN q \ {i} : s[j] = q[j]
  BY <1>1, <1>2, <1>3
<1> HIDE DEF s
<1>6. new \in TabRecord /\ new.reads = s
  BY <1>4, <1>5 DEF TabRecord
<1> QED
  BY <1>3, <1>4, <1>5, <1>6 DEF q

LEMMA WakeUpType ==
  ASSUME NEW r \in AuctionRow, NEW n \in Nat PROVE nextArenaWakeUp(r, n) \in NatOrNull
<1> DEFINE c == calculateCountdown(r, n)
<1>1. c.msUntilStart \in Nat /\ c.msUntilEnd \in Nat
  BY DEF calculateCountdown, AuctionRow
<1>2. ANTI_SNIPING_WINDOW \in Nat /\ TRANSITION_RECHECK \in Nat /\ EDGE_BUFFER \in Nat
  BY RulesAssumption, ScreenAssumption
<1>3. r.status \in PUBLIC_AUCTION_STATUSES \cup {"CANCELLED"}
  BY DEF AuctionRow
<1> HIDE DEF c
<1>4. CASE r.status = "SCHEDULED"
  BY <1>1, <1>2, <1>4 DEF nextArenaWakeUp, AtTheEnd, NatOrNull, c
<1>5. CASE r.status = "ACTIVE"
  <2> DEFINE u == IF c.msUntilEnd > ANTI_SNIPING_WINDOW THEN c.msUntilEnd - ANTI_SNIPING_WINDOW ELSE 0
  <2>1. u \in Nat
    BY <1>1, <1>2
  <2>2. nextArenaWakeUp(r, n) = IF c.msUntilEnd = 0 THEN TRANSITION_RECHECK
                                ELSE IF ~describeSuddenDeath(r, n) /\ u > 0 THEN u + EDGE_BUFFER
                                ELSE c.msUntilEnd + EDGE_BUFFER
    BY <1>5 DEF nextArenaWakeUp, AtTheEnd, c
  <2> HIDE DEF u
  <2> QED
    BY <1>1, <1>2, <2>1, <2>2 DEF NatOrNull
<1>6. CASE r.status \notin {"SCHEDULED", "ACTIVE"}
  BY <1>6 DEF nextArenaWakeUp, NatOrNull
<1> QED
  BY <1>4, <1>5, <1>6

LEMMA ReadRestKeeps ==
  ASSUME ArenaInv, NEW t \in Tabs, NEW i \in DOMAIN tab[t].reads, ReadRest(t, i), UNCHANGED scene
  PROVE  ArenaInv'
<1> DEFINE r == tab[t]
           a == r.reads[i].arena
           full == [row |-> a.row, you |-> a.you, seats |-> Cardinality(seats),
                    newest |-> Len(bids), winner |-> WinnerRead,
                    wake |-> nextArenaWakeUp(a.row, now)]
           new == Filled(r, i, "ready", full)
<1>1. TabOK(t, r) /\ r \in TabRecord /\ r.reads \in Seq(Request)
  BY EveryTabOK DEF TabOK, TabRecord
<1>2. r.reads[i].step = "auction" /\ r.reads[i] \in Request
  BY <1>1 DEF ReadRest
<1>3. a \in HalfArena
  BY <1>2 DEF Request
<1>4. a.row \in AuctionRow /\ a.you \in BOOLEAN
  BY <1>3 DEF HalfArena
<1>5. RoomTyped
  BY DEF ArenaInv, ArenaTypeOK
<1>6. Cardinality(seats) \in Nat /\ Len(bids) \in Nat /\ WinnerRead \in Nat
  BY <1>5, FS_CardinalityType DEF RoomTyped, AuctionRow, WinnerRead
<1>7. nextArenaWakeUp(a.row, now) \in NatOrNull
  BY <1>4, <1>5, WakeUpType DEF RoomTyped
<1>8. Put(t, new) /\ UNCHANGED <<roomVars, slipped, scene>>
  BY DEF ReadRest, WithRead, Filled
<1>9. /\ full \in FullArena /\ full.row = a.row /\ full.winner = row.winningBidId
      /\ full.newest = Len(bids) /\ full.seats = Cardinality(seats)
  BY <1>4, <1>6, <1>7 DEF FullArena, WinnerRead
<1> HIDE DEF full
<1>10. /\ new \in TabRecord /\ new = [r EXCEPT !.reads = new.reads]
       /\ new.reads # <<>> /\ Len(new.reads) = Len(r.reads) /\ DOMAIN new.reads = DOMAIN r.reads
       /\ new.reads[i].step = "ready" /\ new.reads[i].arena = full
       /\ new.reads[i].inRoom = r.reads[i].inRoom
       /\ new.reads[i].overtaken = r.reads[i].overtaken
       /\ \A j \in DOMAIN r.reads \ {i} : new.reads[j] = r.reads[j]
  BY <1>1, <1>9, FilledFacts
<1> HIDE DEF new
<1>11. /\ new.page = r.page /\ new.shown = r.shown /\ new.link = r.link /\ new.held = r.held
       /\ new.joined = r.joined /\ new.attempt = r.attempt /\ new.sending = r.sending
       /\ new.confirmed = r.confirmed /\ new.room = r.room /\ new.asks = r.asks
       /\ new.minted = r.minted /\ new.inRoom = r.inRoom /\ new.behind = r.behind
       /\ new.conn = r.conn
  BY <1>1, <1>10 DEF TabRecord
<1>12. PageOK(new)
  BY <1>1, <1>10, <1>11 DEF TabOK, PageOK, PageHas
<1>13. ResultOK(new)
  <2>1. ReadStands(r.reads[i])
    BY <1>1 DEF TabOK, ResultOK
  <2>2. ReadStands(new.reads[i])
    BY <1>2, <1>9, <1>10, <2>1 DEF ReadStands, RowStands, WinnerStands
  <2> QED
    BY <1>1, <1>10, <1>11, <2>2 DEF TabOK, ResultOK
<1>14. FormOK(t, new)
  BY <1>1, <1>2, <1>9, <1>10, <1>11 DEF TabOK, FormOK, Others, OnArena
<1>15. WatchOK(new)
  <2>1. Len(r.reads) \in DOMAIN r.reads
    BY <1>1
  <2>2. CASE i = Len(r.reads)
    BY <1>1, <1>2, <1>9, <1>10, <1>11, <2>2 DEF TabOK, WatchOK, Newest, ReadIsCurrent, CountStands
  <2>3. CASE i # Len(r.reads)
    <3>1. Newest(new) = Newest(r)
      BY <1>10, <2>1, <2>3 DEF Newest
    <3> QED
      BY <1>1, <1>10, <1>11, <3>1 DEF TabOK, WatchOK
  <2> QED
    BY <2>2, <2>3
<1>16. SameHold(t, new)
  BY <1>11 DEF SameHold
<1> QED
  BY <1>8, <1>10, <1>12, <1>13, <1>14, <1>15, <1>16, TabStepOK DEF TabOK

\* A tab that was left, or never opened, has nothing.
LEMMA UnopenedFacts ==
  /\ Unopened \in TabRecord /\ Unopened.reads = <<>> /\ Unopened.shown = Null
  /\ Unopened.page = "closed" /\ Unopened.link = "down" /\ ~Unopened.held /\ ~Unopened.joined
  /\ Unopened.attempt = Null /\ Unopened.sending = Null /\ Unopened.confirmed = 0
  /\ ~Unopened.room /\ ~Unopened.asks /\ Unopened.minted = 0 /\ Unopened.conn = 0
<1>1. <<>> \in Seq(Request) /\ Null \in NatOrNull
  BY EmptySeq DEF NatOrNull
<1> QED
  BY <1>1 DEF Unopened, TabRecord

LEMMA ReadNotFoundKeeps ==
  ASSUME ArenaInv, NEW t \in Tabs, NEW i \in DOMAIN tab[t].reads, ReadNotFound(t, i), UNCHANGED scene
  PROVE  ArenaInv'
<1> DEFINE r == tab[t]
           lost == [r EXCEPT !.reads = Without(r, i), !.behind = TRUE, !.missed = TRUE]
           away == [Unopened EXCEPT !.page = "away"]
<1>1. TabOK(t, r) /\ r \in TabRecord
  BY EveryTabOK DEF TabOK
<1>2. UNCHANGED <<roomVars, slipped, scene>>
  BY DEF ReadNotFound
<1>3. CASE r.page \in {"toArena", "toResult"}
  <2>1. Put(t, away)
    BY <1>3 DEF ReadNotFound
  <2>2. /\ away \in TabRecord /\ away.page = "away" /\ away.reads = <<>> /\ away.shown = Null
        /\ away.link = "down" /\ ~away.held /\ ~away.joined /\ away.attempt = Null
        /\ away.sending = Null /\ away.confirmed = 0 /\ ~away.room /\ ~away.asks
        /\ away.minted = 0 /\ away.conn = 0
    BY UnopenedFacts DEF TabRecord
  <2>3. MadeBy(t) = {}
    BY <1>1, <1>3 DEF ReadNotFound, TabOK, FormOK, Settled
  <2> HIDE DEF away
  <2>4. PageOK(away) /\ ResultOK(away)
    BY <2>2 DEF PageOK, PageHas, ResultOK
  <2>5. FormOK(t, away) /\ WatchOK(away)
    BY <2>2, <2>3 DEF FormOK, OnArena, WatchOK
  <2>6. SameHold(t, away)
    BY <1>1, <1>3, <2>2 DEF SameHold, TabOK, PageOK, PageHas, TabRecord
  <2> QED
    BY <1>2, <2>1, <2>2, <2>4, <2>5, <2>6, TabStepOK DEF TabOK
<1>4. CASE r.page \notin {"toArena", "toResult"}
  <2>1. r.page \in {"arena", "result"}
    BY <1>1, <1>4 DEF TabOK, PageOK, TabRecord
  <2>2. TabOK(t, lost)
    BY <1>1, <2>1, LostReadKeeps
  <2>3. SameHold(t, lost)
    BY <1>1 DEF SameHold, TabRecord
  <2>4. Put(t, lost)
    BY <1>4 DEF ReadNotFound
  <2> HIDE DEF lost
  <2> QED
    BY <1>2, <2>2, <2>3, <2>4, TabStepOK
<1> QED
  BY <1>3, <1>4

-----------------------------------------------------------------------------
(***************************************************************************)
(* Pages and the bid form                                                  *)
(***************************************************************************)
LEMMA LandKeeps ==
  ASSUME ArenaInv, NEW t \in Tabs, Land(t), UNCHANGED scene
  PROVE  ArenaInv'
<1> DEFINE r == tab[t]
           a == r.reads[1].arena
           fresh == [r EXCEPT !.reads = <<>>, !.shown = Screenful(a), !.behind = FALSE, !.inRoom = FALSE]
           result == describeAuctionResult(a)
<1>1. /\ TabOK(t, r) /\ r \in TabRecord /\ r.reads \in Seq(Request)
      /\ r.page \in {"toArena", "toResult"} /\ r.reads # <<>> /\ r.reads[1].step = "ready"
      /\ UNCHANGED <<roomVars, slipped, scene>>
  BY EveryTabOK DEF TabOK, PageOK, TabRecord, Land
<1>2. 1 \in DOMAIN r.reads /\ r.reads[1] \in Request
  BY <1>1
<1>3. a \in FullArena
  BY <1>1, <1>2 DEF Request
<1>4. /\ Screenful(a) \in Shown /\ Screenful(a).row = a.row /\ Screenful(a).winner = a.winner
      /\ a.row \in AuctionRow /\ a.wake \in NatOrNull /\ a.winner \in Nat
  BY <1>3 DEF Screenful, Shown, FullArena
<1>5. RowStands(Screenful(a)) /\ WinnerStands(Screenful(a))
  BY <1>1, <1>2, <1>4 DEF TabOK, ResultOK, ReadStands, RowStands, WinnerStands
<1>6. /\ r.link = "down" /\ ~r.held /\ ~r.joined /\ r.attempt = Null /\ r.sending = Null
      /\ r.confirmed = 0 /\ ~r.room /\ ~r.asks /\ r.minted \in Nat /\ r.conn = 0
  BY <1>1 DEF TabOK, PageOK, PageHas, TabRecord
<1>7. <<>> \in Seq(Request)
  BY EmptySeq
<1>8. /\ r.page = "toArena" => MadeBy(t) = {}
      /\ \A n \in MadeBy(t) : bids[n].clientRequestId[2] < r.minted
      /\ (r.page = "toResult" /\ MadeBy(t) # {}) => a.row.status \in Settled
  BY <1>1, <1>2 DEF TabOK, FormOK
<1>9. CASE r.page = "toArena"
  <2> DEFINE new == [fresh EXCEPT !.page = "arena", !.wakeAt = WakeAt(a),
                                  !.openedUnfinished = (result = Null)]
  <2>1. Put(t, new)
    BY <1>1, <1>9 DEF Land
  <2>2. WakeAt(a) \in NatOrNull
    <3>1. now \in Nat /\ MaxClock \in Nat
      BY ArenaAssumption DEF ArenaInv, ArenaTypeOK, RoomTyped
    <3>2. a.wake \in Nat => now + a.wake \in Nat
      BY <3>1
    <3> QED
      BY <1>4, <3>1, <3>2 DEF WakeAt, NatOrNull
  <2>3. (result = Null) \in BOOLEAN
    OBVIOUS
  <2> HIDE DEF result
  <2>4. /\ new \in TabRecord /\ new.page = "arena" /\ new.reads = <<>> /\ new.shown = Screenful(a)
        /\ new.link = "down" /\ ~new.held /\ ~new.joined /\ new.attempt = Null /\ new.sending = Null
        /\ new.confirmed = 0 /\ ~new.room /\ ~new.asks /\ new.minted = r.minted /\ new.conn = 0
    BY <1>1, <1>4, <1>6, <1>7, <2>2, <2>3 DEF TabRecord
  <2> HIDE DEF new
  <2>5. PageOK(new) /\ ResultOK(new) /\ WatchOK(new)
    BY <1>4, <1>5, <2>4 DEF PageOK, PageHas, ResultOK, WatchOK
  <2>6. FormOK(t, new)
    <3>1. Others(t, new) = {}
      BY <1>8, <1>9 DEF Others
    <3> QED
      BY <1>8, <1>9, <2>4, <3>1, FS_EmptySet DEF FormOK
  <2>7. SameHold(t, new)
    BY <1>1, <1>6, <1>9, <2>4 DEF SameHold, TabRecord
  <2> QED
    BY <1>1, <2>1, <2>4, <2>5, <2>6, <2>7, TabStepOK DEF TabOK
<1>10. CASE r.page = "toResult" /\ result # Null
  <2> DEFINE base == [fresh EXCEPT !.page = "result"]
  <2>1. Put(t, refresh(base))
    BY <1>1, <1>10 DEF Land
  <2>2. /\ base \in TabRecord /\ base.page = "result" /\ base.reads = <<>>
        /\ base.shown = Screenful(a)
        /\ base.link = "down" /\ ~base.held /\ ~base.joined /\ base.attempt = Null
        /\ base.sending = Null /\ base.confirmed = 0 /\ ~base.room /\ ~base.asks
        /\ base.minted = r.minted /\ base.conn = 0
    BY <1>1, <1>4, <1>6, <1>7 DEF TabRecord
  <2> HIDE DEF base
  <2>3. PageHas(base) /\ ResultOK(base)
    BY <1>4, <1>5, <2>2 DEF PageHas, ResultOK
  <2>4. FormOK(t, base)
    BY <1>8, <2>2 DEF FormOK, OnArena
  <2>5. TabOK(t, refresh(base))
    BY <2>2, <2>3, <2>4, RefreshKeeps
  <2>6. refresh(base) = [base EXCEPT !.reads = Append(base.reads, Ask(base))]
    BY <2>2, RefreshFacts
  <2>7. SameHold(t, refresh(base))
    BY <1>1, <1>6, <1>10, <2>2, <2>6 DEF SameHold, TabRecord
  <2> QED
    BY <1>1, <2>1, <2>5, <2>7, TabStepOK
<1>11. CASE r.page = "toResult" /\ result = Null
  <2> DEFINE base == [fresh EXCEPT !.page = "toArena", !.shown = Null]
  <2>1. Put(t, refresh(base))
    BY <1>1, <1>11 DEF Land
  <2>2. /\ base \in TabRecord /\ base.page = "toArena" /\ base.reads = <<>> /\ base.shown = Null
        /\ base.link = "down" /\ ~base.held /\ ~base.joined /\ base.attempt = Null
        /\ base.sending = Null /\ base.confirmed = 0 /\ ~base.room /\ ~base.asks
        /\ base.minted = r.minted /\ base.conn = 0
    BY <1>1, <1>4, <1>6, <1>7 DEF TabRecord
  <2>3. a.row.status \notin Settled
    <3>1. SUFFICES ASSUME a.row.status \in Settled PROVE FALSE
      OBVIOUS
    <3>2. result \in [outcome : Settled, soldPrice : NatOrNull, winner : Nat]
      BY <1>4, <3>1 DEF describeAuctionResult, AuctionRow
    <3> QED
      BY <1>11, <3>2, ArenaAssumption
  <2>4. MadeBy(t) = {}
    BY <1>8, <1>11, <2>3
  <2> HIDE DEF base
  <2>5. PageHas(base) /\ ResultOK(base)
    BY <2>2 DEF PageHas, ResultOK
  <2>6. FormOK(t, base)
    BY <2>2, <2>4 DEF FormOK, OnArena
  <2>7. TabOK(t, refresh(base))
    BY <2>2, <2>5, <2>6, RefreshKeeps
  <2>8. refresh(base) = [base EXCEPT !.reads = Append(base.reads, Ask(base))]
    BY <2>2, RefreshFacts
  <2>9. SameHold(t, refresh(base))
    BY <1>1, <1>6, <1>11, <2>2, <2>8 DEF SameHold, TabRecord
  <2> QED
    BY <1>1, <2>1, <2>7, <2>9, TabStepOK
<1> QED
  BY <1>1, <1>9, <1>10, <1>11

\* A tab's bids are finitely many, each under an id of that tab.
LEMMA MadeByFacts ==
  ASSUME ArenaInv, NEW t \in Tabs
  PROVE  /\ IsFiniteSet(MadeBy(t))
         /\ \A n \in MadeBy(t) : bids[n].clientRequestId \in Attempts
                                 /\ bids[n].clientRequestId[1] = t
         /\ \A n \in MadeBy(t) : bids[n].clientRequestId # Null
<1>1. bids \in Seq(Bid) /\ Len(bids) \in Nat /\ DOMAIN bids = 1 .. Len(bids)
  BY DEF ArenaInv, ArenaTypeOK, RoomTyped
<1>2. IsFiniteSet(DOMAIN bids)
  BY <1>1, FS_Interval
<1>3. IsFiniteSet(MadeBy(t))
  BY <1>2, FS_Subset DEF MadeBy
<1>4. ASSUME NEW n \in MadeBy(t)
      PROVE  bids[n].clientRequestId \in Attempts /\ bids[n].clientRequestId[1] = t
  <2>1. bids[n] \in Bid /\ bids[n].clientRequestId[1] = t
    BY <1>1 DEF MadeBy
  <2> QED
    BY <2>1 DEF Bid, Attempts
<1> QED
  BY <1>3, <1>4, ArenaAssumption DEF Attempts

LEMMA PressKeeps ==
  ASSUME ArenaInv, NEW t \in Tabs, NEW amount \in quickAmounts(tab[t].shown), Press(t, amount),
         UNCHANGED scene
  PROVE  ArenaInv'
<1> DEFINE r == tab[t]
           id == Attempt(t)
           n == IF id = r.attempt THEN r.minted ELSE r.minted + 1
           bid == [id |-> id, amount |-> amount, answer |-> Null]
           new == [r EXCEPT !.sending = bid, !.attempt = id, !.minted = n]
<1>1. /\ TabOK(t, r) /\ r \in TabRecord /\ r.page = "arena" /\ r.minted \in Nat
      /\ r.attempt \in Attempts \cup {Null} /\ r.shown \in Shown
      /\ UNCHANGED <<roomVars, slipped, scene>> /\ Put(t, new)
  BY EveryTabOK DEF TabOK, PageOK, PageHas, TabRecord, Press, OnArena
<1>2. amount \in Nat
  <2>1. r.shown.row \in AuctionRow
    BY <1>1 DEF Shown
  <2> QED
    BY <2>1 DEF quickAmounts, calculateMinimumBid, AuctionRow
<1>3. /\ id \in Attempts /\ id[1] = t /\ id[2] < n /\ n \in Nat /\ id # Null
      /\ n >= r.minted
      /\ \A m \in MadeBy(t) : bids[m].clientRequestId # id <=> bids[m].clientRequestId # r.attempt
  <2>1. \A m \in MadeBy(t) : /\ bids[m].clientRequestId[2] < r.minted
                             /\ bids[m].clientRequestId \in Attempts
                             /\ bids[m].clientRequestId # Null
    BY <1>1, MadeByFacts DEF TabOK, FormOK
  <2>2. CASE r.attempt = Null
    <3>1. id = <<t, r.minted>> /\ id \in Attempts /\ id # Null
      BY <1>1, <2>2, ArenaAssumption DEF Attempt, Attempts
    <3> HIDE DEF id
    <3>2. n = r.minted + 1
      BY <2>2, <3>1
    <3> QED
      BY <1>1, <2>1, <2>2, <3>1, <3>2 DEF Attempts
  <2>3. CASE r.attempt # Null
    <3>1. id = r.attempt /\ n = r.minted
      BY <2>3 DEF Attempt
    <3> HIDE DEF id
    <3> QED
      BY <1>1, <2>3, <3>1 DEF TabOK, FormOK
  <2> QED
    BY <2>2, <2>3
<1> HIDE DEF id, n
<1>4. bid \in Sending /\ bid.id = id
  BY <1>2, <1>3 DEF Sending
<1> HIDE DEF bid
<1>5. /\ new \in TabRecord /\ new.sending = bid /\ new.attempt = id /\ new.minted = n
      /\ new.page = r.page /\ new.shown = r.shown /\ new.link = r.link /\ new.held = r.held
      /\ new.joined = r.joined /\ new.reads = r.reads
      /\ new.confirmed = r.confirmed /\ new.room = r.room /\ new.asks = r.asks
      /\ new.inRoom = r.inRoom /\ new.behind = r.behind /\ new.conn = r.conn
  BY <1>1, <1>3, <1>4 DEF TabRecord
<1> HIDE DEF new
<1>6. PageOK(new) /\ ResultOK(new) /\ WatchOK(new)
  BY <1>1, <1>5 DEF TabOK, PageOK, PageHas, ResultOK, WatchOK, Newest
<1>7. FormOK(t, new)
  <2>1. Others(t, new) = Others(t, r)
    BY <1>3, <1>5 DEF Others
  <2>2. \A m \in MadeBy(t) : bids[m].clientRequestId[2] < n
    <3>1. \A m \in MadeBy(t) : bids[m].clientRequestId[2] \in Nat
      BY MadeByFacts DEF Attempts
    <3> QED
      BY <1>1, <1>3, <3>1 DEF TabOK, FormOK
  <2> QED
    BY <1>1, <1>3, <1>4, <1>5, <2>1, <2>2 DEF TabOK, FormOK, OnArena
<1>8. SameHold(t, new)
  BY <1>5 DEF SameHold
<1> QED
  BY <1>1, <1>5, <1>6, <1>7, <1>8, TabStepOK DEF TabOK

\* The form goes back to rest; its attempt stays.
LEMMA RestsKeeps ==
  ASSUME NEW t \in Tabs, TabOK(t, tab[t])
  PROVE  LET new == [tab[t] EXCEPT !.sending = Null]
         IN  TabOK(t, new) /\ SameHold(t, new)
<1> DEFINE r == tab[t]
           new == [tab[t] EXCEPT !.sending = Null]
<1>1. r \in TabRecord
  BY DEF TabOK
<1>2. /\ new \in TabRecord /\ new.sending = Null /\ new.attempt = r.attempt /\ new.minted = r.minted
      /\ new.page = r.page /\ new.shown = r.shown /\ new.link = r.link /\ new.held = r.held
      /\ new.joined = r.joined /\ new.reads = r.reads
      /\ new.confirmed = r.confirmed /\ new.room = r.room /\ new.asks = r.asks
      /\ new.inRoom = r.inRoom /\ new.behind = r.behind /\ new.conn = r.conn
  BY <1>1 DEF TabRecord
<1> HIDE DEF new
<1>3. PageOK(new) /\ ResultOK(new) /\ WatchOK(new)
  BY <1>2 DEF TabOK, PageOK, PageHas, ResultOK, WatchOK, Newest
<1>4. FormOK(t, new)
  BY <1>2 DEF TabOK, FormOK, OnArena, Others
<1>5. SameHold(t, new)
  BY <1>2 DEF SameHold
<1> QED
  BY <1>2, <1>3, <1>4, <1>5 DEF TabOK, new

LEMMA LoseBidKeeps ==
  ASSUME ArenaInv, NEW t \in Tabs, LoseBid(t), UNCHANGED scene
  PROVE  ArenaInv'
<1>1. TabOK(t, tab[t])
  BY EveryTabOK
<1>2. Put(t, [tab[t] EXCEPT !.sending = Null]) /\ UNCHANGED <<roomVars, slipped, scene>>
  BY DEF LoseBid
<1> QED
  BY <1>1, <1>2, RestsKeeps, TabStepOK

\* An attempt stands for one bid at most.
LEMMA AllButOne ==
  ASSUME ArenaInv, NEW t \in Tabs
  PROVE  /\ Cardinality(MadeBy(t)) \in Nat /\ Cardinality(Others(t, tab[t])) \in Nat
         /\ Cardinality(MadeBy(t)) <= Cardinality(Others(t, tab[t])) + 1
<1> DEFINE O == Others(t, tab[t])
           X == {n \in MadeBy(t) : bids[n].clientRequestId = tab[t].attempt}
<1>1. IsFiniteSet(MadeBy(t)) /\ O \subseteq MadeBy(t) /\ MadeBy(t) \subseteq O \cup X
  BY MadeByFacts DEF Others
<1>2. IsFiniteSet(O) /\ Cardinality(O) \in Nat /\ Cardinality(MadeBy(t)) \in Nat
  BY <1>1, FS_Subset, FS_CardinalityType
<1>3. \A m, n \in X : m = n
  BY DEF ArenaInv, Forms, OneEach
<1>4. CASE X = {}
  <2>1. MadeBy(t) = O
    BY <1>1, <1>4
  <2> QED
    BY <1>2, <2>1
<1>5. CASE X # {}
  <2>1. PICK n \in X : X = {n}
    BY <1>3, <1>5
  <2>2. MadeBy(t) \subseteq O \cup {n}
    BY <1>1, <2>1
  <2>3. /\ IsFiniteSet(O \cup {n})
        /\ Cardinality(O \cup {n}) = Cardinality(O) \/ Cardinality(O \cup {n}) = Cardinality(O) + 1
    BY <1>2, FS_AddElement
  <2>4. Cardinality(MadeBy(t)) <= Cardinality(O \cup {n})
    BY <2>2, <2>3, FS_Subset
  <2> QED
    BY <1>2, <2>3, <2>4
<1> QED
  BY <1>4, <1>5

\* A placed bid is confirmed: its attempt stood for one bid at most.
LEMMA BidAnsweredKeeps ==
  ASSUME ArenaInv, NEW t \in Tabs, OnArena(tab[t]), BidAnswered(t), UNCHANGED scene
  PROVE  ArenaInv'
<1> DEFINE r == tab[t]
           rest == [r EXCEPT !.sending = Null]
           base == [rest EXCEPT !.attempt = Null, !.confirmed = rest.confirmed + 1]
<1>1. /\ TabOK(t, r) /\ r \in TabRecord /\ r.page = "arena" /\ r.confirmed \in Nat
      /\ r.sending # Null /\ UNCHANGED <<roomVars, slipped, scene>>
      /\ Put(t, rest) \/ Put(t, refresh(base))
  BY EveryTabOK DEF TabOK, TabRecord, BidAnswered, OnArena
<1>2. CASE Put(t, rest)
  BY <1>1, <1>2, RestsKeeps, TabStepOK
<1>3. CASE Put(t, refresh(base))
  <2>1. TabOK(t, rest)
    BY <1>1, RestsKeeps
  <2>2. /\ base \in TabRecord /\ base.sending = Null /\ base.attempt = Null
        /\ base.confirmed = r.confirmed + 1 /\ base.minted = r.minted
        /\ base.page = r.page /\ base.shown = r.shown /\ base.link = r.link /\ base.held = r.held
        /\ base.joined = r.joined /\ base.reads = r.reads /\ base.room = r.room
        /\ base.asks = r.asks /\ base.inRoom = r.inRoom /\ base.behind = r.behind
        /\ base.conn = r.conn
    <3>1. rest \in TabRecord /\ rest.confirmed = r.confirmed /\ rest.confirmed + 1 \in Nat
      BY <1>1 DEF TabRecord
    <3> QED
      BY <1>1, <3>1 DEF TabRecord
  <2> HIDE DEF base
  <2>3. PageHas(base) /\ ResultOK(base)
    BY <1>1, <2>2 DEF TabOK, PageOK, PageHas, ResultOK
  <2>4. FormOK(t, base)
    <3>1. Others(t, base) \subseteq MadeBy(t) /\ IsFiniteSet(MadeBy(t))
      BY MadeByFacts DEF Others
    <3>2. Cardinality(Others(t, base)) <= r.confirmed + 1
      <4>1. Cardinality(Others(t, base)) <= Cardinality(MadeBy(t))
        BY <3>1, FS_Subset
      <4>2. Cardinality(Others(t, base)) \in Nat
        BY <3>1, FS_Subset, FS_CardinalityType
      <4>3. Cardinality(Others(t, r)) <= r.confirmed
        BY <1>1 DEF TabOK, FormOK, OnArena
      <4> QED
        BY <1>1, <4>1, <4>2, <4>3, AllButOne
    <3> QED
      BY <1>1, <2>2, <3>2 DEF TabOK, FormOK
  <2>5. TabOK(t, refresh(base))
    BY <1>1, <2>2, <2>3, <2>4, RefreshKeeps
  <2>6. refresh(base) = [base EXCEPT !.reads = Append(base.reads, Ask(base))]
    BY <2>2, RefreshFacts
  <2>7. SameHold(t, refresh(base))
    BY <2>2, <2>6 DEF SameHold, TabRecord
  <2> QED
    BY <1>1, <1>3, <2>5, <2>7, TabStepOK
<1> QED
  BY <1>1, <1>2, <1>3

-----------------------------------------------------------------------------
(***************************************************************************)
(* The auction and its bids                                                *)
(***************************************************************************)

\* The bid that leads is one of the bids: the last one outranks all.
LEMMA LeadFacts ==
  ASSUME ArenaInv PROVE LeadingBid(bids) \in 0 .. Len(bids)
<1>1. /\ bids \in Seq(Bid) /\ Len(bids) \in Nat /\ DOMAIN bids = 1 .. Len(bids)
      /\ \A i, j \in DOMAIN bids : i < j => bids[i].amount < bids[j].amount
  BY DEF ArenaInv, ArenaTypeOK, RoomTyped, Ledger
<1>2. CASE bids = <<>>
  BY <1>1, <1>2 DEF LeadingBid
<1>3. CASE bids # <<>>
  <2> DEFINE n == Len(bids)
  <2>1. n \in DOMAIN bids /\ n > 0
    BY <1>1, <1>3
  <2>2. \A j \in DOMAIN bids : bids[j].amount \in Nat /\ bids[j].sequenceNo \in Nat
    <3>1. \A j \in DOMAIN bids : bids[j] \in Bid
      BY <1>1
    <3> QED
      BY <3>1 DEF Bid
  <2>3. \A j \in DOMAIN bids : Outranks(bids[n], bids[j])
    <3> TAKE j \in DOMAIN bids
    <3>1. CASE j = n
      BY <2>1, <2>2, <3>1 DEF Outranks
    <3>2. CASE j # n
      BY <1>1, <2>1, <2>2, <3>2 DEF Outranks
    <3> QED
      BY <3>1, <3>2
  <2>4. LeadingBid(bids) \in DOMAIN bids
    BY <1>3, <2>1, <2>3 DEF LeadingBid
  <2> QED
    BY <1>1, <2>4
<1> QED
  BY <1>2, <1>3

LEMMA SettledRowFacts ==
  ASSUME ArenaInv, NEW n \in 0 .. Len(bids)
  PROVE  LET new == SettledRow(n)
         IN  /\ new \in AuctionRow /\ new.bidCount = row.bidCount
             /\ new.currentPrice = row.currentPrice
             /\ new.status = "SOLD" =>
                  new.winningBidId \in DOMAIN bids /\ new.soldPrice = bids[new.winningBidId].amount
<1>1. row \in AuctionRow /\ bids \in Seq(Bid)
  BY DEF ArenaInv, ArenaTypeOK, RoomTyped
<1>2. n # 0 => n \in DOMAIN bids /\ bids[n].amount \in Nat
  <2>1. n # 0 => n \in DOMAIN bids /\ bids[n] \in Bid
    BY <1>1
  <2> QED
    BY <2>1 DEF Bid
<1>3. n \in Nat /\ Null \in NatOrNull /\ Nat \subseteq NatOrNull
  BY <1>1 DEF NatOrNull
<1>4. CASE n # 0 /\ calculateReserveMet(bids[n].amount, row.reservePrice)
  BY <1>1, <1>2, <1>3, <1>4 DEF SettledRow, AuctionRow, PUBLIC_AUCTION_STATUSES
<1>5. CASE ~(n # 0 /\ calculateReserveMet(bids[n].amount, row.reservePrice))
  <2>1. SettledRow(n) = [row EXCEPT !.status = "UNSOLD", !.winningBidId = 0, !.soldPrice = Null]
    BY <1>5 DEF SettledRow
  <2>2. Null \in NatOrNull /\ 0 \in Nat /\ "UNSOLD" \in PUBLIC_AUCTION_STATUSES
    BY DEF NatOrNull, PUBLIC_AUCTION_STATUSES
  <2>3. SettledRow(n) \in AuctionRow
    BY <1>1, <2>1, <2>2 DEF AuctionRow
  <2>4. /\ SettledRow(n).status = "UNSOLD" /\ SettledRow(n).bidCount = row.bidCount
        /\ SettledRow(n).currentPrice = row.currentPrice
    BY <1>1, <2>1 DEF AuctionRow
  <2> QED
    BY <2>3, <2>4
<1> QED
  BY <1>4, <1>5

\* A new bid is higher than the last one, and is announced.
LEMMA RecordBidFacts ==
  ASSUME ArenaInv, NEW id \in (Tabs \cup {Outsider}) \X Nat, NEW amount \in Nat, NEW at \in Nat,
         Taken(amount, at), RecordBid(id, amount, at), settling' = settling
  PROVE  /\ row' \in AuctionRow /\ bids' \in Seq(Bid)
         /\ outbox' \in Seq(ROOM_EVENTS) /\ outbox' # <<>>
         /\ Ledger' /\ SaleStands' /\ row.status \notin Settled /\ row'.status \notin Settled
         /\ Len(bids') = Len(bids) + 1 /\ DOMAIN bids' = DOMAIN bids \cup {Len(bids) + 1}
         /\ Len(bids) + 1 \notin DOMAIN bids
         /\ bids'[Len(bids) + 1].clientRequestId = id
         /\ \A n \in DOMAIN bids : bids'[n] = bids[n]
<1> DEFINE b == [amount |-> amount, sequenceNo |-> Len(bids) + 1, clientRequestId |-> id]
           extends == calculateAntiSniping(row, at)
           n == Len(bids) + 1
<1>1. /\ row \in AuctionRow /\ bids \in Seq(Bid) /\ outbox \in Seq(ROOM_EVENTS) /\ Ledger
      /\ Len(bids) \in Nat /\ DOMAIN bids = 1 .. Len(bids)
  BY DEF ArenaInv, ArenaTypeOK, RoomTyped
<1>2. /\ row.bidCount \in Nat /\ row.startingPrice \in Nat /\ row.currentPrice \in Nat
      /\ row.minBidIncrement \in Nat \ {0} /\ row.currentEndAt \in Nat
      /\ row.extensionCount \in Nat
  BY <1>1 DEF AuctionRow
<1>3. b \in Bid /\ b.amount = amount /\ b.clientRequestId = id
  BY <1>1 DEF Bid
<1>4. bids' = Append(bids, b)
  BY DEF RecordBid
<1> HIDE DEF b
<1>5. /\ bids' \in Seq(Bid) /\ Len(bids') = n /\ DOMAIN bids' = DOMAIN bids \cup {n}
      /\ n \notin DOMAIN bids /\ bids'[n] = b /\ \A m \in DOMAIN bids : bids'[m] = bids[m]
  BY <1>1, <1>3, <1>4
<1> DEFINE end == IF extends THEN ExtendedEnd(row) ELSE row.currentEndAt
           count == IF extends THEN row.extensionCount + 1 ELSE row.extensionCount
           placed == row.bidCount + 1
<1>6. /\ row.status = "ACTIVE" /\ amount >= calculateMinimumBid(row)
      /\ row' = [row EXCEPT !.currentPrice = amount, !.bidCount = placed,
                             !.currentEndAt = end, !.extensionCount = count]
      /\ outbox' = outbox \o IF extends THEN <<"auction:bid", "auction:extension">>
                                        ELSE <<"auction:bid">>
  BY DEF Taken, RecordBid
<1>7. end \in Nat /\ count \in Nat /\ placed \in Nat /\ placed = row.bidCount + 1
  BY <1>2, RulesAssumption DEF ExtendedEnd
<1> HIDE DEF extends, end, count, placed
<1>8. row' \in AuctionRow /\ row'.status = "ACTIVE" /\ row'.bidCount = row.bidCount + 1
      /\ row'.currentPrice = amount
  BY <1>1, <1>6, <1>7 DEF AuctionRow
<1>9. outbox' \in Seq(ROOM_EVENTS) /\ outbox' # <<>>
  <2>1. /\ <<"auction:bid", "auction:extension">> \in Seq(ROOM_EVENTS)
        /\ <<"auction:bid">> \in Seq(ROOM_EVENTS)
    BY DEF ROOM_EVENTS
  <2> DEFINE more == IF extends THEN <<"auction:bid", "auction:extension">> ELSE <<"auction:bid">>
  <2>2. more \in Seq(ROOM_EVENTS) /\ Len(more) > 0
    BY <2>1
  <2>3. outbox' = outbox \o more
    BY <1>6
  <2> HIDE DEF more
  <2>4. outbox' \in Seq(ROOM_EVENTS) /\ Len(outbox') = Len(outbox) + Len(more)
    BY <1>1, <2>2, <2>3
  <2>5. Len(outbox') > 0
    BY <1>1, <2>2, <2>4
  <2> QED
    BY <2>4, <2>5
<1>10. Ledger'
  <2>1. bids # <<>> => amount > bids[Len(bids)].amount
    <3>1. ASSUME bids # <<>> PROVE row.bidCount # 0 /\ row.currentPrice = bids[Len(bids)].amount
      BY <1>1, <3>1 DEF Ledger
    <3> QED
      BY <1>2, <1>6, <3>1 DEF calculateMinimumBid
  <2>2. \A m \in DOMAIN bids : bids[m].amount \in Nat
    <3>1. \A m \in DOMAIN bids : bids[m] \in Bid
      BY <1>1
    <3> QED
      BY <3>1 DEF Bid
  <2>3. \A m \in DOMAIN bids : bids[m].amount < amount
    <3> TAKE m \in DOMAIN bids
    <3>1. bids # <<>> /\ Len(bids) \in DOMAIN bids /\ m <= Len(bids)
      BY <1>1
    <3>2. m = Len(bids) \/ bids[m].amount < bids[Len(bids)].amount
      BY <1>1, <3>1 DEF Ledger
    <3> QED
      BY <2>1, <2>2, <3>1, <3>2
  <2>4. \A i, j \in DOMAIN bids' : i < j => bids'[i].amount < bids'[j].amount
    <3> TAKE i, j \in DOMAIN bids'
    <3> HAVE i < j
    <3>1. i \in DOMAIN bids
      BY <1>1, <1>5
    <3>2. CASE j \in DOMAIN bids
      BY <1>1, <1>5, <3>1, <3>2 DEF Ledger
    <3>3. CASE j = n
      BY <1>3, <1>5, <2>3, <3>1, <3>3
    <3> QED
      BY <1>5, <3>2, <3>3
  <2> QED
    BY <1>1, <1>3, <1>5, <1>8, <2>4 DEF Ledger
<1> QED
  BY <1>3, <1>5, <1>6, <1>8, <1>9, <1>10 DEF Settled, SaleStands

-----------------------------------------------------------------------------
(***************************************************************************)
(* Steps of the server                                                     *)
(***************************************************************************)

\* What a tab shows and reads stays in order while the server moves, if what
\* moves is announced.
LEMMA KeptView ==
  ASSUME NEW r, ResultOK(r), WatchOK(r),
         row.status \in Settled => row' = row,
         outbox' = <<>> =>
           /\ outbox = <<>> /\ row' = row /\ bids' = bids
           /\ Cardinality(seats') = Cardinality(seats) \/ "count" \in slipped'
           /\ "count" \in slipped => "count" \in slipped'
  PROVE  ResultOK(r)' /\ WatchOK(r)'
<1>1. ResultOK(r)'
  BY DEF ResultOK, ReadStands, RowStands, WinnerStands
<1>2. WatchOK(r)'
  BY DEF WatchOK, ReadIsCurrent, CountStands, OnlyEditsMissed
<1> QED
  BY <1>1, <1>2

LEMMA KeptTab ==
  ASSUME NEW t \in Tabs, NEW r, TabOK(t, r),
         row.status \in Settled => row' = row,
         MadeBy(t)' = MadeBy(t), \A n \in MadeBy(t) : bids'[n] = bids[n],
         outbox' = <<>> =>
           /\ outbox = <<>> /\ row' = row /\ bids' = bids
           /\ Cardinality(seats') = Cardinality(seats) \/ "count" \in slipped'
           /\ "count" \in slipped => "count" \in slipped'
  PROVE  TabOK(t, r)'
<1>1. ResultOK(r)' /\ WatchOK(r)'
  BY KeptView DEF TabOK
<1>2. FormOK(t, r)'
  <2>1. Others(t, r)' = Others(t, r)
    BY DEF Others
  <2> QED
    BY <2>1 DEF TabOK, FormOK
<1> QED
  BY <1>1, <1>2 DEF TabOK

LEMMA KeptSeats ==
  ASSUME ArenaInv, \A x \in Tabs : SameHold(x, tab'[x]),
         UNCHANGED <<seats, seating, registry, ended, slipped>>
  PROVE  SeatsHeld'
<1> USE DEF ArenaInv
<1>1. /\ \A c \in seating : c.tab \in Tabs
      /\ \A c \in registry : c[1] \in Tabs
  BY DEF ArenaTypeOK, RoomTyped, CallRecord, Connections
<1>2. \A u : Holds(u) => Holds(u)'
  BY DEF Holds, SameHold
<1>3. \A u : Calls(u) => Calls(u)'
  BY <1>1 DEF Calls, SameHold
<1>4. \A u : Counted(u) => Counted(u)'
  BY DEF Counted
<1>5. \A c \in registry : Lives(c)' <=> Lives(c)
  BY <1>1 DEF Lives, SameHold
<1> QED
  BY <1>1, <1>2, <1>3, <1>4, <1>5 DEF SeatsHeld, SameHold

LEMMA WholeStep ==
  ASSUME RoomTyped', TabsTyped', \A t \in Tabs : TabOK(t, tab[t])', Ledger', SaleStands',
         OneEach', SeatsHeld'
  PROVE  ArenaInv'
BY DEF ArenaInv, ArenaTypeOK, Pages, ResultsStand, Forms, Watched, TabOK

\* The room moves, and no tab does.
LEMMA ServerStep ==
  ASSUME ArenaInv, UNCHANGED <<tab, slipped, scene, seats, seating, registry, joining, ended>>,
         row' \in AuctionRow, bids' \in Seq(Bid), now' \in Nat, settling' \in NatOrNull,
         outbox' \in Seq(ROOM_EVENTS), Ledger', SaleStands', OneEach',
         row.status \in Settled => row' = row,
         \A t \in Tabs : MadeBy(t)' = MadeBy(t) /\ \A n \in MadeBy(t) : bids'[n] = bids[n],
         outbox' = <<>> => outbox = <<>> /\ row' = row /\ bids' = bids
  PROVE  ArenaInv'
<1>1. RoomTyped' /\ TabsTyped'
  BY DEF ArenaInv, ArenaTypeOK, RoomTyped, TabsTyped
<1>2. ASSUME NEW t \in Tabs PROVE TabOK(t, tab[t])'
  <2> SUFFICES ASSUME NEW r, r = tab[t] PROVE TabOK(t, tab[t])'
    OBVIOUS
  <2>1. TabOK(t, r)
    BY EveryTabOK
  <2>2. TabOK(t, r)'
    BY <2>1, KeptTab
  <2> QED
    BY <2>2
<1>3. SeatsHeld'
  <2>1. \A x \in Tabs : SameHold(x, tab'[x])
    BY DEF SameHold
  <2> QED
    BY <2>1, KeptSeats
<1> QED
  BY <1>1, <1>2, <1>3, WholeStep

LEMMA TickKeeps ==
  ASSUME ArenaInv, Tick, UNCHANGED screenVars, UNCHANGED scene
  PROVE  ArenaInv'
<1>1. /\ UNCHANGED <<row, bids, settling, outbox>> /\ now' = now + 1
      /\ UNCHANGED <<tab, slipped, scene, seats, seating, registry, joining, ended>>
  BY DEF Tick, screenVars
<1>2. Ledger' /\ SaleStands' /\ OneEach' /\ \A t \in Tabs : MadeBy(t)' = MadeBy(t)
  BY <1>1 DEF ArenaInv, Ledger, ResultsStand, SaleStands, Forms, OneEach, MadeBy
<1>3. now' \in Nat
  BY <1>1 DEF ArenaInv, ArenaTypeOK, RoomTyped
<1> QED
  BY <1>1, <1>2, <1>3, ServerStep DEF ArenaInv, ArenaTypeOK, RoomTyped

\* A row rewritten by the server leaves the bids alone.
LEMMA RowStep ==
  ASSUME ArenaInv, UNCHANGED <<tab, slipped, scene, seats, seating, registry, joining, ended>>,
         UNCHANGED <<bids, now>>, settling' \in NatOrNull,
         settling' # Null => settling' \in 0 .. Len(bids),
         row' \in AuctionRow, row'.bidCount = row.bidCount, row'.currentPrice = row.currentPrice,
         row.status \in Settled => row' = row, SaleStands',
         \/ row' = row /\ outbox' = outbox
         \/ \E e \in ROOM_EVENTS : outbox' = Append(outbox, e)
  PROVE  ArenaInv'
<1>1. /\ bids \in Seq(Bid) /\ now \in Nat /\ outbox \in Seq(ROOM_EVENTS)
  BY DEF ArenaInv, ArenaTypeOK, RoomTyped
<1>2. Ledger' /\ OneEach' /\ \A t \in Tabs : MadeBy(t)' = MadeBy(t)
  BY DEF ArenaInv, Ledger, Forms, OneEach, MadeBy
<1>3. outbox' \in Seq(ROOM_EVENTS) /\ (outbox' = <<>> => outbox = <<>> /\ row' = row)
  BY SMTT(60), <1>1
<1> QED
  BY <1>1, <1>2, <1>3, ServerStep

LEMMA StartAuctionKeeps ==
  ASSUME ArenaInv, StartAuction, UNCHANGED screenVars, UNCHANGED scene
  PROVE  ArenaInv'
<1>1. /\ UNCHANGED <<tab, slipped, scene, seats, seating, registry, joining, ended>>
      /\ UNCHANGED <<bids, now, settling>> /\ row.status = "SCHEDULED"
      /\ row' = [row EXCEPT !.status = "ACTIVE"] /\ outbox' = Append(outbox, "auction:started")
  BY DEF StartAuction, screenVars
<1>2. row \in AuctionRow /\ settling \in NatOrNull /\ (settling # Null => settling \in 0 .. Len(bids))
  BY DEF ArenaInv, ArenaTypeOK, RoomTyped, Ledger
<1>3. /\ row' \in AuctionRow /\ row'.bidCount = row.bidCount
      /\ row'.currentPrice = row.currentPrice /\ row'.status = "ACTIVE"
  BY <1>1, <1>2 DEF AuctionRow, PUBLIC_AUCTION_STATUSES
<1>4. SaleStands' /\ row.status \notin Settled /\ "auction:started" \in ROOM_EVENTS
  BY <1>1, <1>3 DEF SaleStands, Settled, ROOM_EVENTS
<1> QED
  BY <1>1, <1>2, <1>3, <1>4, RowStep

LEMMA CancelAuctionKeeps ==
  ASSUME ArenaInv, CancelAuction, UNCHANGED screenVars, UNCHANGED scene
  PROVE  ArenaInv'
<1>1. /\ UNCHANGED <<tab, slipped, scene, seats, seating, registry, joining, ended>>
      /\ UNCHANGED <<bids, now, settling>> /\ row.status \in {"SCHEDULED", "ACTIVE"}
      /\ row' = [row EXCEPT !.status = "CANCELLED"] /\ outbox' = Append(outbox, "auction:cancelled")
  BY DEF CancelAuction, screenVars
<1>2. row \in AuctionRow /\ settling \in NatOrNull /\ (settling # Null => settling \in 0 .. Len(bids))
  BY DEF ArenaInv, ArenaTypeOK, RoomTyped, Ledger
<1>3. /\ row' \in AuctionRow /\ row'.bidCount = row.bidCount
      /\ row'.currentPrice = row.currentPrice /\ row'.status = "CANCELLED"
  BY <1>1, <1>2 DEF AuctionRow, PUBLIC_AUCTION_STATUSES
<1>4. SaleStands' /\ row.status \notin Settled /\ "auction:cancelled" \in ROOM_EVENTS
  BY <1>1, <1>3 DEF SaleStands, Settled, ROOM_EVENTS
<1> QED
  BY <1>1, <1>2, <1>3, <1>4, RowStep

\* What a tab has read before an edit is still all there was but for edits.
LEMMA EditedTab ==
  ASSUME NEW t \in Tabs, NEW r, TabOK(t, r), UNCHANGED <<bids, outbox, seats, slipped>>,
         row \in AuctionRow, row' \in AuctionRow, {row.status, row'.status} = {"SCHEDULED"},
         row'.edition = row.edition + 1
  PROVE  TabOK(t, r)'
<1>1. r \in TabRecord /\ PageOK(r) /\ ResultOK(r) /\ FormOK(t, r) /\ WatchOK(r)
  BY DEF TabOK
<1>2. row.status = "SCHEDULED" /\ row'.status = "SCHEDULED"
  OBVIOUS
<1>3. ASSUME NEW x \in AuctionRow, OnlyEditsMissed(x) PROVE OnlyEditsMissed(x)'
  <2>1. x.edition \in Nat /\ row.edition \in Nat /\ x.edition <= row.edition
    BY <1>3 DEF AuctionRow, OnlyEditsMissed
  <2>2. x.status = "SCHEDULED"
    BY <1>2, <1>3 DEF OnlyEditsMissed
  <2>3. x.edition < row'.edition
    BY <2>1
  <2> QED
    BY <1>2, <2>2, <2>3 DEF OnlyEditsMissed
<1>4. ResultOK(r)'
  BY <1>1, <1>2 DEF ResultOK, ReadStands, RowStands, WinnerStands, Settled, AuctionRow
<1>5. FormOK(t, r)'
  <2>1. MadeBy(t)' = MadeBy(t) /\ Others(t, r)' = Others(t, r)
    BY DEF MadeBy, Others
  <2> QED
    BY <1>1, <1>2, <2>1 DEF FormOK, Settled
<1>6. r.room => r.shown.row \in AuctionRow
  BY <1>1 DEF PageOK, PageHas, Shown, TabRecord
<1>7. r.reads # <<>> => Newest(r) \in Request
  BY <1>1 DEF TabRecord, Newest
<1>8. \A q \in Request : q.step # "asked" => q.arena.row \in AuctionRow
  BY DEF Request, HalfArena, FullArena
<1>9. WatchOK(r)'
  BY <1>1, <1>3, <1>6, <1>7, <1>8 DEF WatchOK, ReadIsCurrent, CountStands
<1> QED
  BY <1>1, <1>4, <1>5, <1>9 DEF TabOK

LEMMA EditKeeps ==
  ASSUME ArenaInv, NEW edit \in scene.bodies, updateOwnAuction(edit), UNCHANGED screenVars,
         UNCHANGED scene
  PROVE  ArenaInv'
<1>1. /\ UNCHANGED <<tab, slipped, scene, seats, seating, registry, joining, ended>>
      /\ UNCHANGED <<bids, now, settling, outbox>> /\ row.status = "SCHEDULED"
      /\ row' = [row EXCEPT !.startingPrice = edit.startingPrice,
                            !.minBidIncrement = edit.minBidIncrement,
                            !.reservePrice = edit.reservePrice,
                            !.scheduledStartAt = edit.scheduledStartAt,
                            !.currentEndAt = edit.currentEndAt, !.edition = @ + 1]
  BY DEF updateOwnAuction, screenVars
<1>2. row \in AuctionRow /\ edit \in AuctionEdit
  BY ArenaAssumption DEF ArenaInv, ArenaTypeOK, RoomTyped, TabsTyped
<1>3. /\ row' \in AuctionRow /\ row'.status = "SCHEDULED" /\ row'.edition = row.edition + 1
      /\ row'.bidCount = row.bidCount /\ row'.currentPrice = row.currentPrice
  <2>1. PICK p \in Nat, i \in Nat \ {0}, v \in NatOrNull, s \in Nat, e \in Nat, n \in Nat :
          /\ row' = [row EXCEPT !.startingPrice = p, !.minBidIncrement = i, !.reservePrice = v,
                               !.scheduledStartAt = s, !.currentEndAt = e, !.edition = n]
          /\ n = row.edition + 1
    <3>1. /\ edit.startingPrice \in Nat /\ edit.minBidIncrement \in Nat \ {0}
          /\ edit.reservePrice \in NatOrNull /\ edit.scheduledStartAt \in Nat
          /\ edit.currentEndAt \in Nat
      BY <1>2 DEF AuctionEdit
    <3>2. row.edition + 1 \in Nat
      BY <1>2 DEF AuctionRow
    <3> QED
      BY <1>1, <3>1, <3>2
  <2> QED
    BY ZenonT(60), <1>1, <1>2, <2>1 DEF AuctionRow
<1>4. RoomTyped' /\ TabsTyped'
  BY <1>1, <1>3 DEF ArenaInv, ArenaTypeOK, RoomTyped, TabsTyped
<1>5. Ledger' /\ SaleStands' /\ OneEach'
  BY <1>1, <1>3 DEF ArenaInv, Ledger, SaleStands, Forms, OneEach, MadeBy
<1>6. ASSUME NEW t \in Tabs PROVE TabOK(t, tab[t])' /\ SameHold(t, tab'[t])
  <2> SUFFICES ASSUME NEW r, r = tab[t] PROVE TabOK(t, tab[t])' /\ SameHold(t, tab'[t])
    OBVIOUS
  <2>1. TabOK(t, r)
    BY EveryTabOK
  <2>2. TabOK(t, r)'
    BY <1>1, <1>2, <1>3, <2>1, EditedTab
  <2> QED
    BY <1>1, <2>2 DEF SameHold
<1>7. SeatsHeld'
  BY <1>1, <1>6, KeptSeats
<1> QED
  BY <1>4, <1>5, <1>6, <1>7, WholeStep

LEMMA SettleDecideKeeps ==
  ASSUME ArenaInv, SettleDecide, UNCHANGED screenVars, UNCHANGED scene
  PROVE  ArenaInv'
<1>1. /\ UNCHANGED <<tab, slipped, scene, seats, seating, registry, joining, ended>>
      /\ UNCHANGED <<row, bids, now, outbox>> /\ settling' = LeadingBid(bids)
  BY DEF SettleDecide, screenVars
<1>2. settling' \in 0 .. Len(bids) /\ row \in AuctionRow /\ SaleStands
  BY <1>1, LeadFacts DEF ArenaInv, ArenaTypeOK, RoomTyped, ResultsStand
<1>3. settling' \in NatOrNull /\ SaleStands'
  BY <1>1, <1>2 DEF NatOrNull, SaleStands
<1> QED
  BY <1>1, <1>2, <1>3, RowStep

LEMMA SettleWriteKeeps ==
  ASSUME ArenaInv, SettleWrite, UNCHANGED screenVars, UNCHANGED scene
  PROVE  ArenaInv'
<1>1. /\ UNCHANGED <<tab, slipped, scene, seats, seating, registry, joining, ended>>
      /\ UNCHANGED <<bids, now>> /\ settling # Null /\ settling' = Null
      /\ IF row.status = "ACTIVE"
         THEN row' = SettledRow(settling) /\ outbox' = Append(outbox, "auction:ended")
         ELSE UNCHANGED <<row, outbox>>
  BY DEF SettleWrite, screenVars
<1>2. /\ settling \in 0 .. Len(bids) /\ row \in AuctionRow /\ SaleStands /\ settling' \in NatOrNull
      /\ "auction:ended" \in ROOM_EVENTS
  BY <1>1 DEF ArenaInv, ArenaTypeOK, RoomTyped, ResultsStand, Ledger, NatOrNull, ROOM_EVENTS
<1>3. CASE row.status = "ACTIVE"
  <2> DEFINE new == SettledRow(settling)
  <2>1. /\ new \in AuctionRow /\ new.bidCount = row.bidCount
        /\ new.currentPrice = row.currentPrice
        /\ new.status = "SOLD" =>
             new.winningBidId \in DOMAIN bids /\ new.soldPrice = bids[new.winningBidId].amount
    BY <1>2, SettledRowFacts
  <2>2. row' = new
    BY <1>1, <1>3
  <2> HIDE DEF new
  <2>3. SaleStands' /\ row.status \notin Settled
    BY <1>1, <1>3, <2>1, <2>2 DEF SaleStands, Settled
  <2> QED
    BY <1>1, <1>2, <1>3, <2>1, <2>2, <2>3, RowStep
<1>4. CASE row.status # "ACTIVE"
  <2>1. UNCHANGED <<row, outbox>> /\ SaleStands'
    BY <1>1, <1>2, <1>4 DEF SaleStands
  <2> QED
    BY <1>1, <1>2, <2>1, RowStep
<1> QED
  BY <1>3, <1>4

LEMMA MinimumType ==
  ASSUME NEW r \in AuctionRow PROVE calculateMinimumBid(r) \in Nat
<1>1. /\ r.bidCount \in Nat /\ r.startingPrice \in Nat /\ r.currentPrice \in Nat
      /\ r.minBidIncrement \in Nat
  BY DEF AuctionRow
<1> QED
  BY <1>1 DEF calculateMinimumBid

\* The Outsider's bids are no tab's.
LEMMA OutsideBidKeeps ==
  ASSUME ArenaInv, OutsideBid, UNCHANGED screenVars, UNCHANGED scene
  PROVE  ArenaInv'
<1> DEFINE id == <<Outsider, 0>>
           amount == calculateMinimumBid(row)
           n == Len(bids) + 1
<1>1. /\ UNCHANGED <<tab, slipped, scene, seats, seating, registry, joining, ended>>
      /\ UNCHANGED <<now, settling>>
      /\ \E t \in NotBefore(now) : Taken(amount, t) /\ RecordBid(id, amount, t)
  BY DEF OutsideBid, screenVars
<1>2. /\ row \in AuctionRow /\ now \in Nat /\ settling \in NatOrNull /\ OneEach
      /\ Outsider \notin Tabs
  BY ArenaAssumption DEF ArenaInv, ArenaTypeOK, RoomTyped, Forms
<1>3. amount \in Nat /\ id \in (Tabs \cup {Outsider}) \X Nat
  BY <1>2, MinimumType
<1>i. id[1] = Outsider
  OBVIOUS
<1>4. PICK t \in NotBefore(now) : Taken(amount, t) /\ RecordBid(id, amount, t)
  BY <1>1
<1>5. t \in Nat
  BY <1>2 DEF NotBefore
<1> HIDE DEF amount, id
<1>6. /\ row' \in AuctionRow /\ bids' \in Seq(Bid) /\ outbox' \in Seq(ROOM_EVENTS) /\ outbox' # <<>>
      /\ Ledger' /\ SaleStands' /\ row.status \notin Settled
      /\ DOMAIN bids' = DOMAIN bids \cup {n} /\ n \notin DOMAIN bids
      /\ bids'[n].clientRequestId = id /\ \A m \in DOMAIN bids : bids'[m] = bids[m]
  BY <1>1, <1>3, <1>4, <1>5, RecordBidFacts
<1> HIDE DEF n
<1>7. \A x \in Tabs : MadeBy(x)' = MadeBy(x)
  BY <1>2, <1>i, <1>6 DEF MadeBy
<1>8. OneEach'
  BY <1>2, <1>6, <1>7 DEF OneEach, MadeBy
<1> QED
  BY <1>1, <1>2, <1>6, <1>7, <1>8, ServerStep DEF MadeBy

\* The room and the tabs move, and nobody's seat does.
LEMMA RoomStep ==
  ASSUME ArenaInv, UNCHANGED <<slipped, scene, seats, seating, registry, joining, ended>>,
         row' \in AuctionRow, bids' \in Seq(Bid), now' \in Nat, settling' \in NatOrNull,
         outbox' \in Seq(ROOM_EVENTS), tab' \in [Tabs -> TabRecord],
         Ledger', SaleStands', OneEach', \A t \in Tabs : TabOK(t, tab[t])',
         \A t \in Tabs : SameHold(t, tab'[t])
  PROVE  ArenaInv'
<1>1. RoomTyped' /\ TabsTyped'
  BY DEF ArenaInv, ArenaTypeOK, RoomTyped, TabsTyped
<1>2. SeatsHeld'
  BY KeptSeats
<1> QED
  BY <1>1, <1>2, WholeStep

\* Everybody in the room asks again, so that what was announced will be seen.
LEMMA EmitKeeps ==
  ASSUME ArenaInv, emitToAuction, UNCHANGED scene
  PROVE  ArenaInv'
<1> DEFINE hears == {t \in Tabs : OnArena(tab[t]) /\ tab[t].room /\ Head(outbox) \in ROOM_EVENTS}
<1>1. /\ outbox # <<>> /\ outbox' = Tail(outbox)
      /\ tab' = [t \in Tabs |-> IF t \in hears THEN refresh(tab[t]) ELSE tab[t]]
      /\ UNCHANGED <<slipped, scene, seats, seating, registry, joining, ended>>
      /\ UNCHANGED <<row, bids, now, settling>>
  BY DEF emitToAuction
<1>2. /\ row \in AuctionRow /\ bids \in Seq(Bid) /\ now \in Nat /\ settling \in NatOrNull
      /\ outbox \in Seq(ROOM_EVENTS) /\ Ledger /\ SaleStands /\ OneEach
  BY DEF ArenaInv, ArenaTypeOK, RoomTyped, ResultsStand, Forms
<1>3. outbox' \in Seq(ROOM_EVENTS) /\ Head(outbox) \in ROOM_EVENTS
  BY <1>1, <1>2
<1>4. Ledger' /\ SaleStands' /\ OneEach' /\ \A t \in Tabs : MadeBy(t)' = MadeBy(t)
  BY <1>1, <1>2 DEF Ledger, SaleStands, OneEach, MadeBy
<1>5. ASSUME NEW t \in Tabs
      PROVE  tab'[t] \in TabRecord /\ TabOK(t, tab[t])' /\ SameHold(t, tab'[t])
  <2> SUFFICES ASSUME NEW r, r = tab[t]
               PROVE  tab'[t] \in TabRecord /\ TabOK(t, tab[t])' /\ SameHold(t, tab'[t])
    OBVIOUS
  <2>1. TabOK(t, r) /\ r \in TabRecord
    BY EveryTabOK DEF TabOK
  <2>2. ASSUME NEW s, TabOK(t, s), WatchOK(s)' PROVE TabOK(t, s)'
    <3>1. ResultOK(s)'
      BY <1>1, <2>2 DEF TabOK, ResultOK, ReadStands, RowStands, WinnerStands
    <3>2. FormOK(t, s)'
      <4>1. Others(t, s)' = Others(t, s)
        BY <1>1, <1>4 DEF Others
      <4> QED
        BY <1>1, <1>4, <2>2, <4>1 DEF TabOK, FormOK
    <3> QED
      BY <2>2, <3>1, <3>2 DEF TabOK
  <2>3. CASE t \in hears
    <3> SUFFICES ASSUME NEW s, s = refresh(r)
                 PROVE  s \in TabRecord /\ TabOK(t, s)' /\ SameHold(t, s)
      BY <1>1, <2>3
    <3>1. r.page = "arena" /\ r.room
      BY <2>3 DEF OnArena
    <3>2. TabOK(t, s)
      BY <2>1, <3>1, RefreshKeeps DEF TabOK, PageOK
    <3>3. /\ s = [r EXCEPT !.reads = Append(r.reads, Ask(r))] /\ s.reads # <<>>
          /\ Newest(s) = Ask(r) /\ s \in TabRecord
      BY <2>1, RefreshFacts
    <3>4. s.room = r.room /\ SameHold(t, s)
      BY <2>1, <3>3 DEF SameHold, TabRecord
    <3>5. Newest(s).step = "asked"
      BY <3>3 DEF Ask
    <3>6. WatchOK(s)'
      BY <3>1, <3>3, <3>4, <3>5 DEF WatchOK, ReadIsCurrent
    <3> QED
      BY <2>2, <3>2, <3>3, <3>4, <3>6
  <2>4. CASE t \notin hears
    <3>1. ~r.room
      BY <1>3, <2>1, <2>4 DEF TabOK, PageOK, PageHas, OnArena
    <3>2. WatchOK(r)'
      BY <2>1, <3>1 DEF TabOK, WatchOK
    <3>3. TabOK(t, r)'
      BY <2>1, <2>2, <3>2
    <3>4. tab'[t] = r
      BY <1>1, <2>4
    <3> QED
      BY <2>1, <3>3, <3>4 DEF SameHold
  <2> QED
    BY <2>3, <2>4
<1>6. tab' \in [Tabs -> TabRecord]
  BY <1>1, <1>5
<1> QED
  BY <1>1, <1>2, <1>3, <1>4, <1>5, <1>6, RoomStep

\* The auction a request reads is the auction as it is.
LEMMA FillKeeps ==
  ASSUME NEW t \in Tabs, NEW r, TabOK(t, r)', NEW i \in DOMAIN r.reads,
         r.reads[i].step = "asked", NEW a \in HalfArena, a.row = row', row' \in AuctionRow
  PROVE  TabOK(t, Filled(r, i, "auction", a))'
<1> SUFFICES ASSUME NEW s, s = Filled(r, i, "auction", a) PROVE TabOK(t, s)'
  OBVIOUS
<1>1. r \in TabRecord /\ PageOK(r) /\ ResultOK(r)' /\ FormOK(t, r)' /\ WatchOK(r)'
  BY DEF TabOK
<1>2. /\ s \in TabRecord /\ s = [r EXCEPT !.reads = s.reads]
      /\ s.reads # <<>> /\ Len(s.reads) = Len(r.reads) /\ DOMAIN s.reads = DOMAIN r.reads
      /\ s.reads[i].step = "auction" /\ s.reads[i].arena = a
      /\ s.reads[i].inRoom = r.reads[i].inRoom /\ s.reads[i].overtaken = r.reads[i].overtaken
      /\ \A j \in DOMAIN r.reads \ {i} : s.reads[j] = r.reads[j]
  BY <1>1, FilledFacts
<1>3. /\ s.page = r.page /\ s.shown = r.shown /\ s.link = r.link /\ s.held = r.held
      /\ s.joined = r.joined /\ s.attempt = r.attempt /\ s.sending = r.sending
      /\ s.confirmed = r.confirmed /\ s.room = r.room /\ s.asks = r.asks
      /\ s.minted = r.minted /\ s.inRoom = r.inRoom /\ s.behind = r.behind /\ s.conn = r.conn
  BY <1>1, <1>2 DEF TabRecord
<1>4. PageOK(s)
  BY <1>1, <1>2, <1>3 DEF PageOK, PageHas
<1>5. ResultOK(s)'
  <2>1. ReadStands(s.reads[i])'
    BY <1>2 DEF ReadStands, RowStands
  <2> QED
    BY <1>1, <1>2, <1>3, <2>1 DEF ResultOK
<1>6. FormOK(t, s)'
  <2>1. Others(t, s)' = Others(t, r)'
    BY <1>3 DEF Others
  <2> QED
    BY <1>1, <1>2, <1>3, <2>1 DEF FormOK, OnArena
<1>7. WatchOK(s)'
  <2>1. r.reads \in Seq(Request)
    BY <1>1 DEF TabRecord
  <2>2. Len(r.reads) \in DOMAIN r.reads
    BY <2>1
  <2>3. CASE i = Len(r.reads)
    BY SMTT(60), <1>1, <1>2, <1>3, <2>3 DEF WatchOK, Newest, ReadIsCurrent, OnlyEditsMissed
  <2>4. CASE i # Len(r.reads)
    <3>1. Newest(s) = Newest(r)
      BY <1>2, <2>2, <2>4 DEF Newest
    <3> QED
      BY <1>1, <1>2, <1>3, <3>1 DEF WatchOK
  <2> QED
    BY <2>3, <2>4
<1> QED
  BY <1>2, <1>4, <1>5, <1>6, <1>7 DEF TabOK

\* A due auction is settled by whoever reads it.
LEMMA FindFacts ==
  ASSUME ArenaInv, findPublicAuction
  PROVE  /\ row' \in AuctionRow /\ row'.bidCount = row.bidCount
         /\ row'.currentPrice = row.currentPrice
         /\ row.status \in Settled => row' = row
         /\ row'.status = "SOLD" =>
              row'.winningBidId \in DOMAIN bids /\ row'.soldPrice = bids[row'.winningBidId].amount
         /\ outbox' \in Seq(ROOM_EVENTS) /\ (outbox' = <<>> => outbox = <<>> /\ row' = row)
<1>1. row \in AuctionRow /\ outbox \in Seq(ROOM_EVENTS) /\ SaleStands
  BY DEF ArenaInv, ArenaTypeOK, RoomTyped, ResultsStand
<1>2. CASE /\ Due(row, now) /\ row' = SettledRow(LeadingBid(bids))
           /\ outbox' = Append(outbox, "auction:ended")
  <2>1. "auction:ended" \in ROOM_EVENTS /\ row.status \notin Settled
    BY <1>2 DEF ROOM_EVENTS, Due, Settled
  <2>2. outbox' \in Seq(ROOM_EVENTS) /\ outbox' # <<>>
    BY <1>1, <1>2, <2>1
  <2> QED
    BY <1>2, <2>1, <2>2, LeadFacts, SettledRowFacts
<1>3. CASE UNCHANGED <<row, outbox>>
  BY <1>1, <1>3 DEF SaleStands
<1> QED
  BY <1>2, <1>3 DEF findPublicAuction

LEMMA ReadAuctionKeeps ==
  ASSUME ArenaInv, NEW t \in Tabs, NEW i \in DOMAIN tab[t].reads, ReadAuction(t, i), UNCHANGED scene
  PROVE  ArenaInv'
<1> DEFINE a == [row |-> row', you |-> Signed(t)]
<1>1. /\ tab[t].reads[i].step = "asked" /\ findPublicAuction
      /\ Put(t, Filled(tab[t], i, "auction", a))
      /\ UNCHANGED <<slipped, scene, seats, seating, registry, joining, ended>>
      /\ UNCHANGED <<bids, now, settling>>
  BY DEF ReadAuction, WithRead, Filled
<1>2. /\ bids \in Seq(Bid) /\ now \in Nat /\ settling \in NatOrNull /\ Ledger /\ OneEach /\ TabsTyped
  BY DEF ArenaInv, ArenaTypeOK, RoomTyped, Forms
<1>3. /\ row' \in AuctionRow /\ row'.bidCount = row.bidCount
      /\ row'.currentPrice = row.currentPrice /\ (row.status \in Settled => row' = row)
      /\ row'.status = "SOLD" =>
           row'.winningBidId \in DOMAIN bids /\ row'.soldPrice = bids[row'.winningBidId].amount
      /\ outbox' \in Seq(ROOM_EVENTS) /\ (outbox' = <<>> => outbox = <<>> /\ row' = row)
  BY <1>1, FindFacts
<1>4. Ledger' /\ SaleStands' /\ OneEach' /\ \A x \in Tabs : MadeBy(x)' = MadeBy(x)
  BY <1>1, <1>2, <1>3 DEF Ledger, SaleStands, OneEach, MadeBy
<1>5. Signed(t) \in BOOLEAN
  BY DEF Signed
<1>6. a \in HalfArena /\ a.row = row'
  BY <1>3, <1>5 DEF HalfArena
<1> HIDE DEF a
<1>7. ASSUME NEW x \in Tabs, NEW r, r = tab[x] PROVE TabOK(x, r) /\ TabOK(x, r)'
  <2>1. TabOK(x, r)
    BY <1>7, EveryTabOK
  <2> QED
    BY <1>1, <1>3, <1>4, <2>1, KeptTab
<1>8. /\ tab'[t] = Filled(tab[t], i, "auction", a) /\ \A x \in Tabs \ {t} : tab'[x] = tab[x]
      /\ Filled(tab[t], i, "auction", a) \in TabRecord => tab' \in [Tabs -> TabRecord]
  BY <1>1, <1>2, PutFacts
<1>9. TabOK(t, tab[t])' /\ SameHold(t, tab'[t]) /\ tab'[t] \in TabRecord
  <2> SUFFICES ASSUME NEW r, r = tab[t], NEW s, s = Filled(r, i, "auction", a)
               PROVE  TabOK(t, s)' /\ SameHold(t, s) /\ s \in TabRecord
    BY <1>8
  <2>1. TabOK(t, r) /\ TabOK(t, r)' /\ r \in TabRecord
    BY <1>7 DEF TabOK
  <2>2. TabOK(t, s)'
    BY <1>1, <1>3, <1>6, <2>1, FillKeeps
  <2>3. s \in TabRecord /\ s = [r EXCEPT !.reads = s.reads]
    BY <1>6, <2>1, FilledFacts
  <2>4. SameHold(t, s)
    BY <2>1, <2>3 DEF SameHold, TabRecord
  <2> QED
    BY <2>2, <2>3, <2>4
<1>10. \A x \in Tabs : TabOK(x, tab[x])' /\ SameHold(x, tab'[x])
  BY <1>7, <1>8, <1>9 DEF SameHold
<1> QED
  BY <1>1, <1>2, <1>3, <1>4, <1>8, <1>9, <1>10, RoomStep

\* Only the answer to the form's bid changes.
LEMMA AnsweredFacts ==
  ASSUME NEW r \in TabRecord, r.sending # Null, NEW answer \in {"placed", "refused"}
  PROVE  LET s == [r EXCEPT !.sending.answer = answer]
         IN  /\ s \in TabRecord /\ s.sending.id = r.sending.id
             /\ s.page = r.page /\ s.shown = r.shown /\ s.link = r.link /\ s.held = r.held
             /\ s.joined = r.joined /\ s.reads = r.reads /\ s.attempt = r.attempt
             /\ s.confirmed = r.confirmed /\ s.room = r.room /\ s.asks = r.asks
             /\ s.minted = r.minted /\ s.inRoom = r.inRoom /\ s.behind = r.behind
             /\ s.conn = r.conn
<1> DEFINE x == [r.sending EXCEPT !.answer = answer]
           s == [r EXCEPT !.sending = x]
<1>1. r.sending \in Sending
  BY DEF TabRecord
<1>2. x \in Sending /\ x.id = r.sending.id
  BY <1>1 DEF Sending
<1>4. [r EXCEPT !.sending.answer = answer] = s
  BY DEF TabRecord
<1> HIDE DEF x
<1> QED
  BY <1>2, <1>4 DEF TabRecord

\* At most one bid more, the first under this id.
OneMore(id) ==
  /\ \A m \in DOMAIN bids : m \in DOMAIN bids' /\ bids'[m] = bids[m]
  /\ \A m \in DOMAIN bids' \ DOMAIN bids :
       /\ bids'[m].clientRequestId = id /\ RecordedUnder(id) = {}
       /\ DOMAIN bids' = DOMAIN bids \cup {m}

\* A bid recorded under the form's attempt is the attempt's first and only one.
LEMMA PlaceBidKeeps ==
  ASSUME ArenaInv, NEW t \in Tabs, OnArena(tab[t]), PlaceBid(t), UNCHANGED scene
  PROVE  ArenaInv'
<1> SUFFICES ASSUME NEW r, r = tab[t] PROVE ArenaInv'
  OBVIOUS
<1> DEFINE bid == r.sending
           Say(answer) == [r EXCEPT !.sending.answer = answer]
<1>1. /\ TabOK(t, r) /\ r \in TabRecord /\ r.page = "arena" /\ bid # Null /\ bid \in Sending
      /\ UNCHANGED <<slipped, scene, seats, seating, registry, joining, ended>>
      /\ UNCHANGED <<now, settling>>
  BY EveryTabOK DEF TabOK, TabRecord, PlaceBid, OnArena
<1>2. /\ row \in AuctionRow /\ bids \in Seq(Bid) /\ now \in Nat /\ settling \in NatOrNull
      /\ outbox \in Seq(ROOM_EVENTS) /\ Ledger /\ SaleStands /\ OneEach /\ TabsTyped
  BY DEF ArenaInv, ArenaTypeOK, RoomTyped, ResultsStand, Forms
<1>3. /\ bid.id = r.attempt /\ r.attempt \in Attempts /\ r.attempt[1] = t
      /\ r.attempt[2] < r.minted /\ bid.amount \in Nat
  BY <1>1 DEF TabOK, FormOK, TabRecord, Sending
<1>4. PICK answer \in {"placed", "refused"} :
        /\ Put(t, Say(answer))
        /\ \/ UNCHANGED <<row, bids, outbox>>
           \/ /\ RecordedUnder(bid.id) = {}
              /\ \E at \in NotBefore(now) : Taken(bid.amount, at) /\ RecordBid(bid.id, bid.amount, at)
  BY <1>1 DEF PlaceBid
<1> DEFINE s == Say(answer)
<1>5. /\ s \in TabRecord /\ s.sending.id = r.sending.id
      /\ s.page = r.page /\ s.shown = r.shown /\ s.link = r.link /\ s.held = r.held
      /\ s.joined = r.joined /\ s.reads = r.reads /\ s.attempt = r.attempt
      /\ s.confirmed = r.confirmed /\ s.room = r.room /\ s.asks = r.asks
      /\ s.minted = r.minted /\ s.inRoom = r.inRoom /\ s.behind = r.behind
      /\ s.conn = r.conn
  BY ZenonT(60), <1>1, AnsweredFacts
<1>6. /\ tab' \in [Tabs -> TabRecord] /\ tab'[t] = s
      /\ \A x \in Tabs \ {t} : tab'[x] = tab[x]
  BY <1>2, <1>4, <1>5, PutFacts
<1> HIDE DEF Say
<1>7. /\ row' \in AuctionRow /\ bids' \in Seq(Bid) /\ outbox' \in Seq(ROOM_EVENTS)
      /\ Ledger' /\ SaleStands' /\ (row.status \in Settled => row' = row)
      /\ outbox' = <<>> => outbox = <<>> /\ row' = row /\ bids' = bids
      /\ OneMore(r.attempt)
  <2>1. CASE UNCHANGED <<row, bids, outbox>>
    BY <1>1, <1>2, <2>1 DEF Ledger, SaleStands, OneMore
  <2>2. CASE /\ RecordedUnder(bid.id) = {}
             /\ \E at \in NotBefore(now) : Taken(bid.amount, at) /\ RecordBid(bid.id, bid.amount, at)
    <3>0. PICK at \in NotBefore(now) : Taken(bid.amount, at) /\ RecordBid(bid.id, bid.amount, at)
      BY <2>2
    <3>1. at \in Nat /\ bid.id \in (Tabs \cup {Outsider}) \X Nat
      BY <1>2, <1>3 DEF NotBefore, Attempts
    <3>2. /\ row' \in AuctionRow /\ bids' \in Seq(Bid)
          /\ outbox' \in Seq(ROOM_EVENTS) /\ outbox' # <<>>
          /\ Ledger' /\ SaleStands' /\ row.status \notin Settled
          /\ DOMAIN bids' = DOMAIN bids \cup {Len(bids) + 1}
          /\ bids'[Len(bids) + 1].clientRequestId = bid.id
          /\ \A n \in DOMAIN bids : bids'[n] = bids[n]
      BY <1>1, <1>3, <3>0, <3>1, RecordBidFacts
    <3>3. OneMore(r.attempt)
      BY <1>3, <2>2, <3>2 DEF OneMore
    <3> QED
      BY <3>2, <3>3
  <2> QED
    BY <1>4, <2>1, <2>2
<1> HIDE DEF s, bid
<1>o. /\ \A m \in DOMAIN bids : m \in DOMAIN bids' /\ bids'[m] = bids[m]
      /\ \A m \in DOMAIN bids' \ DOMAIN bids :
           /\ bids'[m].clientRequestId = r.attempt /\ RecordedUnder(r.attempt) = {}
           /\ DOMAIN bids' = DOMAIN bids \cup {m} /\ bids'[m].clientRequestId[1] = t
  BY <1>3, <1>7 DEF OneMore
<1>8. /\ \A x \in Tabs \ {t} : MadeBy(x)' = MadeBy(x)
      /\ \A x \in Tabs : MadeBy(x) \subseteq DOMAIN bids
  <2>1. ASSUME NEW x \in Tabs \ {t} PROVE MadeBy(x)' = MadeBy(x)
    <3>1. \A m \in DOMAIN bids' : bids'[m].clientRequestId[1] = x => m \in DOMAIN bids
      BY <1>o
    <3> QED
      BY <1>o, <3>1 DEF MadeBy
  <2>2. \A x \in Tabs : MadeBy(x) \subseteq DOMAIN bids
    BY DEF MadeBy
  <2> QED
    BY <2>1, <2>2
<1>9. /\ MadeBy(t) \subseteq MadeBy(t)'
      /\ \A m \in MadeBy(t)' : \/ m \in MadeBy(t) /\ bids'[m] = bids[m]
                               \/ m \notin MadeBy(t) /\ bids'[m].clientRequestId = r.attempt
      /\ \A m \in MadeBy(t)' : m \notin MadeBy(t) =>
           /\ RecordedUnder(r.attempt) = {} /\ MadeBy(t)' = MadeBy(t) \cup {m}
  <2>1. MadeBy(t) \subseteq MadeBy(t)'
    BY <1>o DEF MadeBy
  <2>2. \A m \in MadeBy(t)' : m \in DOMAIN bids => m \in MadeBy(t) /\ bids'[m] = bids[m]
    BY <1>o DEF MadeBy
  <2>3. ASSUME NEW m \in MadeBy(t)', m \notin DOMAIN bids
        PROVE  /\ m \notin MadeBy(t) /\ bids'[m].clientRequestId = r.attempt
               /\ RecordedUnder(r.attempt) = {} /\ MadeBy(t)' = MadeBy(t) \cup {m}
    <3>1. m \in DOMAIN bids' \ DOMAIN bids
      BY <2>3 DEF MadeBy
    <3>2. DOMAIN bids' = DOMAIN bids \cup {m}
      BY <1>o, <3>1
    <3>3. MadeBy(t)' \subseteq DOMAIN bids \cup {m}
      BY <3>2 DEF MadeBy
    <3>4. m \notin MadeBy(t)
      BY <1>8, <2>3
    <3>5. MadeBy(t)' \subseteq MadeBy(t) \cup {m}
      BY <2>2, <3>3
    <3> QED
      BY <1>o, <2>1, <2>3, <3>1, <3>4, <3>5
  <2>4. \A m \in MadeBy(t)' : m \notin MadeBy(t) => m \notin DOMAIN bids
    BY <2>2
  <2>5. \A m \in MadeBy(t)' : \/ m \in MadeBy(t) /\ bids'[m] = bids[m]
                              \/ m \notin MadeBy(t) /\ bids'[m].clientRequestId = r.attempt
    BY <2>2, <2>3
  <2>6. \A m \in MadeBy(t)' : m \notin MadeBy(t) =>
           /\ RecordedUnder(r.attempt) = {} /\ MadeBy(t)' = MadeBy(t) \cup {m}
    BY <2>3, <2>4
  <2> QED
    BY <2>1, <2>5, <2>6
<1>10. OneEach'
  <2> SUFFICES ASSUME NEW x \in Tabs, NEW m \in MadeBy(x)', NEW n \in MadeBy(x)',
                      bids'[m].clientRequestId = bids'[n].clientRequestId
               PROVE  m = n
    BY DEF OneEach
  <2>1. CASE x # t
    BY <1>2, <1>7, <1>8, <2>1 DEF OneEach, OneMore
  <2>2. CASE x = t
    <3>1. \A k \in MadeBy(t) : RecordedUnder(r.attempt) = {} => bids[k].clientRequestId # r.attempt
      BY DEF MadeBy, RecordedUnder
    <3> QED
      BY <1>2, <1>9, <2>2, <3>1 DEF OneEach
  <2> QED
    BY <2>1, <2>2
<1>11. TabOK(t, tab[t])' /\ SameHold(t, tab'[t])
  <2>1. ResultOK(r)' /\ WatchOK(r)'
    BY <1>1, <1>7, KeptView DEF TabOK
  <2>2. PageOK(s) /\ ResultOK(s)' /\ WatchOK(s)'
    BY <1>1, <1>5, <2>1 DEF TabOK, PageOK, PageHas, ResultOK, WatchOK, Newest, bid
  <2>3. Others(t, s)' = Others(t, r)
    BY <1>5, <1>9 DEF Others
  <2>4. FormOK(t, s)'
    <3>1. \A n \in MadeBy(t)' : bids'[n].clientRequestId[2] < r.minted
      BY <1>1, <1>3, <1>9 DEF TabOK, FormOK
    <3> QED
      BY <1>1, <1>3, <1>5, <2>3, <3>1 DEF TabOK, FormOK, OnArena, bid
  <2> QED
    BY <1>5, <1>6, <2>2, <2>4 DEF TabOK, SameHold
<1>12. ASSUME NEW x \in Tabs \ {t} PROVE TabOK(x, tab[x])' /\ SameHold(x, tab'[x])
  <2> SUFFICES ASSUME NEW q, q = tab[x] PROVE TabOK(x, tab[x])' /\ SameHold(x, tab'[x])
    OBVIOUS
  <2>1. TabOK(x, q) /\ tab'[x] = q
    BY <1>6, EveryTabOK
  <2>2. \A n \in MadeBy(x) : bids'[n] = bids[n]
    BY <1>7, <1>8 DEF OneMore
  <2>3. TabOK(x, q)'
    BY <1>1, <1>7, <1>8, <2>1, <2>2, KeptTab
  <2> QED
    BY <2>1, <2>3 DEF SameHold
<1>13. now' \in Nat /\ settling' \in NatOrNull
  BY <1>1, <1>2
<1> QED
  BY <1>1, <1>6, <1>7, <1>10, <1>11, <1>12, <1>13, RoomStep

-----------------------------------------------------------------------------
(***************************************************************************)
(* People coming and going                                                 *)
(***************************************************************************)

\* The auction stays as it is while people come and go.
LEMMA PeopleStep ==
  ASSUME ArenaInv, UNCHANGED <<scene, row, bids, now, settling>>, RoomTyped',
         tab' \in [Tabs -> TabRecord], \A t \in Tabs : TabOK(t, tab[t])', SeatsHeld'
  PROVE  ArenaInv'
<1>1. TabsTyped'
  BY DEF ArenaInv, ArenaTypeOK, TabsTyped
<1>2. Ledger' /\ SaleStands' /\ OneEach'
  BY DEF ArenaInv, Ledger, ResultsStand, SaleStands, Forms, OneEach, MadeBy
<1> QED
  BY <1>1, <1>2, WholeStep

\* Counting differently is announced, unless it went unnoticed.
Announced ==
  /\ slipped \subseteq slipped'
  /\ outbox' = <<>> =>
       outbox = <<>> /\ (Cardinality(seats') = Cardinality(seats) \/ "count" \in slipped')

LEMMA StillTab ==
  ASSUME NEW t \in Tabs, NEW r, TabOK(t, r), UNCHANGED <<row, bids>>, Announced
  PROVE  TabOK(t, r)'
<1>1. MadeBy(t)' = MadeBy(t)
  BY DEF MadeBy
<1> QED
  BY <1>1, KeptTab DEF Announced

\* A call under way changes what it has done, and nothing else.
LEMMA CallStep ==
  ASSUME ArenaInv, UNCHANGED <<tab, scene, row, bids, now, settling>>, RoomTyped', Announced,
         SeatsHeld'
  PROVE  ArenaInv'
<1>1. tab' \in [Tabs -> TabRecord]
  BY DEF ArenaInv, ArenaTypeOK, TabsTyped
<1>2. ASSUME NEW t \in Tabs PROVE TabOK(t, tab[t])'
  <2> SUFFICES ASSUME NEW r, r = tab[t] PROVE TabOK(t, tab[t])'
    OBVIOUS
  <2>1. TabOK(t, r)
    BY EveryTabOK
  <2>2. TabOK(t, r)'
    BY <2>1, StillTab
  <2> QED
    BY <2>2
<1> QED
  BY <1>1, <1>2, PeopleStep

\* The same call, further on.
SameCall(c, d) ==
  /\ d.op = c.op /\ d.tab = c.tab /\ d.user = c.user /\ d.left = c.left
  /\ d.op = "join" /\ (d.step # "joined" => c.step # "joined")

\* Replacing a call by itself keeps everybody's support.
LEMMA MovedCall ==
  ASSUME ArenaInv, UNCHANGED <<tab, registry, ended>>, slipped \subseteq slipped',
         NEW c \in seating, NEW d, SameCall(c, d), seating' = (seating \ {c}) \cup {d},
         \A u \in seats' : u \in seats \/ (u = c.user /\ c.step # "joined")
  PROVE  SeatsHeld'
<1> USE DEF ArenaInv
<1>1. /\ c.op = "join" /\ d.op = "join" /\ d.tab = c.tab /\ d.user = c.user /\ d.left = c.left
      /\ (d.step # "joined" => c.step # "joined") /\ c.user = OwnerOf[c.tab]
  BY DEF SameCall, ArenaTypeOK, RoomTyped
<1>2. \A u : (Holds(u) => Holds(u)') /\ (Counted(u) => Counted(u)')
  BY DEF Holds, Counted
<1>3. \A u : Calls(u) => Calls(u)'
  <2> SUFFICES ASSUME NEW u, NEW x \in seating, x.user = u, x.op = "leave" \/ tab[x.tab].page # "gone"
               PROVE  Calls(u)'
    BY DEF Calls
  <2>1. CASE x = c
    <3>1. d \in seating' /\ d.user = u /\ tab'[d.tab].page # "gone"
      BY <1>1, <2>1
    <3> QED
      BY <3>1 DEF Calls
  <2>2. CASE x # c
    BY <2>2 DEF Calls
  <2> QED
    BY <2>1, <2>2
<1>4. ASSUME NEW u \in seats' \ slipped' PROVE (Holds(u) \/ Calls(u) \/ Counted(u))'
  <2>1. CASE u \in seats
    BY <1>2, <1>3, <2>1 DEF SeatsHeld
  <2>2. CASE u = c.user /\ c.step # "joined"
    <3>1. tab[c.tab].page # "gone"
      BY <1>1, <2>2 DEF SeatsHeld
    <3>2. d \in seating' /\ d.user = u /\ tab'[d.tab].page # "gone"
      BY <1>1, <2>2, <3>1
    <3> QED
      BY <3>2 DEF Calls
  <2> QED
    BY <2>1, <2>2
<1>5. \A x \in registry' : Lives(x)' \/ (\E e \in ended' : e.conn = x) \/ OwnerOf[x[1]] \in slipped'
  BY DEF SeatsHeld, Lives
<1>6. \A x \in seating' : (x.op = "join" /\ ~x.left /\ tab'[x.tab].page # "gone") =>
         tab'[x.tab].held /\ ~tab'[x.tab].joined
  BY <1>1 DEF SeatsHeld
<1>7. \A x \in seating' : (x.op = "join" /\ tab'[x.tab].page = "gone" /\ x.step # "joined") =>
         x.user \in slipped'
  BY <1>1 DEF SeatsHeld
<1>8. \A x, y \in seating' :
         (x.op = "join" /\ y.op = "join" /\ ~x.left /\ ~y.left /\ x.tab = y.tab) => x = y
  BY <1>1 DEF SeatsHeld
<1> QED
  BY <1>4, <1>5, <1>6, <1>7, <1>8 DEF SeatsHeld

LEMMA JoinAskedKeeps ==
  ASSUME ArenaInv, NEW c \in seating, JoinAsked(c), UNCHANGED screenVars, UNCHANGED scene
  PROVE  ArenaInv'
<1> DEFINE step == IF row.status \in JOINABLE_AUCTION_STATUSES THEN "write" ELSE "refused"
           was == c.user \in seats
           d == [c EXCEPT !.step = step, !.was = was]
<1>1. /\ c.op = "join" /\ c.step = "ask" /\ seating' = (seating \ {c}) \cup {d}
      /\ UNCHANGED <<row, bids, now, settling, seats, registry, joining, ended, outbox, tab, slipped>>
  BY DEF JoinAsked, screenVars
<1>2. /\ RoomTyped /\ c \in CallRecord /\ step \in {"write", "refused"} /\ was \in BOOLEAN
  BY DEF ArenaInv, ArenaTypeOK, RoomTyped
<1> HIDE DEF step, was
<1>3. /\ d \in CallRecord /\ d.op = "join" /\ d.tab = c.tab /\ d.user = c.user /\ d.left = c.left
      /\ d.step = step
  BY <1>1, <1>2 DEF CallRecord
<1> HIDE DEF d
<1>4. RoomTyped'
  BY <1>1, <1>2, <1>3 DEF RoomTyped
<1>5. SameCall(c, d)
  BY <1>1, <1>3 DEF SameCall
<1>6. SeatsHeld'
  BY <1>1, <1>5, MovedCall
<1> QED
  BY <1>1, <1>4, <1>6, CallStep DEF Announced

LEMMA JoinWrittenForKeeps ==
  ASSUME ArenaInv, NEW c \in seating, JoinWrittenFor(c), UNCHANGED scene
  PROVE  ArenaInv'
<1> DEFINE d == [c EXCEPT !.step = "joined"]
<1>1. /\ c.op = "join" /\ c.step = "write" /\ seating' = (seating \ {c}) \cup {d}
      /\ seats' = seats \cup {c.user}
      /\ outbox' = IF c.was THEN outbox ELSE Append(outbox, "auction:presence")
      /\ slipped' = IF c.was /\ c.user \notin seats THEN slipped \cup {"count"} ELSE slipped
      /\ UNCHANGED <<row, bids, now, settling, registry, joining, ended, tab>>
  BY DEF JoinWrittenFor, JoinWritten
<1>2. /\ RoomTyped /\ c \in CallRecord /\ c.user = OwnerOf[c.tab] /\ IsFiniteSet(seats)
      /\ outbox \in Seq(ROOM_EVENTS) /\ "auction:presence" \in ROOM_EVENTS
  BY DEF ArenaInv, ArenaTypeOK, RoomTyped, ROOM_EVENTS
<1>3. /\ d \in CallRecord /\ d.op = "join" /\ d.tab = c.tab /\ d.user = c.user /\ d.left = c.left
      /\ d.step = "joined"
  BY <1>1, <1>2 DEF CallRecord
<1> HIDE DEF d
<1>4. IsFiniteSet(seats') /\ outbox' \in Seq(ROOM_EVENTS) /\ (~c.was => outbox' # <<>>)
  BY <1>1, <1>2, FS_AddElement
<1>5. RoomTyped'
  BY <1>1, <1>2, <1>3, <1>4 DEF RoomTyped
<1>6. Announced
  BY <1>1, <1>4 DEF Announced
<1>7. SeatsHeld'
  <2>1. SameCall(c, d)
    BY <1>1, <1>3 DEF SameCall
  <2> QED
    BY <1>1, <2>1, MovedCall
<1> QED
  BY <1>1, <1>5, <1>6, <1>7, CallStep

\* Whoever leaves needs no support any more.
LEMMA LeaveWrittenKeeps ==
  ASSUME ArenaInv, NEW c \in seating, LeaveWritten(c), UNCHANGED screenVars, UNCHANGED scene
  PROVE  ArenaInv'
<1>1. /\ c.op = "leave" /\ seats' = seats \ {c.user} /\ seating' = seating \ {c}
      /\ outbox' = IF c.user \in seats THEN Append(outbox, "auction:presence") ELSE outbox
      /\ UNCHANGED <<row, bids, now, settling, registry, joining, ended, tab, slipped>>
  BY DEF LeaveWritten, screenVars
<1>2. /\ RoomTyped /\ IsFiniteSet(seats) /\ outbox \in Seq(ROOM_EVENTS)
      /\ "auction:presence" \in ROOM_EVENTS
  BY DEF ArenaInv, ArenaTypeOK, RoomTyped, ROOM_EVENTS
<1>3. /\ IsFiniteSet(seats') /\ outbox' \in Seq(ROOM_EVENTS)
      /\ (c.user \in seats => outbox' # <<>>) /\ (c.user \notin seats => seats' = seats)
  BY <1>1, <1>2, FS_Subset
<1>4. RoomTyped'
  BY <1>1, <1>2, <1>3 DEF RoomTyped
<1>5. Announced
  BY <1>1, <1>3 DEF Announced
<1>6. SeatsHeld'
  <2>1. \A u : (Holds(u) => Holds(u)') /\ (Counted(u) => Counted(u)')
    BY <1>1 DEF Holds, Counted
  <2>2. \A u : u # c.user /\ Calls(u) => Calls(u)'
    BY <1>1 DEF Calls
  <2>3. \A u \in seats' \ slipped' : (Holds(u) \/ Calls(u) \/ Counted(u))'
    BY <1>1, <2>1, <2>2 DEF ArenaInv, SeatsHeld
  <2> QED
    BY <1>1, <2>3 DEF ArenaInv, SeatsHeld, Lives
<1> QED
  BY <1>1, <1>4, <1>5, <1>6, CallStep

LEMMA LoseJoinKeeps ==
  ASSUME ArenaInv, NEW c \in seating, LoseJoin(c), UNCHANGED scene
  PROVE  ArenaInv'
<1>1. /\ seating' = seating \ {c} /\ slipped' = slipped \cup {c.user}
      /\ UNCHANGED <<row, bids, now, settling, seats, registry, joining, ended, outbox, tab>>
  BY DEF LoseJoin
<1>2. RoomTyped
  BY DEF ArenaInv, ArenaTypeOK
<1>3. RoomTyped'
  BY <1>1, <1>2 DEF RoomTyped
<1>4. Announced
  BY <1>1 DEF Announced
<1>5. SeatsHeld'
  <2>1. \A u : (Holds(u) => Holds(u)') /\ (Counted(u) => Counted(u)')
    BY <1>1 DEF Holds, Counted
  <2>2. \A u : u # c.user /\ Calls(u) => Calls(u)'
    BY <1>1 DEF Calls
  <2>3. \A u \in seats' \ slipped' : (Holds(u) \/ Calls(u) \/ Counted(u))'
    BY <1>1, <2>1, <2>2 DEF ArenaInv, SeatsHeld
  <2> QED
    BY <1>1, <2>3 DEF ArenaInv, SeatsHeld, Lives
<1> QED
  BY <1>1, <1>3, <1>4, <1>5, CallStep

\* A connection that is counted is there, is about to be noticed gone, or was
\* registered too late.
LEMMA RegisterForKeeps ==
  ASSUME ArenaInv, NEW c \in joining, RegisterFor(c), UNCHANGED scene
  PROVE  ArenaInv'
<1>1. /\ joining' = joining \ {c}
      /\ registry' = IF OwnerOf[c[1]] = Null THEN registry ELSE registry \cup {c}
      /\ slipped' = IF /\ OwnerOf[c[1]] # Null
                       /\ ~(tab[c[1]].link = "up" /\ Conn(c[1]) = c)
                       /\ \A e \in ended : e.conn # c
                    THEN slipped \cup {OwnerOf[c[1]]} ELSE slipped
      /\ UNCHANGED <<row, bids, now, settling, seats, seating, ended, outbox, tab>>
  BY DEF RegisterFor, Register
<1>2. RoomTyped /\ c \in Connections
  BY DEF ArenaInv, ArenaTypeOK, RoomTyped
<1>3. RoomTyped'
  BY <1>1, <1>2 DEF RoomTyped
<1>4. Announced
  BY <1>1 DEF Announced
<1>5. SeatsHeld'
  <2>1. \A u : (Holds(u) => Holds(u)') /\ (Counted(u) => Counted(u)') /\ (Calls(u) => Calls(u)')
    BY <1>1 DEF Holds, Counted, Calls
  <2>2. \A u \in seats' \ slipped' : (Holds(u) \/ Calls(u) \/ Counted(u))'
    BY <1>1, <2>1 DEF ArenaInv, SeatsHeld
  <2>3. \A x \in registry : Lives(x)' \/ (\E e \in ended' : e.conn = x) \/ OwnerOf[x[1]] \in slipped'
    BY <1>1 DEF ArenaInv, SeatsHeld, Lives
  <2>4. OwnerOf[c[1]] # Null =>
           Lives(c)' \/ (\E e \in ended' : e.conn = c) \/ OwnerOf[c[1]] \in slipped'
    BY <1>1, <1>2 DEF Lives, Conn, Connections
  <2>5. \A x \in registry' : Lives(x)' \/ (\E e \in ended' : e.conn = x) \/ OwnerOf[x[1]] \in slipped'
    BY <1>1, <2>3, <2>4
  <2> QED
    BY <1>1, <2>2, <2>5 DEF ArenaInv, SeatsHeld
<1> QED
  BY <1>1, <1>3, <1>4, <1>5, CallStep

\* The last connection of somebody lets them go, or slips.
LEMMA DisconnectForKeeps ==
  ASSUME ArenaInv, NEW e \in ended, DisconnectFor(e), UNCHANGED scene
  PROVE  ArenaInv'
<1> DEFINE who == releaseSocket(e.conn)
           calls == IF e.left THEN {} ELSE {Call("leave", e.conn[1], u) : u \in who}
<1>1. /\ ended' = ended \ {e} /\ registry' = registry \ {e.conn}
      /\ seating' = seating \cup calls
      /\ slipped' = IF e.left THEN slipped \cup who ELSE slipped
      /\ UNCHANGED <<row, bids, now, settling, seats, joining, outbox, tab>>
  BY DEF DisconnectFor, handleDisconnect
<1>2. RoomTyped /\ e.conn \in Connections /\ e.conn[1] \in Tabs /\ e.left \in BOOLEAN
  BY DEF ArenaInv, ArenaTypeOK, RoomTyped, Goodbye, Connections
<1>3. \A u \in who : u = OwnerOf[e.conn[1]]
  BY DEF releaseSocket
<1>4. \A d \in calls : /\ d \in CallRecord /\ d.op = "leave" /\ d.step = "ask" /\ d.user \in who
                       /\ d.user = OwnerOf[d.tab]
  <2> SUFFICES ASSUME NEW u \in who
               PROVE  LET d == Call("leave", e.conn[1], u)
                      IN  /\ d \in CallRecord /\ d.op = "leave" /\ d.step = "ask" /\ d.user \in who
                          /\ d.user = OwnerOf[d.tab]
    OBVIOUS
  <2>1. u = OwnerOf[e.conn[1]]
    BY <1>3
  <2> HIDE DEF who
  <2> QED
    BY <1>2, <2>1 DEF Call, CallRecord
<1>5. ~e.left => \A u \in who : \E d \in calls : d.user = u /\ d.op = "leave"
  <2> SUFFICES ASSUME ~e.left, NEW u \in who PROVE \E d \in calls : d.user = u /\ d.op = "leave"
    OBVIOUS
  <2>1. Call("leave", e.conn[1], u) \in calls
    OBVIOUS
  <2>2. Call("leave", e.conn[1], u).user = u /\ Call("leave", e.conn[1], u).op = "leave"
    BY DEF Call
  <2> QED
    BY <2>1, <2>2
<1> HIDE DEF calls
<1>6. RoomTyped'
  BY <1>1, <1>2, <1>4 DEF RoomTyped
<1>7. Announced
  BY <1>1 DEF Announced
<1>8. SeatsHeld'
  <2>1. \A u : (Holds(u) => Holds(u)') /\ (Calls(u) => Calls(u)')
    BY <1>1 DEF Holds, Calls
  <2>2. ASSUME NEW u, Counted(u), u \notin slipped' PROVE Counted(u)' \/ Calls(u)'
    <3>1. CASE \E c \in registry : OwnerOf[c[1]] = u /\ c # e.conn
      BY <1>1, <3>1 DEF Counted
    <3>2. CASE \A c \in registry : OwnerOf[c[1]] = u => c = e.conn
      <4>1. e.conn \in registry /\ ConnectionsOf(u, registry) = {e.conn} /\ OwnerOf[e.conn[1]] = u
        BY <2>2, <3>2 DEF Counted, ConnectionsOf
      <4>2. u \in who
        BY <4>1 DEF releaseSocket
      <4>3. ~e.left
        BY <1>1, <2>2, <4>2
      <4> QED
        BY <1>1, <1>5, <4>2, <4>3 DEF Calls
    <3> QED
      BY <3>1, <3>2
  <2>3. \A u \in seats' \ slipped' : (Holds(u) \/ Calls(u) \/ Counted(u))'
    BY <1>1, <2>1, <2>2 DEF ArenaInv, SeatsHeld
  <2>4. \A x \in registry' : Lives(x)' \/ (\E f \in ended' : f.conn = x) \/ OwnerOf[x[1]] \in slipped'
    BY <1>1 DEF ArenaInv, SeatsHeld, Lives
  <2> QED
    BY <1>1, <1>4, <2>3, <2>4 DEF ArenaInv, SeatsHeld
<1> QED
  BY <1>1, <1>6, <1>7, <1>8, CallStep

-----------------------------------------------------------------------------
(***************************************************************************)
(* Sockets                                                                 *)
(***************************************************************************)

\* The socket of one tab moves, and what rests on it otherwise stays: its
\* connection is gone for good once it is noticed.
LEMMA SocketStep ==
  ASSUME ArenaInv, NEW t \in Tabs, NEW r \in TabRecord, Put(t, r), TabOK(t, r),
         UNCHANGED <<scene, row, bids, now, settling, seats, seating, registry, outbox, slipped>>,
         joining' \subseteq Connections, ended' \subseteq Goodbye, ended \subseteq ended',
         r.held = tab[t].held, r.joined = tab[t].joined, r.page = tab[t].page,
         (tab[t].link = "up" /\ ~(r.link = "up" /\ r.conn = tab[t].conn)) =>
            \E e \in ended' : e.conn = Conn(t)
  PROVE  ArenaInv'
<1>1. /\ tab'[t] = r /\ \A x \in Tabs \ {t} : tab'[x] = tab[x]
      /\ tab' \in [Tabs -> TabRecord]
  BY PutFacts DEF ArenaInv, ArenaTypeOK
<1>2. RoomTyped'
  BY DEF ArenaInv, ArenaTypeOK, RoomTyped
<1>3. ASSUME NEW x \in Tabs PROVE TabOK(x, tab[x])'
  <2> SUFFICES ASSUME NEW s, s = tab'[x] PROVE TabOK(x, tab[x])'
    OBVIOUS
  <2>1. TabOK(x, s)
    BY <1>1, EveryTabOK
  <2>2. TabOK(x, s)'
    BY <2>1, StillTab DEF Announced
  <2> QED
    BY <2>2
<1>4. SeatsHeld'
  <2>1. \A x \in Tabs : /\ tab'[x].held = tab[x].held /\ tab'[x].joined = tab[x].joined
                        /\ tab'[x].page = tab[x].page
    BY <1>1
  <2>2. /\ \A c \in seating : c.tab \in Tabs
        /\ \A c \in registry : c \in Connections /\ c[1] \in Tabs /\ c = <<c[1], c[2]>>
    BY DEF ArenaInv, ArenaTypeOK, RoomTyped, CallRecord, Connections
  <2>3. \A u : (Holds(u) => Holds(u)') /\ (Calls(u) => Calls(u)') /\ (Counted(u) => Counted(u)')
    BY <2>1, <2>2 DEF Holds, Calls, Counted
  <2>4. \A c \in registry : Lives(c) => Lives(c)' \/ \E e \in ended' : e.conn = c
    BY <1>1, <2>2 DEF Lives, Conn
  <2>5. \A u \in seats' \ slipped' : (Holds(u) \/ Calls(u) \/ Counted(u))'
    BY <2>3 DEF ArenaInv, SeatsHeld
  <2>6. \A c \in registry' : Lives(c)' \/ (\E e \in ended' : e.conn = c) \/ OwnerOf[c[1]] \in slipped'
    BY <2>4 DEF ArenaInv, SeatsHeld
  <2> QED
    BY <2>1, <2>2, <2>5, <2>6 DEF ArenaInv, SeatsHeld
<1> QED
  BY <1>1, <1>2, <1>3, <1>4, PeopleStep

LEMMA ConnectKeeps ==
  ASSUME ArenaInv, NEW t \in Tabs, Connect(t), UNCHANGED scene
  PROVE  ArenaInv'
<1> DEFINE r == tab[t]
           q == refresh(r)
           s == [q EXCEPT !.link = "up", !.conn = q.conn + 1, !.asks = TRUE]
<1>1. /\ TabOK(t, r) /\ r \in TabRecord /\ r.page = "arena" /\ r.link = "down"
      /\ Put(t, s) /\ UNCHANGED <<roomVars, losses, slipped>>
  BY EveryTabOK DEF TabOK, Connect, OnArena
<1>2. ~r.room /\ r.conn \in Nat
  BY <1>1 DEF TabOK, PageOK, PageHas, TabRecord
<1>3. TabOK(t, q) /\ q \in TabRecord
  BY <1>1, RefreshKeeps DEF TabOK, PageOK
<1>4. q = [r EXCEPT !.reads = Append(r.reads, Ask(r))] /\ q.reads # <<>> /\ Newest(q) = Ask(r)
  BY <1>1, RefreshFacts
<1>5. /\ q.page = "arena" /\ q.held = r.held /\ q.joined = r.joined /\ q.room = r.room
      /\ q.conn = r.conn
  BY <1>1, <1>4 DEF TabRecord
<1> HIDE DEF q
<1>6. q.conn + 1 \in Nat
  BY <1>2, <1>5
<1>7. /\ s \in TabRecord /\ s.link = "up" /\ s.asks
      /\ s.page = q.page /\ s.shown = q.shown /\ s.held = q.held /\ s.joined = q.joined
      /\ s.reads = q.reads /\ s.attempt = q.attempt /\ s.sending = q.sending
      /\ s.confirmed = q.confirmed /\ s.room = q.room /\ s.minted = q.minted
      /\ s.inRoom = q.inRoom /\ s.behind = q.behind
  BY <1>3, <1>6 DEF TabRecord
<1> HIDE DEF s
<1>8. PageOK(s)
  BY <1>2, <1>3, <1>5, <1>7 DEF TabOK, PageOK, PageHas
<1>9. ResultOK(s) /\ FormOK(t, s)
  BY <1>3, <1>7 DEF TabOK, ResultOK, FormOK, Others, OnArena
<1>10. WatchOK(s)
  <2>1. ~Newest(s).inRoom
    BY <1>2, <1>4, <1>7 DEF Newest, Ask
  <2> QED
    BY <1>2, <1>4, <1>5, <1>7, <2>1 DEF WatchOK
<1> QED
  <2>1. joining' \subseteq Connections /\ ended' \subseteq Goodbye /\ ended \subseteq ended'
    BY <1>1 DEF ArenaInv, ArenaTypeOK, RoomTyped, roomVars
  <2> QED
    BY <1>1, <1>5, <1>7, <1>8, <1>9, <1>10, <2>1, SocketStep DEF TabOK, roomVars

\* In the room at last: nothing asked for before counts as asked in it.
LEMMA JoinRoomKeeps ==
  ASSUME ArenaInv, NEW t \in Tabs, JoinRoom(t), UNCHANGED scene
  PROVE  ArenaInv'
<1> DEFINE r == tab[t]
           In(public) == [r EXCEPT !.asks = FALSE, !.room = public]
<1>1. /\ TabOK(t, r) /\ r \in TabRecord /\ r.asks
      /\ joining' = joining \cup {Conn(t)} \/ joining' = joining
      /\ UNCHANGED <<row, bids, now, settling, seats, seating, registry, ended, outbox, losses, slipped>>
  BY EveryTabOK DEF TabOK, JoinRoom
<1>2. ~r.room /\ r.link = "up" /\ r.page = "arena" /\ r.conn \in Nat
  BY <1>1 DEF TabOK, PageOK, PageHas, TabRecord
<1>3. Put(t, In(TRUE)) \/ Put(t, In(FALSE))
  <2> DEFINE public == row.status \in PUBLIC_AUCTION_STATUSES
  <2>1. Put(t, In(public))
    BY DEF JoinRoom
  <2>2. public = TRUE \/ public = FALSE
    OBVIOUS
  <2> HIDE DEF public
  <2> QED
    BY <2>1, <2>2
<1>4. PICK s : Put(t, s) /\ (s = In(TRUE) \/ s = In(FALSE))
  BY <1>3
<1>5. /\ s \in TabRecord /\ ~s.asks /\ s.link = r.link /\ s.conn = r.conn
      /\ s.page = r.page /\ s.shown = r.shown /\ s.held = r.held /\ s.joined = r.joined
      /\ s.reads = r.reads /\ s.attempt = r.attempt /\ s.sending = r.sending
      /\ s.confirmed = r.confirmed /\ s.minted = r.minted
      /\ s.inRoom = r.inRoom /\ s.behind = r.behind
  <2>1. CASE s = In(TRUE)
    BY <1>1, <2>1 DEF TabRecord
  <2>2. CASE s = In(FALSE)
    BY <1>1, <2>2 DEF TabRecord
  <2> QED
    BY <1>4, <2>1, <2>2
<1>6. PageOK(s)
  BY <1>1, <1>2, <1>5 DEF TabOK, PageOK, PageHas
<1>7. ResultOK(s) /\ FormOK(t, s)
  BY <1>1, <1>5 DEF TabOK, ResultOK, FormOK, Others, OnArena
<1>8. WatchOK(s)
  BY <1>1, <1>2, <1>5 DEF TabOK, WatchOK, Newest
<1>9. joining' \subseteq Connections
  BY <1>1, <1>2 DEF ArenaInv, ArenaTypeOK, RoomTyped, Conn, Connections
<1>10. ended' \subseteq Goodbye /\ ended \subseteq ended'
  BY <1>1 DEF ArenaInv, ArenaTypeOK, RoomTyped
<1> QED
  BY <1>1, <1>4, <1>5, <1>6, <1>7, <1>8, <1>9, <1>10, SocketStep DEF TabOK

LEMMA GoneFacts ==
  ASSUME ArenaInv, NEW t \in Tabs, NEW left \in BOOLEAN
  PROVE  /\ Gone(t, left) \subseteq Goodbye /\ ended \subseteq Gone(t, left)
         /\ tab[t].link = "up" => \E e \in Gone(t, left) : e.conn = Conn(t)
<1>1. tab[t].conn \in Nat /\ ended \subseteq Goodbye
  BY DEF ArenaInv, ArenaTypeOK, RoomTyped, TabsTyped, TabRecord
<1>2. [conn |-> Conn(t), left |-> left] \in Goodbye
  BY <1>1 DEF Goodbye, Connections, Conn
<1> QED
  BY <1>1, <1>2 DEF Gone

LEMMA DropSocketKeeps ==
  ASSUME ArenaInv, NEW t \in Tabs, DropSocket(t), UNCHANGED scene
  PROVE  ArenaInv'
<1> DEFINE r == tab[t]
           s == Offline(r)
<1>1. /\ TabOK(t, r) /\ r \in TabRecord /\ r.link = "up" /\ Put(t, s) /\ ended' = Gone(t, FALSE)
      /\ UNCHANGED <<row, bids, now, settling, seats, seating, registry, joining, outbox, slipped>>
  BY EveryTabOK DEF TabOK, DropSocket
<1>2. /\ s \in TabRecord /\ s.link = "down" /\ ~s.room /\ ~s.asks /\ s.conn = r.conn
      /\ s.page = r.page /\ s.shown = r.shown /\ s.held = r.held /\ s.joined = r.joined
      /\ s.reads = r.reads /\ s.attempt = r.attempt /\ s.sending = r.sending
      /\ s.confirmed = r.confirmed /\ s.minted = r.minted
  BY <1>1 DEF TabRecord, Offline
<1> HIDE DEF s
<1>3. PageOK(s)
  BY <1>1, <1>2 DEF TabOK, PageOK, PageHas
<1>4. ResultOK(s) /\ FormOK(t, s)
  BY <1>1, <1>2 DEF TabOK, ResultOK, FormOK, Others, OnArena
<1>5. WatchOK(s)
  BY <1>2 DEF WatchOK
<1>6. /\ ended' \subseteq Goodbye /\ ended \subseteq ended'
      /\ \E e \in ended' : e.conn = Conn(t)
  BY <1>1, GoneFacts
<1>7. joining' \subseteq Connections
  BY <1>1 DEF ArenaInv, ArenaTypeOK, RoomTyped
<1> QED
  BY <1>1, <1>2, <1>3, <1>4, <1>5, <1>6, <1>7, SocketStep DEF TabOK

-----------------------------------------------------------------------------
(***************************************************************************)
(* Holding a seat and letting it go                                        *)
(***************************************************************************)

\* What a tab does for its user's seat: hold it, or have a call under way.
Rests(t, r, calls) ==
  \/ r.held /\ r.joined
  \/ \E c \in calls : c.tab = t /\ (c.op = "leave" \/ r.page # "gone")

\* The calls under way, when only those of tab t have changed.
CallsOf(t, r) ==
  /\ seating' \subseteq CallRecord
  /\ \A c \in seating' : c.user = OwnerOf[c.tab] /\ (c.op = "leave" => c.step = "ask")
  /\ \A c \in seating : c.tab # t => c \in seating'
  /\ \A c \in seating' : c.tab # t => c \in seating
  /\ \A c \in seating' : c.tab = t /\ c.op = "join" =>
       IF r.page = "gone" THEN c.step # "joined" => c.user \in slipped'
       ELSE ~c.left => r.held /\ ~r.joined
  /\ \A c, d \in seating' :
       (c.tab = t /\ d.tab = t /\ c.op = "join" /\ d.op = "join" /\ ~c.left /\ ~d.left) => c = d

LEMMA TurnStep ==
  ASSUME ArenaInv, NEW t \in Tabs, NEW r \in TabRecord, Put(t, r), TabOK(t, r), CallsOf(t, r),
         UNCHANGED <<scene, row, bids, now, settling, seats, registry, joining, outbox>>,
         slipped \subseteq slipped', ended \subseteq ended', ended' \subseteq Goodbye,
         (tab[t].link = "up" /\ ~(r.link = "up" /\ r.conn = tab[t].conn)) =>
            \E e \in ended' : e.conn = Conn(t),
         \/ OwnerOf[t] \in slipped' \/ OwnerOf[t] \notin seats \/ Counted(OwnerOf[t])
         \/ Rests(t, tab[t], seating) => Rests(t, r, seating')
  PROVE  ArenaInv'
<1>1. /\ tab'[t] = r /\ \A x \in Tabs \ {t} : tab'[x] = tab[x]
      /\ tab' \in [Tabs -> TabRecord]
  BY PutFacts DEF ArenaInv, ArenaTypeOK
<1>2. RoomTyped'
  BY DEF ArenaInv, ArenaTypeOK, RoomTyped, CallsOf
<1>3. ASSUME NEW x \in Tabs PROVE TabOK(x, tab[x])'
  <2> SUFFICES ASSUME NEW s, s = tab'[x] PROVE TabOK(x, tab[x])'
    OBVIOUS
  <2>1. TabOK(x, s)
    BY <1>1, EveryTabOK
  <2>2. TabOK(x, s)'
    BY <2>1, StillTab DEF Announced
  <2> QED
    BY <2>2
<1>4. /\ \A c \in seating : c.tab \in Tabs /\ c.user = OwnerOf[c.tab]
      /\ \A c \in seating' : c.tab \in Tabs /\ c.user = OwnerOf[c.tab]
      /\ \A c \in registry : c \in Connections /\ c[1] \in Tabs /\ c = <<c[1], c[2]>>
  BY <1>2 DEF ArenaInv, ArenaTypeOK, RoomTyped, CallRecord, Connections
<1>5. ASSUME NEW u \in seats' \ slipped' PROVE (Holds(u) \/ Calls(u) \/ Counted(u))'
  <2>1. Holds(u) \/ Calls(u) \/ Counted(u)
    BY <1>5 DEF ArenaInv, SeatsHeld
  <2>2. Counted(u) => Counted(u)'
    BY DEF Counted
  <2>3. Rests(t, r, seating') /\ OwnerOf[t] = u => Holds(u)' \/ Calls(u)'
    BY <1>1, <1>4 DEF Rests, Holds, Calls
  <2>4. ASSUME NEW x \in Tabs, OwnerOf[x] = u, tab[x].held, tab[x].joined
        PROVE  (Holds(u) \/ Calls(u) \/ Counted(u))'
    <3>1. CASE x = t
      <4>1. Rests(t, tab[t], seating)
        BY <2>4, <3>1 DEF Rests
      <4> QED
        BY <1>5, <2>2, <2>3, <2>4, <3>1, <4>1
    <3>2. CASE x # t
      BY <1>1, <2>4, <3>2 DEF Holds
    <3> QED
      BY <3>1, <3>2
  <2>5. ASSUME NEW c \in seating, c.user = u, c.op = "leave" \/ tab[c.tab].page # "gone"
        PROVE  (Holds(u) \/ Calls(u) \/ Counted(u))'
    <3>1. CASE c.tab = t
      <4>1. Rests(t, tab[t], seating) /\ OwnerOf[t] = u
        BY <1>4, <2>5, <3>1 DEF Rests
      <4> QED
        BY <1>5, <2>2, <2>3, <4>1
    <3>2. CASE c.tab # t
      <4>1. c \in seating' /\ (c.op = "leave" \/ tab'[c.tab].page # "gone")
        BY <1>1, <1>4, <2>5, <3>2 DEF CallsOf
      <4> QED
        BY <2>5, <4>1 DEF Calls
    <3> QED
      BY <3>1, <3>2
  <2> QED
    BY <2>1, <2>2, <2>4, <2>5 DEF Holds, Calls
<1>6. ASSUME NEW c \in registry'
      PROVE  Lives(c)' \/ (\E e \in ended' : e.conn = c) \/ OwnerOf[c[1]] \in slipped'
  <2>1. Lives(c) => Lives(c)' \/ \E e \in ended' : e.conn = c
    BY <1>1, <1>4 DEF Lives, Conn
  <2> QED
    BY <2>1 DEF ArenaInv, SeatsHeld
<1>7. ASSUME NEW c \in seating', c.op = "join", ~c.left, tab'[c.tab].page # "gone"
      PROVE  tab'[c.tab].held /\ ~tab'[c.tab].joined
  <2>1. CASE c.tab = t
    BY <1>1, <1>7, <2>1 DEF CallsOf
  <2>2. CASE c.tab # t
    BY <1>1, <1>4, <1>7, <2>2 DEF CallsOf, ArenaInv, SeatsHeld
  <2> QED
    BY <2>1, <2>2
<1>8. ASSUME NEW c \in seating', c.op = "join", tab'[c.tab].page = "gone", c.step # "joined"
      PROVE  c.user \in slipped'
  <2>1. CASE c.tab = t
    BY <1>1, <1>8, <2>1 DEF CallsOf
  <2>2. CASE c.tab # t
    BY <1>1, <1>4, <1>8, <2>2 DEF CallsOf, ArenaInv, SeatsHeld
  <2> QED
    BY <2>1, <2>2
<1>9. ASSUME NEW c \in seating', NEW d \in seating', c.op = "join", d.op = "join",
             ~c.left, ~d.left, c.tab = d.tab
      PROVE  c = d
  <2>1. CASE c.tab = t
    BY <1>9, <2>1 DEF CallsOf
  <2>2. CASE c.tab # t
    BY <1>9, <2>2 DEF CallsOf, ArenaInv, SeatsHeld
  <2> QED
    BY <2>1, <2>2
<1>10. SeatsHeld'
  BY <1>5, <1>6, <1>7, <1>8, <1>9 DEF SeatsHeld
<1> QED
  BY <1>1, <1>2, <1>3, <1>10, PeopleStep

\* How the effect of useAuctionPresence leaves the calls of its tab.
LEMMA SeatingFacts ==
  ASSUME ArenaInv, NEW t \in Tabs, tab[t].page # "gone", NEW active \in BOOLEAN,
         seating' = Seating(t, active)
  PROVE  /\ seating' \subseteq CallRecord
         /\ \A c \in seating' : c.user = OwnerOf[c.tab] /\ (c.op = "leave" => c.step = "ask")
         /\ \A c \in seating : c.tab # t => c \in seating'
         /\ \A c \in seating' : c.tab # t => c \in seating
         /\ \A c \in seating' : (c.tab = t /\ c.op = "join" /\ ~c.left) =>
              active /\ (tab[t].held => ~tab[t].joined)
         /\ \A c, d \in seating' :
              (c.tab = t /\ d.tab = t /\ c.op = "join" /\ d.op = "join" /\ ~c.left /\ ~d.left) => c = d
         /\ (\E c \in seating : c.tab = t) => \E c \in seating' : c.tab = t
         /\ (tab[t].held /\ tab[t].joined /\ ~active) => \E c \in seating' : c.tab = t
<1> DEFINE r == tab[t]
           mine == {c \in seating : c.tab = t /\ c.op = "join"}
           marked == {[c EXCEPT !.left = TRUE] : c \in mine}
<1>1. /\ seating \subseteq CallRecord
      /\ \A c \in seating : c.user = OwnerOf[c.tab] /\ (c.op = "leave" => c.step = "ask")
      /\ \A c \in seating : (c.op = "join" /\ ~c.left /\ c.tab = t) => r.held /\ ~r.joined
      /\ \A c, d \in seating :
           (c.op = "join" /\ d.op = "join" /\ ~c.left /\ ~d.left /\ c.tab = d.tab) => c = d
  BY DEF ArenaInv, ArenaTypeOK, RoomTyped, SeatsHeld
<1>2. \A op \in {"join", "leave"} :
        LET c == Call(op, t, OwnerOf[t])
        IN  c \in CallRecord /\ c.op = op /\ c.tab = t /\ c.user = OwnerOf[t] /\ c.step = "ask" /\ ~c.left
  BY DEF Call, CallRecord
<1>3. CASE active /\ ~r.held
  <2> DEFINE c == Call("join", t, OwnerOf[t])
  <2>1. seating' = seating \cup {c}
    BY <1>3 DEF Seating
  <2>2. c \in CallRecord /\ c.op = "join" /\ c.tab = t /\ c.user = OwnerOf[t] /\ ~c.left
    BY <1>2
  <2> HIDE DEF c
  <2> QED
    BY <1>1, <1>3, <2>1, <2>2
<1>4. CASE ~active /\ r.held /\ r.joined
  <2> DEFINE c == Call("leave", t, OwnerOf[t])
  <2>1. seating' = seating \cup {c}
    BY <1>4 DEF Seating
  <2>2. c \in CallRecord /\ c.op = "leave" /\ c.tab = t /\ c.user = OwnerOf[t] /\ c.step = "ask"
    BY <1>2
  <2> HIDE DEF c
  <2> QED
    BY <1>1, <1>4, <2>1, <2>2
<1>5. CASE ~active /\ r.held /\ ~r.joined
  <2>1. seating' = (seating \ mine) \cup marked
    BY <1>5 DEF Seating
  <2>2. \A c \in marked : /\ c \in CallRecord /\ c.op = "join" /\ c.tab = t /\ c.left
                          /\ c.user = OwnerOf[t]
    <3> SUFFICES ASSUME NEW c \in mine
                 PROVE  LET d == [c EXCEPT !.left = TRUE]
                        IN  d \in CallRecord /\ d.op = "join" /\ d.tab = t /\ d.left /\ d.user = OwnerOf[t]
      OBVIOUS
    <3>1. c \in CallRecord /\ c.op = "join" /\ c.tab = t /\ c.user = OwnerOf[t]
      BY <1>1
    <3> QED
      BY <3>1 DEF CallRecord
  <2>3. mine # {} => marked # {}
    OBVIOUS
  <2>4. (\E c \in seating : c.tab = t) => \E c \in seating' : c.tab = t
    <3>1. CASE mine = {}
      BY <2>1, <3>1
    <3>2. CASE mine # {}
      BY <2>1, <2>2, <2>3, <3>2
    <3> QED
      BY <3>1, <3>2
  <2>5. \A c \in seating' : c \in marked \/ (c \in seating /\ c \notin mine)
    BY <2>1
  <2>6. \A c \in seating : c \in seating' \/ c \in mine
    BY <2>1
  <2>7. \A c \in mine : c \in seating /\ c.tab = t /\ c.op = "join"
    OBVIOUS
  <2>8. \A c \in seating : (c.tab = t /\ c.op = "join") => c \in mine
    OBVIOUS
  <2> HIDE DEF marked, mine
  <2> QED
    BY <1>1, <1>5, <2>2, <2>4, <2>5, <2>6, <2>7, <2>8
<1>6. CASE (active /\ r.held) \/ (~active /\ ~r.held)
  <2>1. seating' = seating
    BY <1>6 DEF Seating
  <2> QED
    BY <1>1, <1>6, <2>1
<1> QED
  <2>1. r.held \in BOOLEAN /\ r.joined \in BOOLEAN
    BY DEF ArenaInv, ArenaTypeOK, TabsTyped, TabRecord
  <2> QED
    BY <1>3, <1>4, <1>5, <1>6, <2>1

\* A new arena turns presence on or off, and the tab is in order.
Turning(q, active, w) == [Presence(q, active) EXCEPT !.wakeAt = w]

TurnedTo(q, s, active) ==
  /\ s \in TabRecord /\ s.page = "arena" /\ s.link = q.link /\ s.conn = q.conn
  /\ s.held = active /\ s.joined = IF active = q.held THEN q.joined ELSE FALSE

LEMMA TurnedFacts ==
  ASSUME NEW t \in Tabs, NEW q, TabOK(t, q), q.page = "arena", NEW a, NEW w \in NatOrNull,
         NEW s, s = Turning(q, Active(a), w)
  PROVE  TabOK(t, s) /\ TurnedTo(q, s, Active(a))
<1> DEFINE Turned(h, b) == [[q EXCEPT !.held = h, !.joined = b] EXCEPT !.wakeAt = w]
<1>1. q \in TabRecord /\ PageOK(q) /\ ResultOK(q) /\ FormOK(t, q) /\ WatchOK(q)
  BY DEF TabOK
<1>2. q.held \in BOOLEAN /\ q.joined \in BOOLEAN /\ (q.joined => q.held) /\ Active(a) \in BOOLEAN
  BY <1>1 DEF TabRecord, PageOK, PageHas, Active
<1>3. \/ Active(a) = TRUE /\ q.held = TRUE /\ s = Turned(TRUE, q.joined)
      \/ Active(a) = TRUE /\ q.held = FALSE /\ s = Turned(TRUE, FALSE)
      \/ Active(a) = FALSE /\ q.held = TRUE /\ s = Turned(FALSE, FALSE)
      \/ Active(a) = FALSE /\ q.held = FALSE /\ s = Turned(FALSE, q.joined)
  <2> DEFINE j == IF Active(a) = q.held THEN q.joined ELSE FALSE
  <2>1. s = Turned(Active(a), j)
    BY <1>1 DEF Turning, Presence, TabRecord
  <2> HIDE DEF Turned
  <2>2. CASE Active(a) = TRUE /\ q.held = TRUE
    BY <2>1, <2>2
  <2>3. CASE Active(a) = TRUE /\ q.held = FALSE
    BY <2>1, <2>3
  <2>4. CASE Active(a) = FALSE /\ q.held = TRUE
    BY <2>1, <2>4
  <2>5. CASE Active(a) = FALSE /\ q.held = FALSE
    BY <2>1, <2>5
  <2> QED
    BY <1>2, <2>2, <2>3, <2>4, <2>5
<1>4. PICK j \in {q.joined, FALSE} :
        /\ s = Turned(TRUE, j) \/ s = Turned(FALSE, j)
        /\ s.held = Active(a) /\ s.joined = j /\ (j => Active(a))
        /\ j = IF Active(a) = q.held THEN q.joined ELSE FALSE
  <2>1. \A h \in BOOLEAN : Turned(h, q.joined).joined = q.joined /\ Turned(h, FALSE).joined = FALSE
    BY <1>1 DEF TabRecord
  <2>2. /\ Turned(TRUE, q.joined).held = TRUE /\ Turned(TRUE, FALSE).held = TRUE
        /\ Turned(FALSE, q.joined).held = FALSE /\ Turned(FALSE, FALSE).held = FALSE
    BY <1>1 DEF TabRecord
  <2> HIDE DEF Turned
  <2> QED
    BY <1>2, <1>3, <2>1, <2>2
<1>5. /\ s \in TabRecord
      /\ s.page = q.page /\ s.shown = q.shown /\ s.link = q.link /\ s.conn = q.conn
      /\ s.reads = q.reads /\ s.attempt = q.attempt /\ s.sending = q.sending
      /\ s.confirmed = q.confirmed /\ s.room = q.room /\ s.asks = q.asks /\ s.minted = q.minted
      /\ s.inRoom = q.inRoom /\ s.behind = q.behind
  <2>1. j \in BOOLEAN
    BY <1>2
  <2>2. CASE s = Turned(TRUE, j)
    BY <1>1, <2>1, <2>2 DEF TabRecord
  <2>3. CASE s = Turned(FALSE, j)
    BY <1>1, <2>1, <2>3 DEF TabRecord
  <2> QED
    BY <1>4, <2>2, <2>3
<1>6. PageOK(s)
  BY <1>1, <1>4, <1>5 DEF PageOK, PageHas
<1>7. ResultOK(s) /\ FormOK(t, s) /\ WatchOK(s)
  BY <1>1, <1>5 DEF ResultOK, FormOK, Others, OnArena, WatchOK, Newest
<1> QED
  BY <1>4, <1>5, <1>6, <1>7 DEF TabOK, TurnedTo

LEMMA ShowKeeps ==
  ASSUME ArenaInv, NEW t \in Tabs, NEW i \in DOMAIN tab[t].reads, Show(t, i), UNCHANGED scene
  PROVE  ArenaInv'
<1> DEFINE r == tab[t]
<1>a. PICK a : a = r.reads[i].arena
  OBVIOUS
<1>q. PICK q : q = Arrived(t, i)
  OBVIOUS
<1>w. PICK w : w = WakeAt(a)
  OBVIOUS
<1>1. /\ TabOK(t, r) /\ r \in TabRecord /\ r.page = "arena" /\ r.reads[i].step = "ready"
      /\ UNCHANGED <<row, bids, now, settling, seats, registry, joining, ended, outbox, losses, slipped>>
  BY EveryTabOK DEF TabOK, Show, OnArena
<1>2. /\ TabOK(t, q) /\ a \in FullArena
      /\ q = [r EXCEPT !.shown = q.shown, !.reads = q.reads, !.inRoom = q.inRoom, !.behind = q.behind]
  BY <1>1, <1>a, <1>q, ArrivedKeeps
<1>3. q.page = "arena" /\ q.held = r.held /\ q.joined = r.joined /\ q.link = r.link /\ q.conn = r.conn
  BY <1>1, <1>2 DEF TabRecord
<1>4. w \in NatOrNull
  <2>1. a.wake \in NatOrNull /\ now \in Nat /\ MaxClock \in Nat
    BY <1>2, ArenaAssumption DEF FullArena, ArenaInv, ArenaTypeOK, RoomTyped
  <2> QED
    BY <1>w, <2>1 DEF WakeAt, NatOrNull
<1>5. /\ Put(t, Turning(q, Active(a), w)) /\ seating' = Seating(t, Active(a))
      /\ Active(a) \in BOOLEAN
  BY <1>a, <1>q, <1>w DEF Show, Turning, Active
<1>6. PICK s : s = Turning(q, Active(a), w)
  OBVIOUS
<1>7. /\ TabOK(t, s) /\ s \in TabRecord /\ s.page = "arena" /\ s.link = q.link
      /\ s.conn = q.conn /\ s.held = Active(a)
      /\ s.joined = IF Active(a) = q.held THEN q.joined ELSE FALSE
  <2>1. TabOK(t, s) /\ TurnedTo(q, s, Active(a))
    BY <1>2, <1>3, <1>4, <1>6, TurnedFacts
  <2> QED
    BY <2>1 DEF TurnedTo
<1>8. /\ seating' \subseteq CallRecord
      /\ \A c \in seating' : c.user = OwnerOf[c.tab] /\ (c.op = "leave" => c.step = "ask")
      /\ \A c \in seating : c.tab # t => c \in seating'
      /\ \A c \in seating' : c.tab # t => c \in seating
      /\ \A c \in seating' : (c.tab = t /\ c.op = "join" /\ ~c.left) =>
           Active(a) /\ (r.held => ~r.joined)
      /\ \A c, d \in seating' :
           (c.tab = t /\ d.tab = t /\ c.op = "join" /\ d.op = "join" /\ ~c.left /\ ~d.left) => c = d
      /\ (\E c \in seating : c.tab = t) => \E c \in seating' : c.tab = t
      /\ (r.held /\ r.joined /\ ~Active(a)) => \E c \in seating' : c.tab = t
  BY <1>1, <1>5, SeatingFacts
<1>9. r.held \in BOOLEAN /\ r.joined \in BOOLEAN
  BY <1>1 DEF TabRecord
<1>10. CallsOf(t, s)
  BY <1>3, <1>7, <1>8, <1>9 DEF CallsOf
<1>11. Rests(t, r, seating) => Rests(t, s, seating')
  BY <1>3, <1>7, <1>8, <1>9 DEF Rests
<1>12. Put(t, s) /\ ended' \subseteq Goodbye
  BY <1>1, <1>5, <1>6 DEF ArenaInv, ArenaTypeOK, RoomTyped
<1> QED
  BY <1>1, <1>3, <1>7, <1>10, <1>11, <1>12, TurnStep

\* Leaving the arena takes the reader to a page that holds no seat.
LEMMA LeaveKeeps ==
  ASSUME ArenaInv, NEW t \in Tabs, tab[t].page = "arena", NEW page \in {"toResult", "away"},
         Leave(t, page), UNCHANGED scene, page = "toResult" => row.status \in Settled
  PROVE  ArenaInv'
<1> DEFINE r == tab[t]
           q == IF page = "toResult" THEN <<Ask(Unopened)>> ELSE <<>>
           s == [Unopened EXCEPT !.page = page, !.minted = r.minted, !.reads = q]
<1>1. /\ TabOK(t, r) /\ r \in TabRecord /\ r.minted \in Nat
      /\ Put(t, s) /\ ended' = Gone(t, TRUE) /\ seating' = Seating(t, FALSE)
      /\ UNCHANGED <<row, bids, now, settling, seats, registry, joining, outbox, losses, slipped>>
  BY EveryTabOK DEF TabOK, TabRecord, Leave
<1>2. /\ Ask(Unopened) \in Request /\ Ask(Unopened).step = "asked" /\ ~Ask(Unopened).inRoom
  <2>1. Unopened.room = FALSE
    BY DEF Unopened
  <2> QED
    BY <2>1 DEF Ask, Request
<1>3. /\ q \in Seq(Request) /\ \A j \in DOMAIN q : q[j] = Ask(Unopened)
      /\ page = "toResult" <=> q # <<>>
  <2>1. CASE page = "toResult"
    <3>1. q = <<Ask(Unopened)>>
      BY <2>1
    <3> HIDE DEF q
    <3> QED
      BY <1>2, <2>1, <3>1
  <2>2. CASE page # "toResult"
    <3>1. q = <<>>
      BY <2>2
    <3> HIDE DEF q
    <3> QED
      BY <2>2, <3>1, EmptySeq
  <2> QED
    BY <2>1, <2>2
<1> HIDE DEF q
<1>4. /\ s \in TabRecord /\ s.page = page /\ s.minted = r.minted /\ s.reads = q
      /\ s.shown = Null /\ s.link = "down" /\ s.held = FALSE /\ s.joined = FALSE
      /\ s.attempt = Null /\ s.sending = Null /\ s.confirmed = 0 /\ ~s.room /\ ~s.asks /\ s.conn = 0
  BY <1>1, <1>3, UnopenedFacts DEF TabRecord
<1> HIDE DEF s
<1>5. PageOK(s)
  BY <1>3, <1>4 DEF PageOK, PageHas
<1>6. ResultOK(s) /\ WatchOK(s)
  BY <1>2, <1>3, <1>4 DEF ResultOK, ReadStands, WatchOK
<1>7. FormOK(t, s)
  BY <1>1, <1>2, <1>3, <1>4 DEF TabOK, FormOK, OnArena
<1>8. /\ seating' \subseteq CallRecord
      /\ \A c \in seating' : c.user = OwnerOf[c.tab] /\ (c.op = "leave" => c.step = "ask")
      /\ \A c \in seating : c.tab # t => c \in seating'
      /\ \A c \in seating' : c.tab # t => c \in seating
      /\ \A c \in seating' : ~(c.tab = t /\ c.op = "join" /\ ~c.left)
      /\ (\E c \in seating : c.tab = t) => \E c \in seating' : c.tab = t
      /\ (r.held /\ r.joined) => \E c \in seating' : c.tab = t
  BY <1>1, SeatingFacts
<1>9. CallsOf(t, s)
  BY <1>4, <1>8 DEF CallsOf
<1>10. Rests(t, r, seating) => Rests(t, s, seating')
  BY <1>4, <1>8 DEF Rests
<1>11. /\ ended' \subseteq Goodbye /\ ended \subseteq ended'
       /\ r.link = "up" => \E e \in ended' : e.conn = Conn(t)
  BY <1>1, GoneFacts
<1> QED
  BY <1>1, <1>4, <1>5, <1>6, <1>7, <1>9, <1>10, <1>11, TurnStep DEF TabOK

LEMMA RedirectKeeps ==
  ASSUME ArenaInv, NEW t \in Tabs, Redirect(t), UNCHANGED scene
  PROVE  ArenaInv'
<1>1. /\ tab[t].page = "arena" /\ Leave(t, "toResult")
      /\ tab[t].shown.row.status \in Settled
  BY DEF Redirect, OnArena, describeAuctionResult
<1>2. RowStands(tab[t].shown)
  BY <1>1 DEF ArenaInv, ResultsStand, ResultOK
<1>3. row.status \in Settled
  BY <1>1, <1>2 DEF RowStands
<1> QED
  BY <1>1, <1>3, LeaveKeeps

LEMMA NavigateKeeps ==
  ASSUME ArenaInv, NEW t \in Tabs, Navigate(t), UNCHANGED scene
  PROVE  ArenaInv'
BY LeaveKeeps DEF Navigate, OnArena

\* A tab that is closed leaves its seat to its connection, or it slips.
LEMMA CloseKeeps ==
  ASSUME ArenaInv, NEW t \in Tabs, Close(t), UNCHANGED scene
  PROVE  ArenaInv'
<1> DEFINE r == tab[t]
           s == [Unopened EXCEPT !.page = "gone"]
           unseen == \/ r.held /\ (r.link = "down" \/ Conn(t) \notin registry)
                     \/ \E c \in seating : c.tab = t /\ c.op = "join" /\ (c.step # "joined" \/ c.left)
<1>1. /\ TabOK(t, r) /\ r \in TabRecord /\ r.page \in {"arena", "result"}
      /\ Put(t, s) /\ ended' = Gone(t, FALSE)
      /\ slipped' = IF unseen THEN slipped \cup {OwnerOf[t]} ELSE slipped
      /\ UNCHANGED <<row, bids, now, settling, seats, seating, registry, joining, outbox, losses>>
  BY EveryTabOK DEF TabOK, Close
<1>2. /\ s \in TabRecord /\ s.page = "gone" /\ s.reads = <<>>
      /\ s.shown = Null /\ s.link = "down" /\ s.held = FALSE /\ s.joined = FALSE
      /\ s.attempt = Null /\ s.sending = Null /\ s.confirmed = 0 /\ ~s.room /\ ~s.asks /\ s.conn = 0
  BY UnopenedFacts DEF TabRecord
<1> HIDE DEF s
<1>3. PageOK(s) /\ ResultOK(s) /\ WatchOK(s) /\ FormOK(t, s)
  BY <1>2 DEF PageOK, PageHas, ResultOK, WatchOK, FormOK, OnArena
<1>4. /\ seating \subseteq CallRecord
      /\ \A c \in seating : c.user = OwnerOf[c.tab] /\ (c.op = "leave" => c.step = "ask")
      /\ \A c \in seating : (c.op = "join" /\ ~c.left /\ c.tab = t) => r.held /\ ~r.joined
      /\ \A c, d \in seating :
           (c.op = "join" /\ d.op = "join" /\ ~c.left /\ ~d.left /\ c.tab = d.tab) => c = d
  BY <1>1 DEF ArenaInv, ArenaTypeOK, RoomTyped, SeatsHeld
<1>5. CallsOf(t, s)
  BY <1>1, <1>2, <1>4 DEF CallsOf
<1>6. Rests(t, r, seating) =>
        OwnerOf[t] \in slipped' \/ Counted(OwnerOf[t]) \/ Rests(t, s, seating')
  <2> SUFFICES ASSUME Rests(t, r, seating), ~unseen, \A c \in seating : c.tab = t => c.op # "leave"
               PROVE  Counted(OwnerOf[t])
    BY <1>1 DEF Rests
  <2>1. r.held
    <3>1. CASE r.held /\ r.joined
      BY <3>1
    <3>2. CASE \E c \in seating : c.tab = t
      <4>1. PICK c \in seating : c.tab = t
        BY <3>2
      <4>2. c.op = "join" /\ c.left \in BOOLEAN
        BY <1>4, <4>1 DEF CallRecord
      <4> QED
        BY <1>4, <4>1, <4>2
    <3> QED
      BY <3>1, <3>2 DEF Rests
  <2>2. Conn(t) \in registry /\ Conn(t)[1] = t
    BY <2>1 DEF Conn
  <2> QED
    BY <2>2 DEF Counted
<1>7. /\ ended' \subseteq Goodbye /\ ended \subseteq ended'
      /\ r.link = "up" => \E e \in ended' : e.conn = Conn(t)
  BY <1>1, GoneFacts
<1>8. slipped \subseteq slipped'
  BY <1>1
<1> QED
  BY <1>1, <1>2, <1>3, <1>5, <1>6, <1>7, <1>8, TurnStep DEF TabOK

\* A POST that succeeded seats its screen; one that came too late leaves again,
\* and whoever it seated without anybody to leave by has slipped.
LEMMA JoinAnsweredKeeps ==
  ASSUME ArenaInv, NEW c \in seating, JoinAnswered(c), UNCHANGED scene
  PROVE  ArenaInv'
<1> PICK t : t = c.tab
  OBVIOUS
<1> DEFINE r == tab[t]
           ok == c.step = "joined"
           leaves == ok /\ c.left /\ ~r.held /\ r.page # "gone"
           shows == ok /\ ~c.left /\ r.page = "arena"
           leave == Call("leave", t, c.user)
           q == [refresh(r) EXCEPT !.joined = TRUE]
           stuck == /\ ~leaves /\ ~shows /\ ~r.joined /\ r.page # "gone" /\ c.user \in seats
                    /\ \A d \in seating \ {c} : d.tab # t
<1>1. /\ RoomTyped /\ c \in CallRecord /\ t \in Tabs /\ c.user = OwnerOf[t]
      /\ c.step \in {"joined", "refused"}
  BY DEF ArenaInv, ArenaTypeOK, RoomTyped, CallRecord, JoinAnswered
<1>2. c.op = "join"
  BY <1>1 DEF RoomTyped, CallRecord
<1>3. /\ seating' = (seating \ {c}) \cup IF leaves THEN {leave} ELSE {}
      /\ IF shows THEN Put(t, q) ELSE UNCHANGED tab
      /\ slipped' = IF stuck THEN slipped \cup {c.user} ELSE slipped
      /\ UNCHANGED <<row, bids, now, settling, seats, registry, joining, ended, outbox, losses>>
  BY DEF JoinAnswered, OnArena
<1>4. TabOK(t, r) /\ r \in TabRecord /\ (r.joined => r.held)
  BY <1>1, EveryTabOK DEF TabOK, PageOK, PageHas
<1>5. leave \in CallRecord /\ leave.op = "leave" /\ leave.tab = t /\ leave.user = OwnerOf[t]
      /\ leave.step = "ask"
  BY <1>1 DEF Call, CallRecord
<1>6. /\ seating \subseteq CallRecord
      /\ \A d \in seating : d.user = OwnerOf[d.tab] /\ (d.op = "leave" => d.step = "ask")
      /\ \A d \in seating : (d.op = "join" /\ ~d.left /\ tab[d.tab].page # "gone") =>
           tab[d.tab].held /\ ~tab[d.tab].joined
      /\ \A d \in seating : (d.op = "join" /\ tab[d.tab].page = "gone" /\ d.step # "joined") =>
           d.user \in slipped
      /\ \A d, e \in seating :
           (d.op = "join" /\ e.op = "join" /\ ~d.left /\ ~e.left /\ d.tab = e.tab) => d = e
  BY <1>1 DEF ArenaInv, RoomTyped, SeatsHeld
<1> HIDE DEF leave
<1>7. /\ slipped \subseteq slipped' /\ ended \subseteq ended' /\ ended' \subseteq Goodbye
  BY <1>1, <1>3 DEF RoomTyped
<1>8. CASE shows
  <2>1. /\ seating' = seating \ {c} /\ Put(t, q)
    BY <1>3, <1>8
  <2>2. r.held = TRUE /\ ~c.left /\ r.page = "arena"
    BY <1>2, <1>4, <1>6, <1>8 DEF TabRecord
  <2>3. TabOK(t, refresh(r)) /\ refresh(r) \in TabRecord
    BY <1>1, <1>4, <2>2, RefreshKeeps DEF TabOK, PageOK
  <2>4. refresh(r) = [r EXCEPT !.reads = Append(r.reads, Ask(r))]
    BY <1>4, RefreshFacts
  <2>5. /\ refresh(r).held = TRUE /\ refresh(r).page = "arena" /\ refresh(r).link = r.link
        /\ refresh(r).conn = r.conn
    BY <1>4, <2>2, <2>4 DEF TabRecord
  <2>6. PICK p : p = refresh(r)
    OBVIOUS
  <2>7. PICK s : s = [p EXCEPT !.joined = TRUE]
    OBVIOUS
  <2>8. /\ s \in TabRecord /\ s.joined = TRUE
        /\ s.page = p.page /\ s.shown = p.shown /\ s.link = p.link /\ s.conn = p.conn
        /\ s.reads = p.reads /\ s.attempt = p.attempt /\ s.sending = p.sending
        /\ s.confirmed = p.confirmed /\ s.room = p.room /\ s.asks = p.asks /\ s.minted = p.minted
        /\ s.inRoom = p.inRoom /\ s.behind = p.behind /\ s.held = p.held
    BY <2>3, <2>6, <2>7 DEF TabRecord
  <2>9. TabOK(t, p) /\ p.held = TRUE /\ p.page = "arena" /\ p.link = r.link /\ p.conn = r.conn
    BY <2>3, <2>5, <2>6
  <2>10. PageOK(s) /\ ResultOK(s) /\ FormOK(t, s) /\ WatchOK(s)
    BY <2>8, <2>9 DEF TabOK, PageOK, PageHas, ResultOK, FormOK, Others, OnArena, WatchOK, Newest
  <2>11. CallsOf(t, s)
    <3>1. \A d \in seating' : ~(d.op = "join" /\ ~d.left /\ d.tab = t)
      BY <1>2, <1>6, <2>1, <2>2
    <3> QED
      BY <1>6, <2>1, <2>8, <2>9, <3>1 DEF CallsOf
  <2>12. Rests(t, s, seating')
    BY <2>8, <2>9 DEF Rests
  <2>13. Put(t, s)
    BY <2>1, <2>6, <2>7
  <2> HIDE DEF q
  <2> QED
    BY <1>1, <1>3, <1>7, <2>8, <2>9, <2>10, <2>11, <2>12, <2>13, TurnStep DEF TabOK
<1>9. CASE ~shows
  <2>1. /\ tab' = tab /\ \A d \in seating' : d \in seating \/ (leaves /\ d = leave)
        /\ \A d \in seating : d # c => d \in seating'
        /\ leaves => leave \in seating'
    BY <1>3, <1>9
  <2>2. Put(t, r)
    BY <1>1, <2>1 DEF Put, ArenaInv, ArenaTypeOK, TabsTyped
  <2>3. CallsOf(t, r)
    <3>1. seating' \subseteq CallRecord
      BY <1>5, <1>6, <2>1
    <3>2. \A d \in seating' : d.user = OwnerOf[d.tab] /\ (d.op = "leave" => d.step = "ask")
      BY <1>5, <1>6, <2>1
    <3>3. \A d \in seating : d.tab # t => d \in seating'
      BY <2>1
    <3>4. \A d \in seating' : d.tab # t => d \in seating
      BY <1>5, <2>1
    <3>5. \A d \in seating' : d.op = "join" => d \in seating
      BY <1>5, <2>1
    <3>6. \A d \in seating' : d.tab = t /\ d.op = "join" =>
            IF r.page = "gone" THEN d.step # "joined" => d.user \in slipped'
            ELSE ~d.left => r.held /\ ~r.joined
      BY <1>6, <1>7, <3>5
    <3>7. \A d, e \in seating' :
            (d.tab = t /\ e.tab = t /\ d.op = "join" /\ e.op = "join" /\ ~d.left /\ ~e.left) => d = e
      BY <1>6, <3>5
    <3> QED
      BY <3>1, <3>2, <3>3, <3>4, <3>6, <3>7 DEF CallsOf
  <2>4. OwnerOf[t] \in slipped' \/ OwnerOf[t] \notin seats \/
          (Rests(t, r, seating) => Rests(t, r, seating'))
    <3> SUFFICES ASSUME OwnerOf[t] \notin slipped', OwnerOf[t] \in seats, Rests(t, r, seating)
                 PROVE  Rests(t, r, seating')
      OBVIOUS
    <3>1. CASE r.held /\ r.joined
      BY <3>1 DEF Rests
    <3>2. CASE \E d \in seating : d # c /\ d.tab = t /\ (d.op = "leave" \/ r.page # "gone")
      BY <2>1, <3>2 DEF Rests
    <3>3. CASE leaves
      BY <1>5, <2>1, <3>3 DEF Rests
    <3>4. CASE /\ ~leaves /\ ~(r.held /\ r.joined)
               /\ ~\E d \in seating : d # c /\ d.tab = t /\ (d.op = "leave" \/ r.page # "gone")
      <4>1. r.page # "gone"
        BY <1>2, <3>4 DEF Rests
      <4>2. ~r.joined
        BY <1>4, <3>4
      <4>3. \A d \in seating \ {c} : d.tab # t
        BY <3>4, <4>1
      <4>4. stuck
        BY <1>1, <1>9, <3>4, <4>1, <4>2, <4>3
      <4> QED
        BY <1>1, <1>3, <4>4
    <3> QED
      BY <3>1, <3>2, <3>3, <3>4
  <2> HIDE DEF stuck, leaves
  <2> QED
    BY <1>1, <1>3, <1>4, <1>7, <2>2, <2>3, <2>4, TurnStep
<1> QED
  BY <1>8, <1>9

-----------------------------------------------------------------------------
(***************************************************************************)
(* Putting it together                                                     *)
(***************************************************************************)
LEMMA SceneFacts ==
  ASSUME ArenaInv PROVE scene.tabs \subseteq Tabs /\ scene.forms \subseteq Tabs
                        /\ scene.pages \subseteq {"toArena", "toResult"}
BY ArenaAssumption DEF ArenaInv, ArenaTypeOK, TabsTyped

LEMMA InitKeeps ==
  ASSUME ArenaInit PROVE ArenaInv
<1>1. /\ scene \in Scenes /\ row = scene.row /\ bids = <<>> /\ now = 0 /\ settling = Null
      /\ seats = {} /\ seating = {} /\ registry = {} /\ joining = {} /\ ended = {} /\ outbox = <<>>
      /\ tab = [t \in Tabs |-> Unopened] /\ slipped = {}
  BY DEF ArenaInit
<1>2. /\ row \in AuctionRow /\ row.status \in {"SCHEDULED", "ACTIVE"} /\ row.bidCount = 0
  BY <1>1, ArenaAssumption
<1>3. RoomTyped
  <2>1. bids \in Seq(Bid) /\ outbox \in Seq(ROOM_EVENTS) /\ settling \in NatOrNull /\ now \in Nat
    BY <1>1, EmptySeq DEF NatOrNull
  <2>2. IsFiniteSet(seats)
    BY <1>1, FS_EmptySet
  <2> QED
    BY <1>1, <1>2, <2>1, <2>2 DEF RoomTyped
<1>4. TabsTyped /\ \A t \in Tabs : tab[t] = Unopened
  BY <1>1, UnopenedFacts DEF TabsTyped
<1>5. \A t \in Tabs : MadeBy(t) = {}
  BY <1>1, <1>3 DEF MadeBy, RoomTyped
<1>6. ASSUME NEW t \in Tabs PROVE TabOK(t, tab[t])
  <2> PICK r : r = tab[t]
    OBVIOUS
  <2>1. /\ r \in TabRecord /\ r.reads = <<>> /\ r.shown = Null /\ r.page = "closed" /\ r.link = "down"
        /\ ~r.held /\ ~r.joined /\ r.attempt = Null /\ r.sending = Null /\ r.confirmed = 0
        /\ ~r.room /\ ~r.asks /\ r.conn = 0
    BY <1>4, UnopenedFacts
  <2>2. PageOK(r)
    BY <2>1 DEF PageOK, PageHas
  <2>3. ResultOK(r) /\ FormOK(t, r) /\ WatchOK(r)
    BY <1>5, <2>1 DEF ResultOK, FormOK, OnArena, WatchOK
  <2> QED
    BY <2>1, <2>2, <2>3 DEF TabOK
<1>7. Ledger
  BY <1>1, <1>2 DEF Ledger
<1>8. SaleStands /\ OneEach
  BY <1>2, <1>5 DEF SaleStands, OneEach
<1>9. SeatsHeld
  BY <1>1 DEF SeatsHeld
<1> QED
  BY <1>3, <1>4, <1>6, <1>7, <1>8, <1>9
  DEF ArenaInv, ArenaTypeOK, Pages, ResultsStand, Forms, Watched, TabOK

LEMMA StutterKeeps ==
  ASSUME ArenaInv, UNCHANGED arenaVars PROVE ArenaInv'
<1>1. /\ UNCHANGED <<tab, slipped, scene, seats, seating, registry, joining, ended>>
      /\ UNCHANGED <<row, bids, now, settling, outbox>>
  BY DEF arenaVars, roomVars, screenVars
<1>2. /\ row \in AuctionRow /\ settling \in NatOrNull /\ (settling # Null => settling \in 0 .. Len(bids))
      /\ SaleStands
  BY DEF ArenaInv, ArenaTypeOK, RoomTyped, Ledger, ResultsStand
<1>3. SaleStands'
  BY <1>1, <1>2 DEF SaleStands
<1> QED
  BY <1>1, <1>2, <1>3, RowStep

LEMMA TabStepKeeps ==
  ASSUME ArenaInv, NEW t \in Tabs, TabStep(t), UNCHANGED scene PROVE ArenaInv'
<1>1. CASE \E page \in scene.pages : Open(t, page)
  BY <1>1, SceneFacts, OpenKeeps
<1>2. CASE Land(t)
  BY <1>2, LandKeeps
<1>3. CASE Reading(t)
  BY <1>3, ReadAuctionKeeps, ReadRestKeeps, ReadNotFoundKeeps, ShowKeeps, ShowResultKeeps DEF Reading
<1>4. CASE \E i \in DOMAIN tab[t].reads : LoseRead(t, i)
  BY <1>4, LoseReadKeeps
<1>5. CASE Wake(t) \/ Glance(t)
  BY <1>5, WakeKeeps, GlanceKeeps
<1>6. CASE Connect(t) \/ JoinRoom(t) \/ DropSocket(t)
  BY <1>6, ConnectKeeps, JoinRoomKeeps, DropSocketKeeps
<1>7. CASE Redirect(t) \/ Navigate(t) \/ Close(t)
  BY <1>7, RedirectKeeps, NavigateKeeps, CloseKeeps
<1> QED
  BY <1>1, <1>2, <1>3, <1>4, <1>5, <1>6, <1>7 DEF TabStep

LEMMA FormStepKeeps ==
  ASSUME ArenaInv, NEW t \in Tabs, OnArena(tab[t]), FormStep(t), UNCHANGED scene PROVE ArenaInv'
BY PressKeeps, PlaceBidKeeps, BidAnsweredKeeps, LoseBidKeeps DEF FormStep

LEMMA OutsideKeeps ==
  ASSUME ArenaInv, Outside, UNCHANGED scene PROVE ArenaInv'
BY TickKeeps, StartAuctionKeeps, EditKeeps, SettleDecideKeeps, SettleWriteKeeps, CancelAuctionKeeps,
   OutsideBidKeeps DEF Outside

LEMMA ParticipationKeeps ==
  ASSUME ArenaInv, Participation, UNCHANGED scene PROVE ArenaInv'
BY JoinAskedKeeps, LeaveWrittenKeeps, JoinWrittenForKeeps, JoinAnsweredKeeps, LoseJoinKeeps,
   RegisterForKeeps, DisconnectForKeeps DEF Participation

LEMMA NextKeeps ==
  ASSUME ArenaInv, [ArenaNext]_arenaVars PROVE ArenaInv'
<1>1. CASE UNCHANGED arenaVars
  BY <1>1, StutterKeeps
<1>2. CASE ArenaNext
  BY <1>2, SceneFacts, OutsideKeeps, ParticipationKeeps, EmitKeeps, TabStepKeeps, FormStepKeeps
  DEF ArenaNext
<1> QED
  BY <1>1, <1>2

\* Every reachable state of a live auction and its tabs is typed, and what was
\* read, made and held still has what it rests on.
THEOREM ArenaInvariance == ArenaSpec => []ArenaInv
<1>1. ArenaInit => ArenaInv
  BY InitKeeps
<1>2. ArenaInv /\ [ArenaNext]_arenaVars => ArenaInv'
  BY NextKeeps
<1> QED
  BY <1>1, <1>2, PTL DEF ArenaSpec

-----------------------------------------------------------------------------
(***************************************************************************)
(* The properties                                                          *)
(***************************************************************************)
LEMMA WholeHolds ==
  ASSUME ArenaInv PROVE ResultsAreWhole
<1> SUFFICES ASSUME NEW t \in Tabs, tab[t].shown # Null,
                    describeAuctionResult(tab[t].shown) # Null
             PROVE  LET result == describeAuctionResult(tab[t].shown)
                    IN  /\ result.outcome = row.status /\ result.soldPrice = row.soldPrice
                        /\ result.outcome = "SOLD" =>
                             result.winner # 0 /\ bids[result.winner].amount = result.soldPrice
  BY DEF ResultsAreWhole
<1> DEFINE a == tab[t].shown
           result == describeAuctionResult(a)
<1>1. a.row.status \in Settled
  BY DEF describeAuctionResult
<1>2. result = [outcome |-> a.row.status, soldPrice |-> a.row.soldPrice,
                winner |-> IF a.row.status = "SOLD" THEN a.winner ELSE 0]
  BY <1>1 DEF describeAuctionResult
<1>3. a.row = row /\ a.winner = row.winningBidId
  <2>1. TabOK(t, tab[t])
    BY EveryTabOK
  <2>2. tab[t].page \in {"arena", "result"}
    BY <2>1 DEF TabOK, PageOK, PageHas
  <2> QED
    BY <1>1, <2>1, <2>2 DEF TabOK, ResultOK, RowStands, WinnerStands
<1>4. SaleStands /\ bids \in Seq(Bid)
  BY DEF ArenaInv, ArenaTypeOK, RoomTyped, ResultsStand
<1>5. 0 \notin DOMAIN bids
  BY <1>4
<1> HIDE DEF result
<1> QED
  BY <1>2, <1>3, <1>4, <1>5 DEF SaleStands, result

LEMMA CurrentHolds ==
  ASSUME ArenaInv PROVE WatchersAreCurrent
<1> SUFFICES ASSUME NEW t \in Tabs, tab[t].room, tab[t].reads = <<>>, tab[t].inRoom, ~tab[t].behind,
                    outbox = <<>>
             PROVE  /\ OnlyEditsMissed(tab[t].shown.row) /\ tab[t].shown.newest = Len(bids)
                    /\ tab[t].shown.seats = Cardinality(seats) \/ "count" \in slipped
  BY DEF WatchersAreCurrent
<1>1. WatchOK(tab[t])
  BY DEF ArenaInv, Watched
<1> QED
  BY <1>1 DEF WatchOK, CountStands

LEMMA ReleasedHolds ==
  ASSUME ArenaInv PROVE SeatsAreReleased
<1> SUFFICES ASSUME NEW u \in seats \ slipped
             PROVE  \/ \E t \in Tabs : OwnerOf[t] = u /\ OnArena(tab[t])
                    \/ \E c \in seating : c.user = u
                    \/ \E e \in ended : OwnerOf[e.conn[1]] = u
  BY DEF SeatsAreReleased
<1>1. Holds(u) \/ Calls(u) \/ Counted(u)
  BY DEF ArenaInv, SeatsHeld
<1>2. \A t \in Tabs : (tab[t].held \/ tab[t].link = "up") => OnArena(tab[t])
  BY EveryTabOK DEF TabOK, PageOK, PageHas, OnArena
<1>3. CASE Holds(u)
  BY <1>2, <1>3 DEF Holds
<1>4. CASE Calls(u)
  BY <1>4 DEF Calls
<1>5. CASE Counted(u)
  <2>1. PICK c \in registry : OwnerOf[c[1]] = u
    BY <1>5 DEF Counted
  <2>2. c[1] \in Tabs
    BY DEF ArenaInv, ArenaTypeOK, RoomTyped, Connections
  <2>3. Lives(c) \/ \E e \in ended : e.conn = c
    BY <2>1 DEF ArenaInv, SeatsHeld
  <2> QED
    BY <1>2, <2>1, <2>2, <2>3 DEF Lives
<1> QED
  BY <1>1, <1>3, <1>4, <1>5

LEMMA PressesHold ==
  ASSUME ArenaInv PROVE PressesAreOneBid
<1> SUFFICES ASSUME NEW t \in Tabs, OnArena(tab[t])
             PROVE  Cardinality(MadeBy(t)) <=
                      tab[t].confirmed + IF tab[t].attempt = Null THEN 0 ELSE 1
  BY DEF PressesAreOneBid, MadeBy
<1> DEFINE O == Others(t, tab[t])
<1>1. /\ Cardinality(MadeBy(t)) \in Nat /\ Cardinality(O) \in Nat
      /\ Cardinality(MadeBy(t)) <= Cardinality(O) + 1
  BY AllButOne
<1>2. TabOK(t, tab[t])
  BY EveryTabOK
<1>3. Cardinality(O) <= tab[t].confirmed /\ tab[t].confirmed \in Nat
  BY <1>2 DEF TabOK, FormOK, TabRecord
<1>4. CASE tab[t].attempt = Null
  <2>1. O = MadeBy(t)
    BY <1>4, MadeByFacts DEF Others
  <2> HIDE DEF O
  <2> QED
    BY <1>1, <1>3, <1>4, <2>1
<1>5. CASE tab[t].attempt # Null
  BY <1>1, <1>3, <1>5
<1> QED
  BY <1>4, <1>5

\* Whatever result a tab shows is how the auction ended, with the bid that won
\* it: a settled row never changes again, and the winner is read after the row.
THEOREM ResultsStayWhole == ArenaSpec => []ResultsAreWhole
BY ArenaInvariance, WholeHolds, PTL

\* A tab in the room with nothing under way shows the auction as it is, but for
\* a seller's edits in the lobby: each other commit is announced after it, and
\* each announcement heard is a read begun.
THEOREM WatchersStayCurrent == ArenaSpec => []WatchersAreCurrent
BY ArenaInvariance, CurrentHolds, PTL

\* Nobody stays counted whom no tab, call or ended connection will let go,
\* except through the recorded gaps.
THEOREM SeatsStayReleasable == ArenaSpec => []SeatsAreReleased
BY ArenaInvariance, ReleasedHolds, PTL

\* However often a press is retried, it is one bid: the attempt keeps its id
\* until an answer says that it was placed.
THEOREM PressesStayOneBid == ArenaSpec => []PressesAreOneBid
BY ArenaInvariance, PressesHold, PTL
=============================================================================
