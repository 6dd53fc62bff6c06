--------------------------- MODULE RealtimeProofs ---------------------------
(***************************************************************************)
(* Proofs about Realtime, for every number of screens, calls and failures. *)
(*                                                                         *)
(* RealtimeInv says of each family of screens (chat, support, orders,      *)
(* watched listings) what its calls and its screens may be in the middle   *)
(* of.  A step belongs to one family.  A lemma ...Keeps shows that it      *)
(* keeps that family's part and at most says something to other screens    *)
(* (Carried), a lemma ...Carried that these then keep theirs.  A screen    *)
(* that shows less than the database has a reason to look again: a request *)
(* not yet answered by a fresh row, or an event still in its inbox.        *)
(***************************************************************************)
EXTENDS Realtime, TLAPS, FiniteSetTheorems, SequenceTheorems

-----------------------------------------------------------------------------
(***************************************************************************)
(* The inductive invariant                                                 *)
(***************************************************************************)
IsList(x) == x \in Seq(Range(x))

\* A screen and the line it hears on; what is left open is in braces.
LINKS == {"closed", "off", "down", "up", "rejected"}
BODIES == Replies \cup {"asks", "wants", "says", "contact"}
Words == [role : {"USER", "ADMIN"}, body : BODIES, id : Cases \X Nat]
Event ==
  [name : {"connection:ready", "connect_error", "message:sent", "notification:created",
           "order:status_changed", "support:inbox_updated"}, payload : {Nothing}] \cup
  [name : {"support:message"}, payload : Words]
Holds(r) == r \in [link : LINKS, rooms : {r.rooms}, joining : {r.joining}, inbox : Seq(Event),
                   reads : {r.reads}, shown : {r.shown}, live : {r.live}, busy : {r.busy},
                   failed : {r.failed}, behind : {r.behind}]
LineOK(s, r) ==
  /\ r.link # "up" => /\ r.rooms = {} /\ r.joining = {}
                      /\ \A i \in DOMAIN r.inbox : r.inbox[i].name # "connection:ready"
  /\ r.link \in {"closed", "off"} => r.inbox = <<>>
  /\ r.link = "up" => RoomsFor(OwnerOf[s]) \subseteq r.rooms
Wired ==
  /\ scene \in Scenes /\ losses \in Nat
  /\ screen = [s \in scene.screens |-> screen[s]]
  /\ \A s \in scene.screens : Holds(screen[s]) /\ LineOK(s, screen[s])

\* Requests, and what the newest of them settles.
Requested(q) == q \in [what : {q.what}, served : BOOLEAN, value : {q.value}, overtaken : BOOLEAN]
Asking(r) == IsList(r.reads) /\ \A i \in DOMAIN r.reads : Requested(r.reads[i])
News(r, names) == \E i \in DOMAIN r.inbox : r.inbox[i].name \in names

\* Talk: its rows.
Persons == UNION {People(c) : c \in Conversations}
NOTICE_OPS == {"reset", "refresh", "more", "one", "all"}
SendIs(x) ==
  /\ x \in [pc : {"idle", "commit", "emit", "answer", "dead", "done"},
            conversation : Conversations \cup {Nothing}, sender : Persons \cup {Nothing},
            from : Screens \cup {Nothing}]
  /\ x.pc # "idle" => x.conversation \in Conversations /\ x.sender \in People(x.conversation)
  /\ x.from # Nothing => x.from \in On(TalkScreens) /\ TalkKind[x.from] = "thread"
SendOK(k) == SendIs(sends[k])
MessageOK(c, i) ==
  LET m == messages[c][i]
  IN  m.sender \in People(c) /\ (m.read => i <= pages[c][Other(c, m.sender)])
ReceiptOK(x) ==
  LET c == ThreadOf[x.from]
  IN  /\ x.from \in TalkScreens /\ TalkKind[x.from] = "thread"
      /\ \A i \in x.answer.unread : /\ i \in DOMAIN messages[c] /\ messages[c][i].sender # OwnerOf[x.from]
                                    /\ i <= pages[c][OwnerOf[x.from]]
TalkRows ==
  /\ messages \in [Conversations -> Seq([sender : Persons, read : BOOLEAN])]
  /\ notices \in Seq([id : {0}, userId : Persons, read : BOOLEAN])
  /\ pages = [c \in Conversations |-> pages[c]]
  /\ \A c \in Conversations : /\ pages[c] \in [People(c) -> Nat]
                              /\ messages[c] # <<>> => c \in opened
                              /\ \A i \in DOMAIN messages[c] : MessageOK(c, i)
  /\ \A x \in receipts : ReceiptOK(x)
  /\ sends = [k \in scene.sends |-> sends[k]]
  /\ \A k \in scene.sends : SendOK(k)

\* Its screens: what the newest answer is worth once nothing more is to be heard.
Told(user) == \A k \in scene.sends :
                sends[k].pc = "emit" => Other(sends[k].conversation, sends[k].sender) # user
Marking(user) ==
  \E t \in On(TalkScreens) : /\ TalkKind[t] = "notices" /\ OwnerOf[t] = user
                             /\ screen[t].reads # <<>> \/ screen[t].behind
Good(s, v) ==
  LET me == OwnerOf[s]
  IN  /\ TalkKind[s] \in {"bell", "header"} => v \in Nat /\ v >= unreadCount(me)
      /\ TalkKind[s] = "header" => v = unreadCount(me) \/ Marking(me)
      /\ TalkKind[s] = "list" =>
           \A c \in Conversations :
             (messages[c] # <<>> /\ me \in People(c) /\ Last(messages[c]).sender # me) =>
               c \in DOMAIN v /\ v[c].last = Len(messages[c])
Newest(r) == r.reads[Len(r.reads)]
Shows(s, r) ==
  /\ r.reads = <<>> /\ ~r.behind => Good(s, r.shown)
  /\ r.reads # <<>> /\ Newest(r).served /\ ~Newest(r).overtaken => Good(s, Newest(r).value)
Follows(s, r) ==
  (r.link = "up" /\ ~News(r, useUserChannel) /\ Told(OwnerOf[s])) => Shows(s, r)
TalkScreenOK(s, r) ==
  /\ Asking(r) /\ r.behind \in BOOLEAN
  /\ TalkKind[s] = "header" => Len(r.reads) <= 1
  /\ TalkKind[s] = "notices" => \A i \in DOMAIN r.reads : r.reads[i].what.op \in NOTICE_OPS
TalkInv ==
  /\ TalkRows
  /\ \A s \in On(TalkScreens) : TalkScreenOK(s, screen[s]) /\ Follows(s, screen[s])

-----------------------------------------------------------------------------
\* The support desk: its rows and calls.
DESK_OPS == {"ask", "tell", "escalate", "claim", "reply", "resolve"}
STATUSES == {"NONE", "AI_ONLY", "ESCALATED", "RESOLVED"}
Message == [role : {"USER", "ASSISTANT", "ADMIN"}, body : BODIES]
EntryId == (Cases \X Nat) \cup ({"temp", "guest"} \X DeskCalls)
Utterance == [role : {"USER", "ASSISTANT", "ADMIN"}, body : BODIES, id : EntryId]
CaseRow(row) == row \in [status : STATUSES, userId : {row.userId}, assigned : {row.assigned},
                         messages : Seq(Message), closedAt : {row.closedAt}]
CaseOK(c) ==
  /\ CaseRow(cases[c])
  /\ cases[c].status = "NONE" => cases[c].messages = <<>>
  /\ cases[c].status # "NONE" => cases[c].userId # Nothing
  /\ cases[c].status \in {"ESCALATED", "RESOLVED"} => Earned(cases[c].messages)
Opened(c) == c \in Cases /\ cases[c].status # "NONE"
Knows(c) == Opened(c) /\ Earned(cases[c].messages)
CallOK(call) ==
  /\ call \in [pc : {"idle", "load", "say", "contact", "think", "verdict", "check", "write",
                     "emit", "answer", "refused", "done"},
               op : DESK_OPS \cup {Nothing}, from : {call.from}, panel : {call.panel},
               id : Cases \cup {Nothing}, body : BODIES \cup {Nothing}, read : {call.read},
               earlier : {call.earlier}, reply : {call.reply}, escalated : BOOLEAN]
  /\ call.pc # "idle" => call.op \in DESK_OPS /\ call.from \in On(DeskScreens)
CallCan(call) ==
  LET s == call.from
  IN  /\ call.op \in {"ask", "tell", "escalate"} => DeskKind[s] = "widget"
      /\ call.op \in {"claim", "reply", "resolve"} => DeskKind[s] = "case" /\ Knows(call.id)
      /\ call.op \in {"ask", "tell", "reply"} => call.body \in BODIES
      /\ call.id # Nothing => Opened(call.id)
      /\ call.op \in {"tell", "escalate"} => Opened(call.id) /\ OwnerOf[s] # Nothing
      /\ call.op = "ask" => call.pc \notin {"check", "write", "emit"}
      /\ call.op = "ask" /\ OwnerOf[s] # Nothing /\ call.pc \notin {"load", "refused", "done"} =>
           Opened(call.id)
      /\ call.op = "ask" /\ OwnerOf[s] = Nothing => call.pc \notin {"say", "contact", "verdict"}
      /\ call.op # "ask" => call.pc \notin {"say", "contact", "think", "verdict"}
      /\ call.op = "ask" /\ call.pc \in {"verdict", "answer"} =>
           call.reply \in Utterance /\ call.reply.role = "ASSISTANT"
      /\ call.op # "ask" /\ call.pc \in {"check", "write", "emit", "answer"} =>
           call.read.status \in STATUSES
      /\ call.pc = "check" => call.op = "escalate"
      /\ call.op = "escalate" /\ call.pc = "write" => Knows(call.id)
      /\ call.op = "tell" /\ call.pc = "write" /\ call.read.status = "RESOLVED" => Knows(call.id)
      /\ call.pc = "emit" /\ Speaks(call.op) => call.reply \in Words
CallSeen(call) ==
  call.op = "escalate" /\ call.pc # "done" /\ screen[call.from].link # "closed" =>
    Opened(screen[call.from].shown.id)
CallDoes(call) == CallCan(call) /\ CallSeen(call)

\* Its screens.
Widget == [id : Cases \cup {Nothing}, status : STATUSES, entries : Seq(Utterance), escalated : BOOLEAN,
           open : BOOLEAN, mode : {"AI", "CHAT"}, unread : BOOLEAN]
History_(q) == q.served => q.value.status \in STATUSES /\ q.value.messages \in Seq(Utterance)
Noticed(s, w) ==
  (w.entries # <<>> /\ Last(w.entries).role = "ADMIN") =>
    w.id # Nothing /\ (w.unread \/ \E c \in Cases : seen[s][c] = Last(w.entries).id)
WidgetOK(s, r) ==
  /\ r.link # "closed" => /\ r.shown \in Widget /\ Noticed(s, r.shown)
                          /\ r.shown.status # "AI_ONLY" => r.shown.id # Nothing
                          /\ r.shown.id # Nothing => Opened(r.shown.id)
                          /\ OwnerOf[s] = Nothing => r.shown.status = "AI_ONLY"
  /\ r.link \in {"down", "up", "rejected"} => RoomOf(s, r.shown) # Nothing
  /\ \A i \in DOMAIN r.reads : Opened(r.reads[i].what) /\ History_(r.reads[i])
  /\ OwnerOf[s] = Nothing \/ r.link = "closed" => r.reads = <<>>
QueueShows(r) ==
  /\ r.reads = <<>> /\ ~r.behind => r.shown = listSessions
  /\ r.reads # <<>> /\ Newest(r).served /\ ~Newest(r).overtaken => Newest(r).value = listSessions
QueueFollows(r) ==
  (r.link = "up" /\ ~News(r, useSupportInboxChannel) /\ \A k \in scene.calls : deskCalls[k].pc # "emit")
  => QueueShows(r)
DeskScreenOK(s, r) ==
  /\ Asking(r) /\ Len(r.reads) <= 1
  /\ DeskKind[s] = "widget" => WidgetOK(s, r)
  /\ DeskKind[s] = "case" /\ r.link # "closed" => Knows(CaseOf[s])
  /\ DeskKind[s] = "queue" => r.behind \in BOOLEAN /\ QueueFollows(r)
DeskRows ==
  /\ cases = [c \in Cases |-> cases[c]] /\ \A c \in Cases : CaseOK(c)
  /\ deskCalls = [k \in scene.calls |-> deskCalls[k]]
  /\ \A k \in scene.calls : CallOK(deskCalls[k]) /\ (deskCalls[k].pc # "idle" => CallDoes(deskCalls[k]))
  /\ stored \in [{s \in On(DeskScreens) : DeskKind[s] = "widget"} -> Cases \cup {Nothing}]
  /\ \A s \in DOMAIN stored : /\ OwnerOf[s] = Nothing => stored[s] = Nothing
                              /\ stored[s] # Nothing => Opened(stored[s])
  /\ seen = [s \in On(DeskScreens) |-> seen[s]]
  /\ \A s \in On(DeskScreens) : seen[s] = [c \in Cases |-> seen[s][c]]
DeskInv == DeskRows /\ \A s \in On(DeskScreens) : DeskScreenOK(s, screen[s])

-----------------------------------------------------------------------------
\* The cache of a tab: a key whose data is in force, or whose request is up to
\* date, is good.
Cached(r) == /\ r.shown \in [data : {r.shown.data}, stale : {r.shown.stale},
                             behind : {r.shown.behind}, group : {r.shown.group}]
             /\ r.reads = [key \in DOMAIN r.reads |-> r.reads[key]]
             /\ \A key \in DOMAIN r.reads : Requested(r.reads[key])
CacheOf(r, keys) == Cached(r) /\ r.shown.data = [key \in keys |-> r.shown.data[key]] /\ DOMAIN r.reads \subseteq keys
InForce(r, key, active) ==
  key \in active \/ (r.shown.data[key] # Nothing /\ key \notin r.shown.stale)
Current(r, key, active, good) ==
  /\ key \in DOMAIN r.reads =>
       (r.reads[key].served /\ ~r.reads[key].overtaken => r.reads[key].value \in good)
  /\ (key \notin DOMAIN r.reads /\ key \notin r.shown.behind /\ InForce(r, key, active)) =>
       r.shown.data[key] \in good
Used(r) == r.link # "closed" \/ r.shown # Nothing \/ DOMAIN r.reads # {}

PressOK(k) ==
  /\ presses[k] \in [pc : {"idle", "load", "write", "emit", "answer", "done"}, from : {presses[k].from},
                     next : {presses[k].next}, seen : {presses[k].seen},
                     answer : {"400", "409", "ok", "lost", Nothing}, left : BOOLEAN]
  /\ presses[k].pc # "idle" => /\ presses[k].from \in On(OrderScreens)
                               /\ OrderKind[presses[k].from] = "selling"
                               /\ presses[k].next \in ShipmentStatus
  /\ presses[k].pc = "write" => presses[k].next \in nextStatuses(presses[k].seen)
  /\ (presses[k].pc = "emit" \/ (presses[k].pc \in {"answer", "done"} /\ presses[k].answer = "ok")) =>
       Stage(parcel) >= Stage(presses[k].next)
PressCached(k) == presses[k].pc # "idle" => CacheOf(screen[presses[k].from], Keys(presses[k].from))
AsFarAs(k) == {x \in ShipmentStatus : Stage(x) >= Stage(presses[k].next)}
PageFollows(s, r) ==
  (r.link = "up" /\ ~News(r, useUserChannel) /\ \A k \in scene.presses : presses[k].pc # "emit") =>
    \A key \in Keys(s) : Current(r, key, Active(s, r), {Answer(key)})
PressFollows(k, r) ==
  presses[k].pc = "done" /\ presses[k].answer = "ok" =>
    Current(r, "shipment", Active(presses[k].from, r), AsFarAs(k))
PageOK(s, r) == /\ r.link # "off"
                /\ Used(r) => CacheOf(r, Keys(s)) /\ (OrderKind[s] = "sold" => r.shown.group \in DOMAIN GROUPS)
                /\ PageFollows(s, r)
OrderInv ==
  /\ parcel \in ShipmentStatus /\ presses = [k \in scene.presses |-> presses[k]]
  /\ \A k \in scene.presses : PressOK(k) /\ PressCached(k) /\ PressFollows(k, screen[presses[k].from])
  /\ \A s \in On(OrderScreens) : PageOK(s, screen[s])

-----------------------------------------------------------------------------
ToggleOK(x) ==
  /\ x \in [pc : {"idle", "send", "settle", "wait", "done"}, item : {x.item}, op : {x.op},
            from : {x.from}, previous : {x.previous}, ok : BOOLEAN, left : {x.left}]
  /\ x.pc # "idle" => x.from \in scene.screens \cap HeartScreens
Over(s) == \A k \in scene.toggles : \/ toggles[k].pc = "idle"
                                    \/ toggles[k].pc \in {"wait", "done"} /\ toggles[k].from = s
HeartsFollow(s, r) ==
  (Over(s) /\ Used(r)) => \A key \in HeartKeys : Current(r, key, ActiveHearts(r), {HeartAnswer(s, key)})
HeartsOK(s, r) == /\ r.link \in {"closed", "off"} /\ (Used(r) => CacheOf(r, HeartKeys))
                  /\ HeartsFollow(s, r)
HeartInv ==
  /\ toggles = [k \in scene.toggles |-> toggles[k]]
  /\ \A k \in scene.toggles :
       ToggleOK(toggles[k]) /\ (toggles[k].pc # "idle" => CacheOf(screen[toggles[k].from], HeartKeys))
  /\ \A s \in On(HeartScreens) : HeartsOK(s, screen[s])

RealtimeInv == Wired /\ TalkInv /\ DeskInv /\ OrderInv /\ HeartInv

-----------------------------------------------------------------------------
(***************************************************************************)
(* Sequences and requests                                                  *)
(***************************************************************************)
LEMMA SeqIntro ==
  ASSUME NEW x, NEW n \in Nat, x = [j \in 1..n |-> x[j]]
  PROVE  IsList(x) /\ Len(x) = n /\ DOMAIN x = 1..n
<1>1. DOMAIN x = 1..n
  OBVIOUS
<1>2. x \in [1..n -> Range(x)]
  BY <1>1 DEF Range
<1>3. x \in Seq(Range(x))
  BY <1>2, SeqDef
<1> QED
  BY <1>1, <1>3 DEF IsList

LEMMA SeqFacts ==
  ASSUME NEW x, IsList(x)
  PROVE  /\ Len(x) \in Nat /\ DOMAIN x = 1..Len(x)
         /\ x = [j \in 1..Len(x) |-> x[j]]
         /\ x = <<>> <=> Len(x) = 0
         /\ x # <<>> => Len(x) \in DOMAIN x /\ Last(x) = x[Len(x)]
BY DEF IsList, Last

LEMMA AppendFacts ==
  ASSUME NEW x, IsList(x), NEW e
  PROVE  /\ IsList(Append(x, e)) /\ Len(Append(x, e)) = Len(x) + 1
         /\ Append(x, e)[Len(x) + 1] = e
         /\ \A i \in 1..Len(x) : Append(x, e)[i] = x[i]
<1> DEFINE S == Range(x) \cup {e}
<1>1. x \in Seq(S)
  <2>1. Range(x) \subseteq S
    OBVIOUS
  <2> QED
    BY <2>1, SeqDef DEF IsList
<1>2. e \in S
  OBVIOUS
<1> HIDE DEF S
<1>3. /\ Append(x, e) \in Seq(S) /\ Len(Append(x, e)) = Len(x) + 1
      /\ Append(x, e)[Len(x) + 1] = e
      /\ \A i \in 1..Len(x) : Append(x, e)[i] = x[i]
  BY <1>1, <1>2
<1>4. Len(Append(x, e)) \in Nat /\ Append(x, e) = [j \in 1..Len(Append(x, e)) |-> Append(x, e)[j]]
  <2> DEFINE y == Append(x, e)
  <2>1. y \in Seq(S)
    BY <1>3
  <2> HIDE DEF y
  <2>2. Len(y) \in Nat /\ y = [j \in 1..Len(y) |-> y[j]]
    BY <2>1
  <2> QED
    BY <2>2 DEF y
<1> QED
  BY <1>3, <1>4, SeqIntro

LEMMA RequestIsOne ==
  ASSUME NEW what
  PROVE  /\ Requested(Request(what)) /\ ~Request(what).served /\ Request(what).what = what
BY DEF Requested, Request

\* What a change to the requests keeps of the rest of a screen.
SameButReads(q, r) == /\ q.link = r.link /\ q.rooms = r.rooms /\ q.joining = r.joining
                      /\ q.inbox = r.inbox /\ q.shown = r.shown /\ q.live = r.live
                      /\ q.busy = r.busy /\ q.failed = r.failed /\ q.behind = r.behind

LEMMA PutReads ==
  ASSUME NEW r, Holds(r), NEW new
  PROVE  LET q == [r EXCEPT !.reads = new]
         IN  Holds(q) /\ q.reads = new /\ SameButReads(q, r)
BY DEF Holds, SameButReads

\* refresh puts one more request behind the others.
LEMMA RefreshFacts ==
  ASSUME NEW r, Holds(r), Asking(r), NEW what
  PROVE  /\ Holds(refresh(r, what)) /\ SameButReads(refresh(r, what), r)
         /\ Asking(refresh(r, what)) /\ refresh(r, what).reads # <<>>
         /\ Newest(refresh(r, what)) = Request(what)
         /\ \A i \in DOMAIN refresh(r, what).reads :
              \/ refresh(r, what).reads[i] = Request(what)
              \/ i \in DOMAIN r.reads /\ refresh(r, what).reads[i] = r.reads[i]
<1> DEFINE q == Request(what)
           new == Append(r.reads, q)
<1>1. refresh(r, what) = [r EXCEPT !.reads = new]
  BY DEF refresh, Holds
<1>2. /\ Holds(refresh(r, what)) /\ refresh(r, what).reads = new
      /\ SameButReads(refresh(r, what), r)
  BY <1>1, PutReads
<1>3. IsList(r.reads) /\ Len(r.reads) \in Nat /\ DOMAIN r.reads = 1..Len(r.reads)
  BY SeqFacts DEF Asking
<1>q. Requested(q) /\ Request(what) = q
  BY RequestIsOne
<1> HIDE DEF q
<1>4. /\ IsList(new) /\ Len(new) = Len(r.reads) + 1 /\ new[Len(r.reads) + 1] = q
      /\ \A i \in 1..Len(r.reads) : new[i] = r.reads[i]
  BY <1>3, AppendFacts
<1>5. DOMAIN new = 1..(Len(r.reads) + 1) /\ new # <<>>
  BY <1>3, <1>4, SeqFacts
<1> HIDE DEF new
<1>6. \A i \in DOMAIN new : new[i] = q \/ (i \in DOMAIN r.reads /\ new[i] = r.reads[i])
  BY <1>3, <1>4, <1>5
<1>7. \A i \in DOMAIN new : Requested(new[i])
  BY <1>6, <1>q DEF Asking
<1> QED
  BY <1>2, <1>4, <1>5, <1>6, <1>7, <1>q DEF Asking, Newest

\* Without takes one request out; the ones before it are overtaken.
LEMMA WithoutFacts ==
  ASSUME NEW r, Asking(r), NEW i \in DOMAIN r.reads
  PROVE  /\ IsList(Without(r, i)) /\ Len(Without(r, i)) = Len(r.reads) - 1
         /\ \A j \in DOMAIN Without(r, i) :
              /\ Requested(Without(r, i)[j])
              /\ \E k \in DOMAIN r.reads : /\ Without(r, i)[j].what = r.reads[k].what
                                           /\ Without(r, i)[j].served = r.reads[k].served
                                           /\ Without(r, i)[j].value = r.reads[k].value
         /\ Without(r, i) # <<>> =>
              /\ i = Len(r.reads) => Without(r, i)[Len(Without(r, i))].overtaken
              /\ i # Len(r.reads) => Without(r, i)[Len(Without(r, i))] = Newest(r)
<1> DEFINE q == r.reads
           m == Len(q)
           w == Without(r, i)
           mark == [j \in DOMAIN q |-> [q[j] EXCEPT !.overtaken = @ \/ j < i]]
<1>1. IsList(q) /\ m \in Nat /\ DOMAIN q = 1..m /\ i \in 1..m
  BY SeqFacts DEF Asking
<1>2. \A j \in 1..m : /\ Requested(mark[j])
                      /\ mark[j].what = q[j].what /\ mark[j].served = q[j].served
                      /\ mark[j].value = q[j].value
                      /\ j < i => mark[j].overtaken
                      /\ ~(j < i) => mark[j] = q[j]
  <2> TAKE j \in 1..m
  <2>1. Requested(q[j])
    BY <1>1 DEF Asking
  <2>2. mark[j] = [q[j] EXCEPT !.overtaken = @ \/ j < i]
    BY <1>1
  <2>3. q[j].overtaken \in BOOLEAN /\ (j < i) \in BOOLEAN
    BY <2>1 DEF Requested
  <2>4. CASE j < i
    <3>1. mark[j] = [q[j] EXCEPT !.overtaken = TRUE]
      BY <2>2, <2>3, <2>4
    <3> QED
      BY <2>1, <3>1, <2>4 DEF Requested
  <2>5. CASE ~(j < i)
    <3>1. mark[j] = [q[j] EXCEPT !.overtaken = @]
      BY <2>2, <2>3, <2>5, <2>1 DEF Requested
    <3> QED
      BY <2>1, <3>1, <2>5 DEF Requested
  <2> QED
    BY <2>4, <2>5
<1>3. DOMAIN mark = 1..m
  BY <1>1
<1>4. mark = [j \in 1..m |-> mark[j]]
  BY <1>1
<1>5. w = Removed(mark, i)
  BY DEF Without
<1> HIDE DEF mark
<1>6. Len(mark) = m
  BY <1>1, <1>4, SeqIntro
<1>7. w = [j \in 1..(m - 1) |-> mark[IF j < i THEN j ELSE j + 1]]
  BY <1>5, <1>6 DEF Removed
<1>8. m - 1 \in Nat
  BY <1>1
<1> HIDE DEF w
<1>9. w = [j \in 1..(m - 1) |-> w[j]]
  BY <1>7
<1>10. IsList(w) /\ Len(w) = m - 1 /\ DOMAIN w = 1..(m - 1)
  BY <1>8, <1>9, SeqIntro
<1>11. \A j \in DOMAIN w : /\ Requested(w[j])
                           /\ \E k \in DOMAIN q : /\ w[j].what = q[k].what
                                                  /\ w[j].served = q[k].served
                                                  /\ w[j].value = q[k].value
  <2> TAKE j \in DOMAIN w
  <2>1. CASE j < i
    <3>1. j \in 1..m /\ w[j] = mark[j]
      BY <1>1, <1>7, <1>10, <2>1
    <3> QED
      BY <1>1, <1>2, <3>1
  <2>2. CASE ~(j < i)
    <3>1. j + 1 \in 1..m /\ w[j] = mark[j + 1]
      BY <1>1, <1>7, <1>10, <2>2
    <3> QED
      BY <1>1, <1>2, <3>1
  <2> QED
    BY <2>1, <2>2
<1>12. ASSUME w # <<>>
       PROVE  /\ i = m => w[Len(w)].overtaken
              /\ i # m => w[Len(w)] = q[m]
  <2>1. m - 1 >= 1 /\ m - 1 \in 1..(m - 1) /\ Len(w) = m - 1
    BY <1>1, <1>10, <1>12, SeqFacts
  <2>2. CASE i = m
    BY <1>1, <1>2, <1>7, <2>1, <2>2
  <2>3. CASE i # m
    <3>1. w[m - 1] = mark[m]
      BY <1>1, <1>7, <2>1, <2>3
    <3> QED
      BY <1>1, <1>2, <2>1, <2>3, <3>1
  <2> QED
    BY <2>2, <2>3
<1> QED
  BY <1>10, <1>11, <1>12 DEF w, q, Newest

\* Removed alone: what is left of the requests.
LEMMA RemovedFacts ==
  ASSUME NEW r, Asking(r), NEW i \in DOMAIN r.reads
  PROVE  /\ IsList(Removed(r.reads, i)) /\ Len(Removed(r.reads, i)) = Len(r.reads) - 1
         /\ \A j \in DOMAIN Removed(r.reads, i) :
              \E k \in DOMAIN r.reads : Removed(r.reads, i)[j] = r.reads[k]
<1> DEFINE q == r.reads
           m == Len(q)
           w == Removed(q, i)
<1>1. IsList(q) /\ m \in Nat /\ DOMAIN q = 1..m /\ i \in 1..m /\ m - 1 \in Nat
  BY SeqFacts DEF Asking
<1>2. w = [j \in 1..(m - 1) |-> q[IF j < i THEN j ELSE j + 1]]
  BY DEF Removed
<1> HIDE DEF w
<1>3. w = [j \in 1..(m - 1) |-> w[j]]
  BY <1>2
<1>4. IsList(w) /\ Len(w) = m - 1 /\ DOMAIN w = 1..(m - 1)
  BY <1>1, <1>3, SeqIntro
<1>5. \A j \in 1..(m - 1) : j \in 1..m /\ j + 1 \in 1..m
  BY <1>1
<1>6. \A j \in DOMAIN w : \E k \in DOMAIN q : w[j] = q[k]
  BY <1>1, <1>2, <1>4, <1>5
<1> QED
  BY <1>4, <1>6 DEF w, q

\* The server reads for a request, of a sequence or by key.
LEMMA ServedFacts ==
  ASSUME NEW r, Holds(r), NEW i \in DOMAIN r.reads, NEW v, Requested(r.reads[i]),
         r.reads = [k \in DOMAIN r.reads |-> r.reads[k]]
  PROVE  LET q == Served(r, i, v)
         IN  /\ Holds(q) /\ SameButReads(q, r)
             /\ q.reads = [k \in DOMAIN r.reads |-> IF k = i THEN q.reads[i] ELSE r.reads[k]]
             /\ Requested(q.reads[i]) /\ q.reads[i].what = r.reads[i].what
             /\ q.reads[i].served /\ q.reads[i].value = v
             /\ q.reads[i].overtaken = r.reads[i].overtaken
<1> DEFINE a == [r.reads[i] EXCEPT !.served = TRUE]
           b == [a EXCEPT !.value = v]
           x == [r.reads EXCEPT ![i] = a]
           y == [x EXCEPT ![i] = b]
           p == [r EXCEPT !.reads = x]
           q == [p EXCEPT !.reads = y]
<1>1. Requested(b) /\ b.what = r.reads[i].what /\ b.served /\ b.value = v
      /\ b.overtaken = r.reads[i].overtaken
  BY DEF Requested
<1>2. x[i] = a
  OBVIOUS
<1>3. p.reads = x /\ Holds(p) /\ SameButReads(p, r)
  BY PutReads
<1>4. Served(r, i, v) = [p EXCEPT !.reads = [p.reads EXCEPT ![i] = [p.reads[i] EXCEPT !.value = v]]]
  BY DEF Served
<1>5. Served(r, i, v) = q
  BY <1>2, <1>3, <1>4
<1> HIDE DEF p
<1>6. q.reads = y /\ Holds(q) /\ SameButReads(q, p)
  BY <1>3, PutReads
<1> HIDE DEF a, b
<1>7. y = [k \in DOMAIN r.reads |-> IF k = i THEN b ELSE r.reads[k]]
  OBVIOUS
<1> HIDE DEF x, y, q
<1> QED
  BY <1>1, <1>3, <1>5, <1>6, <1>7 DEF SameButReads

LEMMA ServedTells ==
  ASSUME NEW r, Holds(r), Asking(r), NEW i \in DOMAIN r.reads, NEW v
  PROVE  LET q == Served(r, i, v)
         IN  /\ Holds(q) /\ SameButReads(q, r) /\ Asking(q)
             /\ DOMAIN q.reads = DOMAIN r.reads /\ Len(q.reads) = Len(r.reads)
             /\ \A k \in DOMAIN q.reads : q.reads[k].what = r.reads[k].what
             /\ \A k \in DOMAIN q.reads : q.reads[k] = r.reads[k] \/ q.reads[k].value = v
             /\ q.reads # <<>> /\ r.reads # <<>>
             /\ Newest(q) = Newest(r) \/ (Newest(q).value = v /\ Newest(q).overtaken = Newest(r).overtaken)
<1> DEFINE q == Served(r, i, v)
<1>1. IsList(r.reads) /\ Len(r.reads) \in Nat /\ DOMAIN r.reads = 1..Len(r.reads)
      /\ r.reads = [k \in 1..Len(r.reads) |-> r.reads[k]] /\ r.reads # <<>>
      /\ \A k \in DOMAIN r.reads : Requested(r.reads[k])
  BY SeqFacts DEF Asking
<1>2. /\ Holds(q) /\ SameButReads(q, r)
      /\ q.reads = [k \in DOMAIN r.reads |-> IF k = i THEN q.reads[i] ELSE r.reads[k]]
      /\ Requested(q.reads[i]) /\ q.reads[i].what = r.reads[i].what
      /\ q.reads[i].value = v /\ q.reads[i].overtaken = r.reads[i].overtaken
  BY <1>1, ServedFacts
<1> HIDE DEF q
<1>3. q.reads = [k \in 1..Len(r.reads) |-> q.reads[k]] /\ \A k \in 1..Len(r.reads) : k # i => q.reads[k] = r.reads[k]
  BY <1>1, <1>2
<1>4. IsList(q.reads) /\ Len(q.reads) = Len(r.reads) /\ DOMAIN q.reads = 1..Len(r.reads)
  BY <1>1, <1>3, SeqIntro
<1>5. q.reads # <<>> /\ Len(r.reads) \in DOMAIN r.reads
  BY <1>1, <1>4, SeqFacts
<1> QED
  BY <1>1, <1>2, <1>3, <1>4, <1>5 DEF Asking, Newest, q

\* Request i is answered, or fails.
LEMMA ArrivedTells ==
  ASSUME NEW r, Holds(r), Asking(r), NEW i \in DOMAIN r.reads, NEW v
  PROVE  LET q == Arrived(r, i, v)
         IN  /\ Holds(q) /\ Asking(q) /\ q.behind \in BOOLEAN
             /\ q.link = r.link /\ q.rooms = r.rooms /\ q.joining = r.joining
             /\ q.inbox = r.inbox /\ q.shown = v /\ q.live = r.live /\ q.busy = r.busy
             /\ r.reads # <<>> /\ Len(q.reads) = Len(r.reads) - 1
             /\ \A j \in DOMAIN q.reads :
                  \E k \in DOMAIN r.reads : /\ q.reads[j].what = r.reads[k].what
                                            /\ q.reads[j].served = r.reads[k].served
                                            /\ q.reads[j].value = r.reads[k].value
             /\ q.reads = <<>> /\ ~q.behind => Newest(r) = r.reads[i] /\ ~Newest(r).overtaken
             /\ q.reads # <<>> => Newest(q).overtaken \/ Newest(q) = Newest(r)
<1> DEFINE q == Arrived(r, i, v)
           w == Without(r, i)
<1>1. IsList(r.reads) /\ Len(r.reads) \in Nat /\ DOMAIN r.reads = 1..Len(r.reads)
      /\ r.reads # <<>> /\ Requested(r.reads[i])
  BY SeqFacts DEF Asking
<1>2. /\ IsList(w) /\ Len(w) = Len(r.reads) - 1
      /\ \A j \in DOMAIN w : /\ Requested(w[j])
                             /\ \E k \in DOMAIN r.reads : /\ w[j].what = r.reads[k].what
                                                          /\ w[j].served = r.reads[k].served
                                                          /\ w[j].value = r.reads[k].value
      /\ w # <<>> => /\ i = Len(r.reads) => w[Len(w)].overtaken
                     /\ i # Len(r.reads) => w[Len(w)] = Newest(r)
  BY WithoutFacts
<1> HIDE DEF w
<1>3. q = [r EXCEPT !.shown = v, !.failed = FALSE, !.behind = r.reads[i].overtaken, !.reads = w]
  BY DEF Arrived, w
<1>4. /\ Holds(q) /\ q.link = r.link /\ q.rooms = r.rooms /\ q.joining = r.joining
      /\ q.inbox = r.inbox /\ q.shown = v /\ q.live = r.live /\ q.busy = r.busy
      /\ q.behind = r.reads[i].overtaken /\ q.reads = w
  BY <1>3 DEF Holds
<1> HIDE DEF q
<1>5. q.behind \in BOOLEAN
  BY <1>1, <1>4 DEF Requested
<1>6. w = <<>> => Len(r.reads) = 1 /\ i = Len(r.reads)
  BY <1>1, <1>2, SeqFacts
<1>7. Asking(q)
  BY <1>2, <1>4 DEF Asking
<1> QED
  BY <1>1, <1>2, <1>4, <1>5, <1>6, <1>7 DEF Newest, q

\* A screen after its request i has failed, and what is then known of it.
Lost(r, i, f) == [r EXCEPT !.reads = Without(r, i), !.behind = TRUE, !.failed = f]
LostOne(q, r) ==
  /\ Holds(q) /\ Asking(q) /\ q.behind = TRUE
  /\ q.link = r.link /\ q.rooms = r.rooms /\ q.joining = r.joining
  /\ q.inbox = r.inbox /\ q.shown = r.shown /\ q.live = r.live
  /\ r.reads # <<>> /\ Len(q.reads) = Len(r.reads) - 1
  /\ \A j \in DOMAIN q.reads :
       \E k \in DOMAIN r.reads : /\ q.reads[j].what = r.reads[k].what
                                 /\ q.reads[j].served = r.reads[k].served
                                 /\ q.reads[j].value = r.reads[k].value
  /\ q.reads # <<>> => Newest(q).overtaken \/ Newest(q) = Newest(r)

LEMMA LostTells ==
  ASSUME NEW r, Holds(r), Asking(r), NEW i \in DOMAIN r.reads, NEW f
  PROVE  LostOne(Lost(r, i, f), r)
<1> DEFINE w == Without(r, i)
           q == Lost(r, i, f)
<1>1. IsList(r.reads) /\ Len(r.reads) \in Nat /\ DOMAIN r.reads = 1..Len(r.reads) /\ r.reads # <<>>
  BY SeqFacts DEF Asking
<1>2. /\ IsList(w) /\ Len(w) = Len(r.reads) - 1
      /\ \A j \in DOMAIN w : /\ Requested(w[j])
                             /\ \E k \in DOMAIN r.reads : /\ w[j].what = r.reads[k].what
                                                          /\ w[j].served = r.reads[k].served
                                                          /\ w[j].value = r.reads[k].value
      /\ w # <<>> => /\ i = Len(r.reads) => w[Len(w)].overtaken
                     /\ i # Len(r.reads) => w[Len(w)] = Newest(r)
  BY WithoutFacts
<1>4. /\ Holds(q) /\ q.link = r.link /\ q.rooms = r.rooms /\ q.joining = r.joining
      /\ q.inbox = r.inbox /\ q.shown = r.shown /\ q.live = r.live
      /\ q.behind = TRUE /\ q.reads = w
  BY DEF Holds, Lost
<1> HIDE DEF w, q
<1>7. Asking(q)
  BY <1>2, <1>4 DEF Asking
<1> QED
  BY <1>1, <1>2, <1>4, <1>7 DEF LostOne, Newest, q, w

\* invalidate leaves one request, which has read nothing new yet or is overtaken.
LEMMA InvalidateTells ==
  ASSUME NEW r, Holds(r), Asking(r), Len(r.reads) <= 1
  PROVE  LET q == invalidate(r)
         IN  /\ Holds(q) /\ SameButReads(q, r) /\ Asking(q)
             /\ q.reads # <<>> /\ Len(q.reads) = 1
             /\ ~Newest(q).served \/ Newest(q).overtaken
<1> DEFINE q == invalidate(r)
           new == <<Request("query")>>
           e == Request("query")
<1>1. IsList(r.reads) /\ Len(r.reads) \in Nat /\ DOMAIN r.reads = 1..Len(r.reads)
      /\ (r.reads = <<>> <=> Len(r.reads) = 0) /\ r.reads = [k \in 1..Len(r.reads) |-> r.reads[k]]
  BY SeqFacts DEF Asking
<1>2. CASE r.reads = <<>> \/ r.shown # Nothing
  <2>1. q = [r EXCEPT !.reads = new]
    BY <1>2 DEF invalidate
  <2>2. Requested(e) /\ ~e.served
    BY RequestIsOne
  <2>3. new = [j \in 1..1 |-> e] /\ new # <<>>
    OBVIOUS
  <2> HIDE DEF e, q, new
  <2>4. new = [j \in 1..1 |-> new[j]] /\ new[1] = e
    BY <2>3
  <2>s. IsList(new) /\ Len(new) = 1 /\ DOMAIN new = 1..1
    BY <2>4, SeqIntro
  <2>5. IsList(new) /\ Len(new) = 1 /\ DOMAIN new = 1..1 /\ new # <<>>
    BY <2>s, <2>3
  <2>6. Holds(q) /\ q.reads = new /\ SameButReads(q, r)
    BY <2>1, PutReads
  <2> QED
    BY <2>2, <2>4, <2>5, <2>6 DEF Asking, Newest, q
<1>3. CASE ~(r.reads = <<>> \/ r.shown # Nothing)
  <2> DEFINE a == r.reads[1]
             b == [a EXCEPT !.overtaken = @ \/ a.served]
             x == [r.reads EXCEPT ![1] = b]
  <2>1. q = [r EXCEPT !.reads = x]
    BY <1>3 DEF invalidate
  <2>l. Len(r.reads) = 1 /\ 1 \in DOMAIN r.reads
    <3>1. PICK n : n = Len(r.reads)
      OBVIOUS
    <3>2. n \in Nat /\ n # 0 /\ n <= 1 /\ DOMAIN r.reads = 1..n
      <4>1. IsList(r.reads)
        BY DEF Asking
      <4>2. Len(r.reads) \in Nat /\ DOMAIN r.reads = 1..Len(r.reads) /\ (r.reads = <<>> <=> Len(r.reads) = 0)
        BY <4>1, SeqFacts
      <4> QED
        BY <1>3, <3>1, <4>2
    <3>3. n = 1
      BY <3>2
    <3> QED
      BY <3>1, <3>2, <3>3
  <2>2. Len(r.reads) = 1 /\ 1 \in DOMAIN r.reads /\ Requested(a)
    BY <2>l DEF Asking
  <2>3. a.served \in BOOLEAN /\ a.overtaken \in BOOLEAN
    BY <2>2 DEF Requested
  <2>4. Requested(b) /\ (~b.served \/ b.overtaken)
    <3>1. CASE a.served
      BY <2>2, <2>3, <3>1, b = [a EXCEPT !.overtaken = TRUE] DEF Requested
    <3>2. CASE ~a.served
      BY <2>2, <2>3, <3>2 DEF Requested
    <3> QED
      BY <2>3, <3>1, <3>2
  <2>5. x = [j \in 1..1 |-> b]
    BY <1>1, <2>2
  <2> HIDE DEF b, q, x
  <2>6. x = [j \in 1..1 |-> x[j]] /\ x[1] = b
    BY <2>5
  <2>s. IsList(x) /\ Len(x) = 1 /\ DOMAIN x = 1..1
    BY <2>6, SeqIntro
  <2>7. IsList(x) /\ Len(x) = 1 /\ DOMAIN x = 1..1 /\ x # <<>>
    <3>1. x = <<>> <=> Len(x) = 0
      BY <2>s, SeqFacts
    <3> QED
      BY <2>s, <3>1
  <2>8. Holds(q) /\ q.reads = x /\ SameButReads(q, r)
    BY <2>1, PutReads
  <2> QED
    BY <2>4, <2>6, <2>7, <2>8 DEF Asking, Newest, q
<1> QED
  BY <1>2, <1>3

-----------------------------------------------------------------------------
(***************************************************************************)
(* The query cache                                                         *)
(***************************************************************************)
SameLine(q, r) == /\ q.link = r.link /\ q.rooms = r.rooms /\ q.joining = r.joining
                  /\ q.inbox = r.inbox /\ q.live = r.live /\ q.busy = r.busy
                  /\ q.failed = r.failed

LEMMA AskedFacts ==
  ASSUME NEW r, Holds(r), NEW keys, CacheOf(r, keys), NEW some \in SUBSET keys
  PROVE  LET q == Asked(r, some)
         IN  /\ Holds(q) /\ SameButReads(q, r) /\ CacheOf(q, keys)
             /\ DOMAIN q.reads = DOMAIN r.reads \cup some
             /\ \A k \in some : ~q.reads[k].served
             /\ \A k \in DOMAIN r.reads \ some : q.reads[k] = r.reads[k]
<1> DEFINE D == DOMAIN r.reads \cup some
           new == [key \in D |-> IF key \in some THEN Request(key) ELSE r.reads[key]]
           q == Asked(r, some)
<1>1. q = [r EXCEPT !.reads = new]
  BY DEF Asked
<1>2. \A k \in some : Requested(Request(k)) /\ ~Request(k).served
  BY RequestIsOne
<1>3. /\ DOMAIN new = D /\ new = [k \in D |-> new[k]]
      /\ \A k \in some : new[k] = Request(k)
      /\ \A k \in DOMAIN r.reads \ some : new[k] = r.reads[k]
  OBVIOUS
<1> HIDE DEF new, q
<1>4. Holds(q) /\ q.reads = new /\ SameButReads(q, r)
  BY <1>1, PutReads
<1>5. \A k \in DOMAIN new : Requested(new[k])
  BY <1>2, <1>3 DEF CacheOf, Cached
<1>6. Cached(q)
  BY <1>3, <1>4, <1>5 DEF CacheOf, Cached, SameButReads
<1>7. CacheOf(q, keys)
  BY <1>3, <1>4, <1>6 DEF CacheOf, SameButReads
<1> QED
  BY <1>2, <1>3, <1>4, <1>7 DEF q

\* A query that comes on screen is asked for, or what is kept of it is in force.
LEMMA LookedAtFacts ==
  ASSUME NEW r, Holds(r), NEW keys, CacheOf(r, keys), NEW looked \in SUBSET keys, NEW old
  PROVE  LET q == LookedAt(r, looked, old)
         IN  /\ Holds(q) /\ SameButReads(q, r) /\ CacheOf(q, keys)
             /\ \A key, active, good :
                  Current(r, key, active, good) => Current(q, key, active \cup looked, good)
<1> DEFINE some == {key \in looked \ DOMAIN r.reads :
                      r.shown.data[key] = Nothing \/ key \in r.shown.stale \/ old}
           q == LookedAt(r, looked, old)
<1>1. q = Asked(r, some) /\ some \in SUBSET keys
  BY DEF LookedAt
<1>2. \A key \in looked \ DOMAIN r.reads :
        key \notin some => r.shown.data[key] # Nothing /\ key \notin r.shown.stale
  OBVIOUS
<1>k. some \subseteq looked \ DOMAIN r.reads
  OBVIOUS
<1> HIDE DEF some, q
<1>3. /\ Holds(q) /\ SameButReads(q, r) /\ CacheOf(q, keys)
      /\ DOMAIN q.reads = DOMAIN r.reads \cup some
      /\ \A k \in some : ~q.reads[k].served
      /\ \A k \in DOMAIN r.reads \ some : q.reads[k] = r.reads[k]
  BY <1>1, AskedFacts
<1>4. q.shown = r.shown
  BY <1>3 DEF SameButReads
<1>5. ASSUME NEW key, NEW active, NEW good, Current(r, key, active, good)
      PROVE  Current(q, key, active \cup looked, good)
  BY <1>2, <1>k, <1>3, <1>4, <1>5 DEF Current, InForce
<1> QED
  BY <1>3, <1>5 DEF q

\* Everything that is invalidated is asked for again, overtaken, or marked.
LEMMA InvalidatedFacts ==
  ASSUME NEW r, Holds(r), NEW keys, CacheOf(r, keys), NEW active \in SUBSET keys
  PROVE  LET q == Invalidated(r, keys, active)
         IN  /\ Holds(q) /\ SameLine(q, r) /\ CacheOf(q, keys)
             /\ q.shown.data = r.shown.data /\ q.shown.group = r.shown.group
             /\ active \subseteq DOMAIN q.reads
             /\ \A key \in keys : \A good : Current(q, key, active, good)
<1> DEFINE kept == Kept(r, keys, active)
           new == [key \in DOMAIN r.reads |->
                     [r.reads[key] EXCEPT !.overtaken = @ \/ (key \in kept /\ r.reads[key].served)]]
           shown == [r.shown EXCEPT !.stale = @ \cup (keys \ active)]
           p == [r EXCEPT !.shown = shown, !.reads = new]
           some == (keys \cap active) \ kept
           q == Invalidated(r, keys, active)
<1>1. q = Asked(p, some)
  BY DEF Invalidated
<1>2. /\ shown \in [data : {shown.data}, stale : {shown.stale}, behind : {shown.behind},
                    group : {shown.group}]
      /\ shown.data = r.shown.data /\ shown.behind = r.shown.behind
      /\ shown.group = r.shown.group /\ shown.stale = r.shown.stale \cup (keys \ active)
  BY DEF CacheOf, Cached
<1>3. \A key \in DOMAIN r.reads :
        /\ Requested(new[key])
        /\ key \in kept => ~new[key].served \/ new[key].overtaken
  <2> TAKE key \in DOMAIN r.reads
  <2> DEFINE a == r.reads[key]
             b == [a EXCEPT !.overtaken = @ \/ (key \in kept /\ a.served)]
  <2>1. Requested(a) /\ new[key] = b
    BY DEF CacheOf, Cached
  <2>2. a.served \in BOOLEAN /\ a.overtaken \in BOOLEAN
    BY <2>1 DEF Requested
  <2> HIDE DEF a
  <2>3. CASE key \in kept /\ a.served
    <3>1. b = [a EXCEPT !.overtaken = TRUE]
      BY <2>3
    <3> QED
      BY <2>1, <2>2, <3>1 DEF Requested
  <2>4. CASE ~(key \in kept /\ a.served)
    <3>1. b = [a EXCEPT !.overtaken = @]
      BY <2>1, <2>2, <2>4 DEF Requested
    <3> QED
      BY <2>1, <2>2, <2>4, <3>1 DEF Requested
  <2> QED
    BY <2>3, <2>4
<1>4. new = [key \in DOMAIN r.reads |-> new[key]] /\ DOMAIN new = DOMAIN r.reads
  OBVIOUS
<1>5. kept \subseteq keys \cap DOMAIN r.reads
      /\ \A key \in keys \cap DOMAIN r.reads : key \notin active => key \in kept
  BY DEF Kept
<1> HIDE DEF kept, new, shown
<1>6. Holds(p) /\ p.shown = shown /\ p.reads = new /\ SameLine(p, r)
  BY DEF Holds, SameLine
<1> HIDE DEF p
<1>7. Cached(p) /\ CacheOf(p, keys)
  BY <1>2, <1>3, <1>4, <1>6 DEF CacheOf, Cached
<1>8. some \in SUBSET keys
  OBVIOUS
<1>s. some \subseteq active /\ active \subseteq some \cup kept
  OBVIOUS
<1> HIDE DEF some, q
<1>9. /\ Holds(q) /\ SameButReads(q, p) /\ CacheOf(q, keys)
      /\ DOMAIN q.reads = DOMAIN p.reads \cup some
      /\ \A k \in some : ~q.reads[k].served
      /\ \A k \in DOMAIN p.reads \ some : q.reads[k] = p.reads[k]
  BY <1>1, <1>6, <1>7, <1>8, AskedFacts
<1>10. q.shown = shown /\ SameLine(q, r)
  BY <1>6, <1>9 DEF SameButReads, SameLine
<1>11. active \subseteq DOMAIN q.reads
  BY <1>s, <1>4, <1>5, <1>6, <1>9
<1>12. ASSUME NEW key \in keys, NEW good PROVE Current(q, key, active, good)
  <2>1. ASSUME key \in DOMAIN q.reads PROVE ~q.reads[key].served \/ q.reads[key].overtaken
    <3>1. CASE key \in some
      BY <1>9, <3>1
    <3>2. CASE key \notin some
      <4>1. key \in DOMAIN r.reads /\ q.reads[key] = new[key]
        BY <1>4, <1>6, <1>9, <2>1, <3>2
      <4>2. key \in kept
        BY <1>s, <1>5, <3>2, <4>1
      <4> QED
        BY <1>3, <4>1, <4>2
    <3> QED
      BY <3>1, <3>2
  <2>2. ASSUME key \notin DOMAIN q.reads PROVE ~InForce(q, key, active)
    <3>1. key \notin active
      BY <1>11, <2>2
    <3>2. key \in q.shown.stale
      BY <1>2, <1>10, <3>1
    <3> QED
      BY <3>1, <3>2 DEF InForce
  <2> QED
    BY <2>1, <2>2 DEF Current
<1> QED
  BY <1>2, <1>9, <1>10, <1>11, <1>12 DEF q

\* A request is over: its answer takes the place of what was kept, or it fails.
LEMMA CacheAnsweredFacts ==
  ASSUME NEW r, Holds(r), NEW keys, CacheOf(r, keys), NEW key \in DOMAIN r.reads, r.reads[key].served
  PROVE  LET q == CacheAnswered(r, key)
         IN  /\ Holds(q) /\ SameLine(q, r) /\ CacheOf(q, keys)
             /\ DOMAIN q.reads = DOMAIN r.reads \ {key} /\ q.shown.group = r.shown.group
             /\ \A k \in DOMAIN r.reads \ {key} : q.reads[k] = r.reads[k]
             /\ q.shown.data = [r.shown.data EXCEPT ![key] = r.reads[key].value]
             /\ \A k, active, good : Current(r, k, active, good) => Current(q, k, active, good)
<1> DEFINE x == r.reads[key]
           new == Unasked(r.reads, {key})
           d == [r.shown.data EXCEPT ![key] = x.value]
           st == r.shown.stale \ {key}
           be == IF x.overtaken THEN r.shown.behind \cup {key} ELSE r.shown.behind \ {key}
           q == CacheAnswered(r, key)
<1>0. r.shown \in [data : {r.shown.data}, stale : {r.shown.stale}, behind : {r.shown.behind},
                   group : {r.shown.group}]
  BY DEF CacheOf, Cached
<1>1. q = [r EXCEPT !.reads = new, !.shown = [@ EXCEPT !.data = d, !.stale = st, !.behind = be]]
  BY <1>0 DEF CacheAnswered, Holds
<1>2. /\ DOMAIN new = DOMAIN r.reads \ {key} /\ new = [k \in DOMAIN new |-> new[k]]
      /\ \A k \in DOMAIN new : new[k] = r.reads[k]
  BY DEF Unasked
<1>3. key \in keys /\ Requested(x) /\ r.shown.data = [k \in keys |-> r.shown.data[k]]
  BY DEF CacheOf, Cached
<1>4. /\ d = [k \in keys |-> d[k]] /\ d[key] = x.value
      /\ \A k : k # key => d[k] = r.shown.data[k]
  BY <1>3
<1>5. \A k : k # key => (k \in st <=> k \in r.shown.stale) /\ (k \in be <=> k \in r.shown.behind)
  OBVIOUS
<1>6. key \notin be => ~x.overtaken
  OBVIOUS
<1> HIDE DEF new, d, st, be, q
<1>7. /\ Holds(q) /\ SameLine(q, r) /\ q.reads = new
      /\ q.shown \in [data : {q.shown.data}, stale : {q.shown.stale}, behind : {q.shown.behind},
                      group : {q.shown.group}]
      /\ q.shown.data = d /\ q.shown.stale = st /\ q.shown.behind = be
      /\ q.shown.group = r.shown.group
  BY <1>0, <1>1 DEF Holds, SameLine
<1>8. \A k \in DOMAIN new : Requested(new[k])
  BY <1>2 DEF CacheOf, Cached
<1>9. Cached(q)
  BY <1>2, <1>7, <1>8 DEF Cached
<1>10. CacheOf(q, keys)
  BY <1>2, <1>4, <1>7, <1>9 DEF CacheOf
<1>11. ASSUME NEW k, NEW active, NEW good, Current(r, k, active, good)
       PROVE  Current(q, k, active, good)
  <2>1. CASE k = key
    BY <1>2, <1>4, <1>6, <1>7, <1>11, <2>1 DEF Current
  <2>2. CASE k # key
    BY <1>2, <1>4, <1>5, <1>7, <1>11, <2>2 DEF Current, InForce
  <2> QED
    BY <2>1, <2>2
<1> QED
  BY <1>2, <1>7, <1>10, <1>11 DEF q, d

LEMMA CacheFailedFacts ==
  ASSUME NEW r, Holds(r), NEW keys, CacheOf(r, keys), NEW key \in DOMAIN r.reads
  PROVE  LET q == CacheFailed(r, key)
         IN  /\ Holds(q) /\ SameLine(q, r) /\ CacheOf(q, keys)
             /\ DOMAIN q.reads = DOMAIN r.reads \ {key} /\ q.shown.group = r.shown.group
             /\ \A k \in DOMAIN r.reads \ {key} : q.reads[k] = r.reads[k]
             /\ q.shown.data = r.shown.data
             /\ \A k, active, good : Current(r, k, active, good) => Current(q, k, active, good)
<1> DEFINE new == Unasked(r.reads, {key})
           st == r.shown.stale \cup {key}
           be == r.shown.behind \cup {key}
           q == CacheFailed(r, key)
<1>0. r.shown \in [data : {r.shown.data}, stale : {r.shown.stale}, behind : {r.shown.behind},
                   group : {r.shown.group}]
  BY DEF CacheOf, Cached
<1>1. q = [r EXCEPT !.reads = new, !.shown = [@ EXCEPT !.stale = st, !.behind = be]]
  BY <1>0 DEF CacheFailed, Holds
<1>2. /\ DOMAIN new = DOMAIN r.reads \ {key} /\ new = [k \in DOMAIN new |-> new[k]]
      /\ \A k \in DOMAIN new : new[k] = r.reads[k]
  BY DEF Unasked
<1>5. \A k : k # key => (k \in st <=> k \in r.shown.stale) /\ (k \in be <=> k \in r.shown.behind)
  OBVIOUS
<1>6. key \in be
  OBVIOUS
<1> HIDE DEF new, st, be, q
<1>7. /\ Holds(q) /\ SameLine(q, r) /\ q.reads = new
      /\ q.shown \in [data : {q.shown.data}, stale : {q.shown.stale}, behind : {q.shown.behind},
                      group : {q.shown.group}]
      /\ q.shown.data = r.shown.data /\ q.shown.stale = st /\ q.shown.behind = be
      /\ q.shown.group = r.shown.group
  BY <1>0, <1>1 DEF Holds, SameLine
<1>8. \A k \in DOMAIN new : Requested(new[k])
  BY <1>2 DEF CacheOf, Cached
<1>9. Cached(q)
  BY <1>2, <1>7, <1>8 DEF Cached
<1>10. CacheOf(q, keys)
  BY <1>2, <1>7, <1>9 DEF CacheOf
<1>11. ASSUME NEW k, NEW active, NEW good, Current(r, k, active, good)
       PROVE  Current(q, k, active, good)
  <2>1. CASE k = key
    BY <1>2, <1>6, <1>7, <1>11, <2>1 DEF Current
  <2>2. CASE k # key
    BY <1>2, <1>5, <1>7, <1>11, <2>2 DEF Current, InForce
  <2> QED
    BY <2>1, <2>2
<1> QED
  BY <1>2, <1>7, <1>10, <1>11 DEF q

\* The server reads for a key: good, if what it answers now is.
LEMMA CacheServedFacts ==
  ASSUME NEW r, Holds(r), NEW keys, CacheOf(r, keys), NEW key \in DOMAIN r.reads, NEW v
  PROVE  LET q == Served(r, key, v)
         IN  /\ Holds(q) /\ SameButReads(q, r) /\ CacheOf(q, keys)
             /\ DOMAIN q.reads = DOMAIN r.reads
             /\ \A k, active, good : (Current(r, k, active, good) /\ (k = key => v \in good))
                                     => Current(q, k, active, good)
<1> DEFINE q == Served(r, key, v)
<1>1. Requested(r.reads[key]) /\ r.reads = [k \in DOMAIN r.reads |-> r.reads[k]]
  BY DEF CacheOf, Cached
<1>2. /\ Holds(q) /\ SameButReads(q, r)
      /\ q.reads = [k \in DOMAIN r.reads |-> IF k = key THEN q.reads[key] ELSE r.reads[k]]
      /\ Requested(q.reads[key]) /\ q.reads[key].value = v
  BY <1>1, ServedFacts
<1> HIDE DEF q
<1>3. DOMAIN q.reads = DOMAIN r.reads /\ \A k \in DOMAIN r.reads : k # key => q.reads[k] = r.reads[k]
  BY <1>2
<1>4. q.reads = [k \in DOMAIN q.reads |-> q.reads[k]] /\ \A k \in DOMAIN q.reads : Requested(q.reads[k])
  <2>1. \A k \in DOMAIN q.reads : Requested(q.reads[k])
    BY <1>2, <1>3 DEF CacheOf, Cached
  <2> QED
    BY <1>2, <2>1
<1>5. q.shown = r.shown
  BY <1>2 DEF SameButReads
<1>6. Cached(q)
  BY <1>4, <1>5 DEF CacheOf, Cached
<1>7. CacheOf(q, keys)
  BY <1>3, <1>5, <1>6 DEF CacheOf
<1>8. ASSUME NEW k, NEW active, NEW good, Current(r, k, active, good), k = key => v \in good
      PROVE  Current(q, k, active, good)
  BY <1>2, <1>3, <1>5, <1>8 DEF Current, InForce
<1> QED
  BY <1>2, <1>3, <1>7, <1>8 DEF q

-----------------------------------------------------------------------------
(***************************************************************************)
(* Steps of one screen, and what a screen hears of the others' steps       *)
(***************************************************************************)
Stays(r, q) == /\ q.reads = r.reads /\ q.shown = r.shown /\ q.live = r.live /\ q.busy = r.busy
               /\ q.failed = r.failed /\ q.behind = r.behind
Prefixed(r, q) == /\ Len(r.inbox) <= Len(q.inbox)
                  /\ \A i \in DOMAIN r.inbox : q.inbox[i] = r.inbox[i]

\* A line that carries something, is made, refused or lost.
Carried(r, q) ==
  /\ Stays(r, q)
  /\ r.link \in {"closed", "off"} => q = r
  /\ r.link \notin {"closed", "off"} => q.link \in {"down", "up", "rejected"}
  /\ q.link = "up" => \/ r.link = "up" /\ Prefixed(r, q)
                      \/ News(q, {"connection:ready"})

LEMMA CarriedSame == ASSUME NEW r, Holds(r) PROVE Carried(r, r)
<1>1. r.link \in LINKS /\ r.inbox \in Seq(Event)
  BY DEF Holds
<1>2. Len(r.inbox) \in Nat
  BY <1>1
<1> QED
  BY <1>1, <1>2 DEF Carried, Stays, Prefixed, LINKS

\* What is not news afterwards was not news before.
LEMMA CarriedNews ==
  ASSUME NEW r, NEW q, Holds(r), Holds(q), Carried(r, q), NEW names, "connection:ready" \in names,
         q.link = "up", ~News(q, names)
  PROVE  r.link = "up" /\ ~News(r, names)
<1>1. ~News(q, {"connection:ready"})
  BY DEF News
<1>2. r.link = "up" /\ Prefixed(r, q)
  BY <1>1 DEF Carried
<1>3. \A i \in DOMAIN r.inbox : i \in DOMAIN q.inbox /\ q.inbox[i] = r.inbox[i]
  <2>1. r.inbox \in Seq(Event) /\ q.inbox \in Seq(Event)
    BY DEF Holds
  <2>2. DOMAIN r.inbox = 1..Len(r.inbox) /\ DOMAIN q.inbox = 1..Len(q.inbox)
        /\ Len(r.inbox) \in Nat /\ Len(q.inbox) \in Nat
    BY <2>1
  <2> QED
    BY <1>2, <2>2 DEF Prefixed
<1> QED
  BY <1>2, <1>3 DEF News

LEMMA PutFacts ==
  ASSUME Wired, NEW s \in scene.screens, NEW new, Put(s, new), Holds(new), LineOK(s, new),
         scene' = scene, losses' \in Nat
  PROVE  /\ Wired' /\ screen'[s] = new
         /\ \A t \in scene.screens \ {s} : screen'[t] = screen[t]
<1>1. screen' = [screen EXCEPT ![s] = new]
  BY DEF Put
<1>2. screen = [t \in scene.screens |-> screen[t]]
  BY DEF Wired
<1>3. /\ screen'[s] = new /\ screen' = [t \in scene.screens |-> screen'[t]]
      /\ \A t \in scene.screens \ {s} : screen'[t] = screen[t]
  BY <1>1, <1>2
<1>4. \A t \in scene.screens : Holds(screen'[t]) /\ LineOK(t, screen'[t])
  BY <1>3 DEF Wired
<1> QED
  BY <1>3, <1>4 DEF Wired

\* A line is only as before when nothing of it is touched.
LEMMA LineStays ==
  ASSUME NEW s, NEW r, NEW q, LineOK(s, r), q.link = r.link, q.rooms = r.rooms,
         q.joining = r.joining, q.inbox = r.inbox
  PROVE  LineOK(s, q)
BY DEF LineOK

-----------------------------------------------------------------------------
(***************************************************************************)
(* Hearts                                                                  *)
(***************************************************************************)
LEMMA ClosedFacts ==
  /\ Holds(Closed) /\ Closed.link = "closed" /\ Closed.rooms = {} /\ Closed.joining = {}
  /\ Closed.inbox = <<>> /\ Closed.reads = <<>> /\ Closed.shown = Nothing /\ Closed.live = <<>>
  /\ Closed.busy = FALSE /\ Closed.failed = FALSE /\ Closed.behind = FALSE
<1>1. <<>> \in Seq(Event)
  OBVIOUS
<1> QED
  BY <1>1 DEF Closed, Holds, LINKS

LEMMA EmptyCacheFacts ==
  ASSUME NEW keys
  PROVE  LET r == [Closed EXCEPT !.shown = EmptyCache(keys)]
         IN  /\ Holds(r) /\ CacheOf(r, keys) /\ r.link = "closed" /\ r.rooms = {} /\ r.joining = {}
             /\ r.inbox = <<>> /\ DOMAIN r.reads = {} /\ ~r.failed
             /\ \A key \in keys : r.shown.data[key] = Nothing
             /\ r.shown.group = "all"
<1> DEFINE r == [Closed EXCEPT !.shown = EmptyCache(keys)]
<1>1. /\ r.link = "closed" /\ r.rooms = {} /\ r.joining = {} /\ r.inbox = <<>> /\ r.reads = <<>>
      /\ r.shown = EmptyCache(keys) /\ r.failed = FALSE /\ Holds(r)
  BY ClosedFacts DEF Holds
<1>2. DOMAIN r.reads = {} /\ r.reads = [key \in DOMAIN r.reads |-> r.reads[key]]
  BY <1>1
<1> HIDE DEF r
<1>3. /\ r.shown \in [data : {r.shown.data}, stale : {r.shown.stale},
                      behind : {r.shown.behind}, group : {r.shown.group}]
      /\ r.shown.data = [key \in keys |-> r.shown.data[key]] /\ r.shown.group = "all"
      /\ \A key \in keys : r.shown.data[key] = Nothing
  BY <1>1 DEF EmptyCache
<1>4. CacheOf(r, keys)
  BY <1>2, <1>3 DEF CacheOf, Cached
<1> QED
  BY <1>1, <1>2, <1>3, <1>4 DEF r

\* A step of one heart screen.
LEMMA HeartScreenStep ==
  ASSUME Wired, HeartInv, NEW s \in On(HeartScreens), NEW new, Put(s, new),
         Holds(new), LineOK(s, new), scene' = scene, losses' \in Nat,
         toggles' = [k \in scene.toggles |-> toggles'[k]],
         \A k \in scene.toggles :
           /\ ToggleOK(toggles'[k])
           /\ toggles'[k].pc # "idle" =>
                toggles'[k].from = s \/ (toggles[k].pc # "idle" /\ toggles[k].from = toggles'[k].from),
         \A t \in On(HeartScreens) \ {s} : Over(t)' => Over(t),
         watched' = watched,
         new.link \in {"closed", "off"}, CacheOf(new, HeartKeys),
         HeartsFollow(s, new)'
  PROVE  Wired' /\ HeartInv' /\ \A t \in scene.screens \ HeartScreens : screen'[t] = screen[t]
<1>0. On(HeartScreens) \subseteq scene.screens /\ On(HeartScreens)' = On(HeartScreens)
      /\ \A t \in scene.screens \ HeartScreens : t # s
  BY DEF On
<1>1. /\ Wired' /\ screen'[s] = new
      /\ \A t \in scene.screens \ {s} : screen'[t] = screen[t]
  BY <1>0, PutFacts
<1>2. ASSUME NEW t \in On(HeartScreens) PROVE HeartsOK(t, screen[t])'
  <2>1. CASE t = s
    BY <1>1, <2>1 DEF HeartsOK
  <2>2. CASE t # s
    <3>1. screen'[t] = screen[t] /\ HeartsOK(t, screen[t])
      BY <1>0, <1>1, <2>2 DEF HeartInv
    <3>2. Over(t)' => Over(t)
      BY <2>2
    <3>3. \A key \in HeartKeys : HeartAnswer(t, key)' = HeartAnswer(t, key)
      BY DEF HeartAnswer, listOwn
    <3> QED
      BY <3>1, <3>2, <3>3 DEF HeartsOK, HeartsFollow
  <2> QED
    BY <2>1, <2>2
<1>3. ASSUME NEW k \in scene.toggles
      PROVE  ToggleOK(toggles[k])' /\ (toggles'[k].pc # "idle" => CacheOf(screen'[toggles'[k].from], HeartKeys))
  <2>1. ToggleOK(toggles[k])'
    BY DEF ToggleOK
  <2>2. ASSUME toggles'[k].pc # "idle" PROVE CacheOf(screen'[toggles'[k].from], HeartKeys)
    <3>1. CASE toggles'[k].from = s
      BY <1>1, <3>1
    <3>2. CASE toggles'[k].from # s
      <4>1. /\ toggles[k].from = toggles'[k].from /\ toggles[k].from \in On(HeartScreens)
            /\ CacheOf(screen[toggles[k].from], HeartKeys)
        BY <2>2, <3>2 DEF HeartInv, ToggleOK, On
      <4> QED
        BY <1>0, <1>1, <3>2, <4>1
    <3> QED
      BY <3>1, <3>2
  <2> QED
    BY <2>1, <2>2
<1> QED
  BY <1>0, <1>1, <1>2, <1>3 DEF HeartInv

LEMMA CurrentMoves ==
  ASSUME NEW r, NEW q, q.reads = r.reads, q.shown = r.shown, NEW active, NEW less \in SUBSET active
  PROVE  \A key, good : Current(r, key, active, good) => Current(q, key, less, good)
BY DEF Current, InForce

LEMMA CacheMoves ==
  ASSUME NEW r, NEW q, q.reads = r.reads, q.shown = r.shown, NEW keys, CacheOf(r, keys)
  PROVE  CacheOf(q, keys)
BY DEF CacheOf, Cached

LEMMA HeartPage ==
  ASSUME Wired, HeartInv, NEW s \in On(HeartScreens)
  PROVE  /\ Holds(screen[s]) /\ LineOK(s, screen[s]) /\ HeartsOK(s, screen[s])
         /\ screen[s].link \in {"closed", "off"}
         /\ screen[s].rooms = {} /\ screen[s].joining = {} /\ screen[s].inbox = <<>>
         /\ losses \in Nat /\ s \in scene.screens
         /\ toggles = [k \in scene.toggles |-> toggles[k]]
         /\ \A k \in scene.toggles :
              ToggleOK(toggles[k]) /\ (toggles[k].pc # "idle" => CacheOf(screen[toggles[k].from], HeartKeys))
BY DEF Wired, HeartInv, HeartsOK, On, LineOK

\* Changing the link between closed and off leaves nothing on the line.
LEMMA NoLine ==
  ASSUME NEW s, NEW q, q.link \in {"closed", "off"}, q.rooms = {}, q.joining = {}, q.inbox = <<>>
  PROVE  LineOK(s, q)
BY DEF LineOK

\* A step that leaves the presses to themselves.
LEMMA HeartOnlyScreen ==
  ASSUME Wired, HeartInv, NEW s \in On(HeartScreens), NEW new, Put(s, new),
         Holds(new), scene' = scene, losses' \in Nat, watched' = watched,
         toggles' = [k \in scene.toggles |-> toggles'[k]],
         \A k \in scene.toggles :
           /\ ToggleOK(toggles'[k]) /\ toggles'[k].from = toggles[k].from
           /\ toggles'[k].pc = toggles[k].pc \/ (toggles[k].pc = "wait" /\ toggles'[k].pc = "done"),
         new.link \in {"closed", "off"}, new.rooms = {}, new.joining = {}, new.inbox = <<>>,
         CacheOf(new, HeartKeys),
         Over(s) => \A key \in HeartKeys : Current(new, key, ActiveHearts(new), {HeartAnswer(s, key)})
  PROVE  Wired' /\ HeartInv' /\ \A t \in scene.screens \ HeartScreens : screen'[t] = screen[t]
<1>1. \A t : Over(t)' => Over(t)
  <2> SUFFICES ASSUME NEW t, Over(t)', NEW k \in scene.toggles
               PROVE  \/ toggles[k].pc = "idle"
                      \/ toggles[k].pc \in {"wait", "done"} /\ toggles[k].from = t
    BY DEF Over
  <2> QED
    BY DEF Over
<1>2. HeartsFollow(s, new)'
  BY <1>1 DEF HeartsFollow, HeartAnswer, listOwn
<1>3. LineOK(s, new)
  BY NoLine
<1> QED
  BY <1>1, <1>2, <1>3, HeartScreenStep

LEMMA MountHeartsKeeps ==
  ASSUME Wired, HeartInv, NEW s \in On(HeartScreens), NEW old, MountHearts(s, old), UNCHANGED scene
  PROVE  Wired' /\ HeartInv' /\ \A t \in scene.screens \ HeartScreens : screen'[t] = screen[t]
<1> DEFINE kept == IF screen[s].shown = Nothing THEN [Closed EXCEPT !.shown = EmptyCache(HeartKeys)]
                   ELSE screen[s]
           open == [kept EXCEPT !.link = "off"]
<1>n. PICK new : new = LookedAt(open, HeartKeys, old)
  OBVIOUS
<1>0. /\ Holds(screen[s]) /\ HeartsOK(s, screen[s])
      /\ screen[s].rooms = {} /\ screen[s].joining = {} /\ screen[s].inbox = <<>>
      /\ losses \in Nat /\ toggles = [k \in scene.toggles |-> toggles[k]]
      /\ \A k \in scene.toggles : ToggleOK(toggles[k])
  BY HeartPage
<1>1. screen[s].link = "closed" /\ Put(s, new) /\ losses' = losses /\ watched' = watched /\ toggles' = toggles
  BY <1>n DEF MountHearts, heartVars
<1>2. /\ Holds(kept) /\ CacheOf(kept, HeartKeys) /\ kept.rooms = {} /\ kept.joining = {}
      /\ kept.inbox = <<>>
      /\ Over(s) => \A key \in HeartKeys : Current(kept, key, {}, {HeartAnswer(s, key)})
  <2>1. CASE screen[s].shown = Nothing
    <3> DEFINE e == [Closed EXCEPT !.shown = EmptyCache(HeartKeys)]
    <3>1. /\ Holds(e) /\ CacheOf(e, HeartKeys) /\ e.rooms = {} /\ e.joining = {} /\ e.inbox = <<>>
          /\ DOMAIN e.reads = {} /\ \A key \in HeartKeys : e.shown.data[key] = Nothing
      BY EmptyCacheFacts
    <3>2. kept = e
      BY <2>1
    <3> HIDE DEF e, kept
    <3> QED
      BY <3>1, <3>2 DEF Current, InForce
  <2>2. CASE screen[s].shown # Nothing
    <3>1. kept = screen[s] /\ Used(screen[s]) /\ ActiveHearts(screen[s]) = {}
      BY <1>1, <2>2 DEF Used, ActiveHearts
    <3> QED
      BY <1>0, <3>1 DEF HeartsOK, HeartsFollow
  <2> QED
    BY <2>1, <2>2
<1> HIDE DEF kept
<1>3. /\ Holds(open) /\ open.link = "off" /\ open.reads = kept.reads /\ open.shown = kept.shown
      /\ open.rooms = {} /\ open.joining = {} /\ open.inbox = <<>>
  BY <1>2 DEF Holds, LINKS
<1> HIDE DEF open
<1>4. CacheOf(open, HeartKeys)
  BY <1>2, <1>3, CacheMoves
<1>5. Over(s) => \A key \in HeartKeys : Current(open, key, {}, {HeartAnswer(s, key)})
  BY <1>2, <1>3, CurrentMoves
<1>6. /\ Holds(new) /\ SameButReads(new, open) /\ CacheOf(new, HeartKeys)
      /\ \A key, active, good :
           Current(open, key, active, good) => Current(new, key, active \cup HeartKeys, good)
  BY <1>n, <1>3, <1>4, LookedAtFacts
<1>7. new.link = "off" /\ new.rooms = {} /\ new.joining = {} /\ new.inbox = <<>>
  BY <1>3, <1>6 DEF SameButReads
<1>8. ActiveHearts(new) = {} \cup HeartKeys
  BY <1>7 DEF ActiveHearts
<1>9. Over(s) => \A key \in HeartKeys : Current(new, key, ActiveHearts(new), {HeartAnswer(s, key)})
  BY <1>5, <1>6, <1>8
<1> QED
  BY <1>1, <1>0, <1>6, <1>7, <1>9, HeartOnlyScreen

LEMMA LeaveHeartsKeeps ==
  ASSUME Wired, HeartInv, NEW s \in On(HeartScreens), LeaveHearts(s), UNCHANGED scene
  PROVE  Wired' /\ HeartInv' /\ \A t \in scene.screens \ HeartScreens : screen'[t] = screen[t]
<1>n. PICK new : new = [screen[s] EXCEPT !.link = "closed"]
  OBVIOUS
<1>0. /\ Holds(screen[s]) /\ HeartsOK(s, screen[s])
      /\ screen[s].rooms = {} /\ screen[s].joining = {} /\ screen[s].inbox = <<>>
      /\ losses \in Nat /\ toggles = [k \in scene.toggles |-> toggles[k]]
      /\ \A k \in scene.toggles : ToggleOK(toggles[k])
  BY HeartPage
<1>1. /\ screen[s].link # "closed" /\ Put(s, new) /\ losses' \in Nat /\ watched' = watched
      /\ toggles' = [k \in DOMAIN toggles |-> [toggles[k] EXCEPT !.left = @ \/ toggles[k].from = s]]
  BY <1>0, <1>n DEF LeaveHearts
<1>2. /\ Holds(new) /\ new.link = "closed" /\ new.reads = screen[s].reads
      /\ new.shown = screen[s].shown /\ new.rooms = {} /\ new.joining = {} /\ new.inbox = <<>>
  BY <1>0, <1>n DEF Holds, LINKS
<1>3. Used(screen[s])
  BY <1>1 DEF Used
<1>4. CacheOf(new, HeartKeys)
  BY <1>0, <1>2, <1>3, CacheMoves DEF HeartsOK
<1>5. ActiveHearts(new) \in SUBSET ActiveHearts(screen[s])
  BY <1>2 DEF ActiveHearts
<1>6. Over(s) => \A key \in HeartKeys : Current(new, key, ActiveHearts(new), {HeartAnswer(s, key)})
  BY <1>0, <1>2, <1>3, <1>5, CurrentMoves DEF HeartsOK, HeartsFollow
<1>7. toggles' = [k \in scene.toggles |-> toggles'[k]]
  BY <1>0, <1>1
<1>8. ASSUME NEW k \in scene.toggles
      PROVE  /\ ToggleOK(toggles'[k]) /\ toggles'[k].from = toggles[k].from
             /\ toggles'[k].pc = toggles[k].pc
  <2>1. toggles'[k] = [toggles[k] EXCEPT !.left = @ \/ toggles[k].from = s]
    BY <1>0, <1>1
  <2> QED
    BY <1>0, <2>1 DEF ToggleOK
<1> QED
  BY <1>1, <1>2, <1>4, <1>6, <1>7, <1>8, HeartOnlyScreen

LEMMA ServeHeartsKeeps ==
  ASSUME Wired, HeartInv, NEW s \in On(HeartScreens), ServeHearts(s), UNCHANGED scene
  PROVE  Wired' /\ HeartInv' /\ \A t \in scene.screens \ HeartScreens : screen'[t] = screen[t]
<1>0. /\ Holds(screen[s]) /\ HeartsOK(s, screen[s]) /\ screen[s].link \in {"closed", "off"}
      /\ screen[s].rooms = {} /\ screen[s].joining = {} /\ screen[s].inbox = <<>>
      /\ losses \in Nat /\ toggles = [k \in scene.toggles |-> toggles[k]]
      /\ \A k \in scene.toggles : ToggleOK(toggles[k])
  BY HeartPage
<1>1. PICK key \in DOMAIN screen[s].reads : Put(s, Served(screen[s], key, HeartAnswer(s, key)))
  BY DEF ServeHearts
<1>2. losses' = losses /\ watched' = watched /\ toggles' = toggles
  BY DEF ServeHearts, heartVars
<1>n. PICK new : new = Served(screen[s], key, HeartAnswer(s, key))
  OBVIOUS
<1>3. Used(screen[s]) /\ CacheOf(screen[s], HeartKeys)
  BY <1>0 DEF Used, HeartsOK
<1>4. /\ Holds(new) /\ SameButReads(new, screen[s]) /\ CacheOf(new, HeartKeys)
      /\ \A k, active, good : (Current(screen[s], k, active, good) /\ (k = key => HeartAnswer(s, key) \in good))
                              => Current(new, k, active, good)
  BY <1>0, <1>3, <1>n, CacheServedFacts
<1>5. /\ new.link \in {"closed", "off"} /\ new.rooms = {} /\ new.joining = {} /\ new.inbox = <<>>
      /\ ActiveHearts(new) = ActiveHearts(screen[s])
  BY <1>0, <1>4 DEF SameButReads, ActiveHearts
<1>6. Over(s) => \A k \in HeartKeys : Current(new, k, ActiveHearts(new), {HeartAnswer(s, k)})
  BY <1>0, <1>3, <1>4, <1>5 DEF HeartsOK, HeartsFollow
<1> QED
  BY <1>0, <1>1, <1>2, <1>n, <1>4, <1>5, <1>6, HeartOnlyScreen

LEMMA ReleasedFacts ==
  ASSUME NEW s, NEW D, NEW all, all = [k \in D |-> all[k]], \A k \in D : ToggleOK(all[k])
  PROVE  /\ Released(s, all) = [k \in D |-> Released(s, all)[k]]
         /\ \A k \in D : /\ ToggleOK(Released(s, all)[k]) /\ Released(s, all)[k].from = all[k].from
                         /\ \/ Released(s, all)[k].pc = all[k].pc
                            \/ all[k].pc = "wait" /\ Released(s, all)[k].pc = "done"
<1> DEFINE q == Released(s, all)
<1>1. q = [k \in D |-> IF all[k].pc = "wait" /\ all[k].from = s
                       THEN [all[k] EXCEPT !.pc = "done"] ELSE all[k]]
  BY DEF Released
<1> HIDE DEF q
<1>2. q = [k \in D |-> q[k]]
  BY <1>1
<1>3. ASSUME NEW k \in D
      PROVE  /\ ToggleOK(q[k]) /\ q[k].from = all[k].from
             /\ q[k].pc = all[k].pc \/ (all[k].pc = "wait" /\ q[k].pc = "done")
  <2>1. ToggleOK(all[k])
    OBVIOUS
  <2>2. CASE all[k].pc = "wait" /\ all[k].from = s
    <3>1. q[k] = [all[k] EXCEPT !.pc = "done"]
      BY <1>1, <2>2
    <3> QED
      BY <2>1, <2>2, <3>1 DEF ToggleOK
  <2>3. CASE ~(all[k].pc = "wait" /\ all[k].from = s)
    BY <1>1, <2>1, <2>3
  <2> QED
    BY <2>2, <2>3
<1> QED
  BY <1>2, <1>3 DEF q

LEMMA ShowHeartsKeeps ==
  ASSUME Wired, HeartInv, NEW s \in On(HeartScreens), ShowHearts(s), UNCHANGED scene
  PROVE  Wired' /\ HeartInv' /\ \A t \in scene.screens \ HeartScreens : screen'[t] = screen[t]
<1>0. /\ Holds(screen[s]) /\ HeartsOK(s, screen[s]) /\ screen[s].link \in {"closed", "off"}
      /\ screen[s].rooms = {} /\ screen[s].joining = {} /\ screen[s].inbox = <<>>
      /\ losses \in Nat /\ toggles = [k \in scene.toggles |-> toggles[k]]
      /\ \A k \in scene.toggles : ToggleOK(toggles[k])
  BY HeartPage
<1>1. PICK key \in DOMAIN screen[s].reads :
        /\ \/ /\ screen[s].reads[key].served
              /\ Put(s, CacheAnswered(screen[s], key)) /\ losses' = losses
           \/ /\ losses' = losses + 1
              /\ Put(s, CacheFailed(screen[s], key))
        /\ toggles' = IF DOMAIN screen[s].reads = {key} THEN Released(s, toggles) ELSE toggles
        /\ watched' = watched
  BY DEF ShowHearts
<1>2. losses' \in Nat
  BY <1>0, <1>1
<1>3. Used(screen[s]) /\ CacheOf(screen[s], HeartKeys)
  BY <1>0 DEF Used, HeartsOK
<1>4. /\ toggles' = [k \in scene.toggles |-> toggles'[k]]
      /\ \A k \in scene.toggles :
           /\ ToggleOK(toggles'[k]) /\ toggles'[k].from = toggles[k].from
           /\ toggles'[k].pc = toggles[k].pc \/ (toggles[k].pc = "wait" /\ toggles'[k].pc = "done")
  <2>1. CASE toggles' = toggles
    BY <1>0, <2>1
  <2>2. CASE toggles' = Released(s, toggles)
    <3>1. /\ Released(s, toggles) = [k \in scene.toggles |-> Released(s, toggles)[k]]
          /\ \A k \in scene.toggles :
               /\ ToggleOK(Released(s, toggles)[k]) /\ Released(s, toggles)[k].from = toggles[k].from
               /\ \/ Released(s, toggles)[k].pc = toggles[k].pc
                  \/ toggles[k].pc = "wait" /\ Released(s, toggles)[k].pc = "done"
      <4>1. PICK D, all : D = scene.toggles /\ all = toggles
        OBVIOUS
      <4>2. all = [k \in D |-> all[k]] /\ \A k \in D : ToggleOK(all[k])
        BY <1>0, <4>1
      <4>3. /\ Released(s, all) = [k \in D |-> Released(s, all)[k]]
            /\ \A k \in D : /\ ToggleOK(Released(s, all)[k]) /\ Released(s, all)[k].from = all[k].from
                            /\ \/ Released(s, all)[k].pc = all[k].pc
                               \/ all[k].pc = "wait" /\ Released(s, all)[k].pc = "done"
        BY <4>2, ReleasedFacts
      <4> QED
        BY <4>1, <4>3
    <3>2. toggles' = [k \in scene.toggles |-> toggles'[k]]
      BY <2>2, <3>1
    <3>3. ASSUME NEW k \in scene.toggles
          PROVE  /\ ToggleOK(toggles'[k]) /\ toggles'[k].from = toggles[k].from
                 /\ toggles'[k].pc = toggles[k].pc \/ (toggles[k].pc = "wait" /\ toggles'[k].pc = "done")
      BY <2>2, <3>1
    <3> QED
      BY <3>2, <3>3
  <2> QED
    BY <1>1, <2>1, <2>2
<1>5. ASSUME NEW new, Put(s, new), Holds(new), SameLine(new, screen[s]), CacheOf(new, HeartKeys),
             \A k, active, good : Current(screen[s], k, active, good) => Current(new, k, active, good)
      PROVE  Wired' /\ HeartInv' /\ \A t \in scene.screens \ HeartScreens : screen'[t] = screen[t]
  <2>1. /\ new.link \in {"closed", "off"} /\ new.rooms = {} /\ new.joining = {} /\ new.inbox = <<>>
        /\ ActiveHearts(new) = ActiveHearts(screen[s])
    BY <1>0, <1>5 DEF SameLine, ActiveHearts
  <2>2. Over(s) => \A k \in HeartKeys : Current(new, k, ActiveHearts(new), {HeartAnswer(s, k)})
    BY <1>0, <1>3, <1>5, <2>1 DEF HeartsOK, HeartsFollow
  <2> QED
    BY <1>1, <1>2, <1>4, <1>5, <2>1, <2>2, HeartOnlyScreen
<1>6. CASE screen[s].reads[key].served /\ Put(s, CacheAnswered(screen[s], key))
  <2>n. PICK new : new = CacheAnswered(screen[s], key)
    OBVIOUS
  <2>1. /\ Holds(new) /\ SameLine(new, screen[s]) /\ CacheOf(new, HeartKeys)
        /\ \A k, active, good : Current(screen[s], k, active, good) => Current(new, k, active, good)
    BY <1>0, <1>3, <1>6, <2>n, CacheAnsweredFacts
  <2> QED
    BY <1>5, <1>6, <2>n, <2>1
<1>7. CASE Put(s, CacheFailed(screen[s], key))
  <2>n. PICK new : new = CacheFailed(screen[s], key)
    OBVIOUS
  <2>1. /\ Holds(new) /\ SameLine(new, screen[s]) /\ CacheOf(new, HeartKeys)
        /\ \A k, active, good : Current(screen[s], k, active, good) => Current(new, k, active, good)
    BY <1>0, <1>3, <2>n, CacheFailedFacts
  <2> QED
    BY <1>5, <1>7, <2>n, <2>1
<1> QED
  BY <1>1, <1>6, <1>7

\* onMutate and onError change the data ahead of the server and leave a cache.
LEMMA MutateFacts ==
  ASSUME NEW r, Holds(r), CacheOf(r, HeartKeys), NEW item
  PROVE  LET q == onMutate(r, item)
         IN  Holds(q) /\ SameLine(q, r) /\ CacheOf(q, HeartKeys)
<1> DEFINE new == Unasked(r.reads, HeartKeys)
           d == [key \in HeartKeys |->
                   CASE key = "list" -> r.shown.data["list"] \ {item}
                     [] r.shown.data[key] = Nothing -> Nothing
                     [] OTHER -> Max({0, r.shown.data[key] - 1})]
           q == onMutate(r, item)
<1>0. r.shown \in [data : {r.shown.data}, stale : {r.shown.stale}, behind : {r.shown.behind},
                   group : {r.shown.group}]
  BY DEF CacheOf, Cached
<1>1. q = [r EXCEPT !.reads = new, !.shown = [@ EXCEPT !.data = d]]
  BY <1>0 DEF onMutate, Holds
<1>2. DOMAIN new = {} /\ new = [k \in DOMAIN new |-> new[k]]
  BY DEF Unasked, CacheOf
<1>3. d = [key \in HeartKeys |-> d[key]]
  OBVIOUS
<1> HIDE DEF new, d, q
<1>4. /\ Holds(q) /\ SameLine(q, r) /\ q.reads = new
      /\ q.shown \in [data : {q.shown.data}, stale : {q.shown.stale}, behind : {q.shown.behind},
                      group : {q.shown.group}]
      /\ q.shown.data = d
  BY <1>0, <1>1 DEF Holds, SameLine
<1>5. CacheOf(q, HeartKeys)
  BY <1>2, <1>3, <1>4 DEF CacheOf, Cached
<1> QED
  BY <1>4, <1>5 DEF q

LEMMA ErrorFacts ==
  ASSUME NEW r, Holds(r), CacheOf(r, HeartKeys), NEW t
  PROVE  LET q == onError(r, t)
         IN  Holds(q) /\ SameLine(q, r) /\ CacheOf(q, HeartKeys) /\ q.reads = r.reads
<1> DEFINE d == [key \in HeartKeys |->
                   IF t.previous[key] = Nothing THEN r.shown.data[key] ELSE t.previous[key]]
           q == onError(r, t)
<1>0. r.shown \in [data : {r.shown.data}, stale : {r.shown.stale}, behind : {r.shown.behind},
                   group : {r.shown.group}]
  BY DEF CacheOf, Cached
<1>1. CASE t.ok \/ t.previous = Nothing
  <2>1. q = r
    BY <1>1 DEF onError
  <2> QED
    BY <2>1 DEF SameLine
<1>2. CASE ~(t.ok \/ t.previous = Nothing)
  <2>1. q = [r EXCEPT !.shown = [@ EXCEPT !.data = d]]
    BY <1>0, <1>2 DEF onError, Holds
  <2>2. d = [key \in HeartKeys |-> d[key]]
    OBVIOUS
  <2> HIDE DEF d, q
  <2>3. /\ Holds(q) /\ SameLine(q, r) /\ q.reads = r.reads
        /\ q.shown \in [data : {q.shown.data}, stale : {q.shown.stale}, behind : {q.shown.behind},
                        group : {q.shown.group}]
        /\ q.shown.data = d
    BY <1>0, <2>1 DEF Holds, SameLine
  <2>4. CacheOf(q, HeartKeys)
    BY <2>2, <2>3 DEF CacheOf, Cached
  <2> QED
    BY <2>3, <2>4 DEF q
<1> QED
  BY <1>1, <1>2

LEMMA toggleKeeps ==
  ASSUME Wired, HeartInv, NEW s \in On(HeartScreens), NEW k \in scene.toggles, NEW item,
         toggle(s, k, item), UNCHANGED scene
  PROVE  Wired' /\ HeartInv' /\ \A t \in scene.screens \ HeartScreens : screen'[t] = screen[t]
<1> DEFINE drop == isWatching(s, item)
           x == [pc |-> "send", item |-> item, op |-> IF drop THEN "unwatch" ELSE "watch",
                 from |-> s, previous |-> IF drop THEN screen[s].shown.data ELSE Nothing,
                 ok |-> TRUE, left |-> FALSE]
           all == [toggles EXCEPT ![k] = x]
<1>0. /\ Holds(screen[s]) /\ LineOK(s, screen[s]) /\ HeartsOK(s, screen[s])
      /\ screen[s].link \in {"closed", "off"}
      /\ screen[s].rooms = {} /\ screen[s].joining = {} /\ screen[s].inbox = <<>>
      /\ losses \in Nat /\ s \in scene.screens /\ toggles = [j \in scene.toggles |-> toggles[j]]
      /\ \A j \in scene.toggles :
           ToggleOK(toggles[j]) /\ (toggles[j].pc # "idle" => CacheOf(screen[toggles[j].from], HeartKeys))
  BY HeartPage
<1>1. /\ screen[s].link # "closed" /\ losses' = losses /\ watched' = watched
      /\ toggles' = IF drop THEN Released(s, all) ELSE all
      /\ Put(s, IF drop THEN onMutate(screen[s], item) ELSE screen[s])
  BY DEF toggle
<1>2. CacheOf(screen[s], HeartKeys)
  BY <1>0, <1>1 DEF Used, HeartsOK
<1>3. ToggleOK(x) /\ x.pc = "send" /\ x.from = s
  BY <1>0 DEF ToggleOK, On
<1> HIDE DEF x
<1>4. all = [j \in scene.toggles |-> all[j]] /\ all[k] = x
      /\ \A j \in scene.toggles : j # k => all[j] = toggles[j]
  BY <1>0
<1> HIDE DEF all
<1>5. \A j \in scene.toggles : ToggleOK(all[j])
  BY <1>0, <1>3, <1>4
<1>6. /\ toggles' = [j \in scene.toggles |-> toggles'[j]]
      /\ \A j \in scene.toggles : /\ ToggleOK(toggles'[j]) /\ toggles'[j].from = all[j].from
                                  /\ toggles'[j].pc = all[j].pc \/ all[j].pc = "wait"
  <2>1. CASE ~drop
    BY <1>1, <1>4, <1>5, <2>1
  <2>2. CASE drop
    <3>1. toggles' = Released(s, all)
      BY <1>1, <2>2
    <3>2. PICK D : D = scene.toggles
      OBVIOUS
    <3>3. all = [j \in D |-> all[j]] /\ \A j \in D : ToggleOK(all[j])
      BY <1>4, <1>5, <3>2
    <3>4. /\ Released(s, all) = [j \in D |-> Released(s, all)[j]]
          /\ \A j \in D : /\ ToggleOK(Released(s, all)[j]) /\ Released(s, all)[j].from = all[j].from
                          /\ \/ Released(s, all)[j].pc = all[j].pc
                             \/ all[j].pc = "wait" /\ Released(s, all)[j].pc = "done"
      BY <3>3, ReleasedFacts
    <3> QED
      BY <3>1, <3>2, <3>4
  <2> QED
    BY <2>1, <2>2
<1>7. toggles'[k].pc = "send"
  BY <1>3, <1>4, <1>6
<1>8. \A t : ~Over(t)'
  BY <1>7 DEF Over
<1>9. ASSUME NEW j \in scene.toggles
      PROVE  /\ ToggleOK(toggles'[j])
             /\ toggles'[j].pc # "idle" =>
                  toggles'[j].from = s \/ (toggles[j].pc # "idle" /\ toggles[j].from = toggles'[j].from)
  BY <1>3, <1>4, <1>6
<1>10. PICK new : new = IF drop THEN onMutate(screen[s], item) ELSE screen[s]
  OBVIOUS
<1>11. Holds(new) /\ SameLine(new, screen[s]) /\ CacheOf(new, HeartKeys)
  <2>1. CASE drop
    BY <1>0, <1>2, <1>10, <2>1, MutateFacts
  <2>2. CASE ~drop
    BY <1>0, <1>2, <1>10, <2>2 DEF SameLine
  <2> QED
    BY <2>1, <2>2
<1>12. LineOK(s, new) /\ new.link \in {"closed", "off"}
  BY <1>0, <1>11, LineStays DEF SameLine
<1>13. Put(s, new)
  BY <1>1, <1>10
<1>14. HeartsFollow(s, new)'
  BY <1>8 DEF HeartsFollow
<1> QED
  BY <1>0, <1>1, <1>6, <1>8, <1>9, <1>11, <1>12, <1>13, <1>14, HeartScreenStep

\* While a press is on its way nothing is claimed of the data.
LEMMA HeartBusy ==
  ASSUME Wired, HeartInv, screen' = screen, UNCHANGED scene, losses' \in Nat,
         toggles' = [j \in scene.toggles |-> toggles'[j]],
         \A j \in scene.toggles : ToggleOK(toggles'[j]) /\ toggles'[j].from = toggles[j].from
                                  /\ (toggles'[j].pc # "idle" => toggles[j].pc # "idle"),
         NEW k \in scene.toggles, toggles'[k].pc = "settle"
  PROVE  Wired' /\ HeartInv'
<1>1. \A t : ~Over(t)'
  BY DEF Over
<1>2. Wired'
  BY DEF Wired
<1>3. \A s \in On(HeartScreens) : HeartsOK(s, screen[s])'
  BY <1>1 DEF HeartInv, HeartsOK, HeartsFollow
<1>4. On(HeartScreens)' = On(HeartScreens)
  BY DEF On
<1>5. \A j \in scene.toggles :
        ToggleOK(toggles[j])' /\ (toggles'[j].pc # "idle" => CacheOf(screen'[toggles'[j].from], HeartKeys))
  BY DEF HeartInv, ToggleOK
<1> QED
  BY <1>2, <1>3, <1>4, <1>5 DEF HeartInv

LEMMA ToggleRows ==
  ASSUME Wired, HeartInv
  PROVE  /\ toggles = [j \in scene.toggles |-> toggles[j]] /\ losses \in Nat
         /\ \A j \in scene.toggles : ToggleOK(toggles[j])
BY DEF Wired, HeartInv

LEMMA ServeToggleKeeps ==
  ASSUME Wired, HeartInv, NEW k \in scene.toggles, ServeToggle(k) \/ LoseToggle(k), UNCHANGED scene
  PROVE  Wired' /\ HeartInv' /\ screen' = screen
<1>0. /\ toggles = [j \in scene.toggles |-> toggles[j]] /\ losses \in Nat
      /\ \A j \in scene.toggles : ToggleOK(toggles[j])
  BY ToggleRows
<1>1. PICK ok \in BOOLEAN : toggles' = [toggles EXCEPT ![k].pc = "settle", ![k].ok = ok]
  <2>1. CASE ServeToggle(k)
    BY <2>1 DEF ServeToggle
  <2>2. CASE LoseToggle(k)
    BY <2>2 DEF LoseToggle
  <2> QED
    BY <2>1, <2>2
<1>2. screen' = screen /\ losses' \in Nat /\ toggles[k].pc # "idle"
  BY <1>0 DEF ServeToggle, LoseToggle, channelVars
<1>3. toggles' = [j \in scene.toggles |-> IF j = k THEN [toggles[k] EXCEPT !.pc = "settle", !.ok = ok]
                                          ELSE toggles[j]]
  BY <1>0, <1>1
<1>4. ASSUME NEW j \in scene.toggles
      PROVE  /\ ToggleOK(toggles'[j]) /\ toggles'[j].from = toggles[j].from
             /\ toggles'[j].pc # "idle" => toggles[j].pc # "idle"
             /\ j = k => toggles'[j].pc = "settle"
  <2>1. CASE j = k
    <3>1. toggles'[j] = [toggles[k] EXCEPT !.pc = "settle", !.ok = ok]
      BY <1>3, <2>1
    <3> QED
      BY <1>0, <1>2, <2>1, <3>1 DEF ToggleOK
  <2>2. CASE j # k
    BY <1>0, <1>3, <2>2
  <2> QED
    BY <2>1, <2>2
<1>5. toggles' = [j \in scene.toggles |-> toggles'[j]]
  BY <1>3
<1> QED
  BY <1>2, <1>4, <1>5, HeartBusy

LEMMA SettleToggleKeeps ==
  ASSUME Wired, HeartInv, NEW k \in scene.toggles, SettleToggle(k), UNCHANGED scene
  PROVE  Wired' /\ HeartInv' /\ \A t \in scene.screens \ HeartScreens : screen'[t] = screen[t]
<1>s. PICK s : s = toggles[k].from
  OBVIOUS
<1>r. PICK r : r = onError(screen[s], toggles[k])
  OBVIOUS
<1>n. PICK new : new = Invalidated(r, HeartKeys, ActiveHearts(r))
  OBVIOUS
<1>a. PICK all : all = IF \A key \in HeartKeys : screen[s].shown.data[key] = Nothing
                       THEN toggles ELSE Released(s, toggles)
  OBVIOUS
<1>1. /\ toggles[k].pc = "settle" /\ Put(s, new) /\ losses' = losses /\ watched' = watched
      /\ toggles' = [all EXCEPT ![k].pc = IF DOMAIN new.reads = {} THEN "done" ELSE "wait"]
  BY <1>s, <1>r, <1>n, <1>a DEF SettleToggle, onHeartSettled
<1>b. PICK pc \in {"done", "wait"} : toggles' = [all EXCEPT ![k].pc = pc]
  BY <1>1
<1>2. /\ toggles = [j \in scene.toggles |-> toggles[j]] /\ losses \in Nat
      /\ \A j \in scene.toggles : ToggleOK(toggles[j])
      /\ s \in On(HeartScreens) /\ CacheOf(screen[s], HeartKeys)
  BY <1>s, <1>1, ToggleRows DEF HeartInv, ToggleOK, On
<1>3. /\ Holds(screen[s]) /\ LineOK(s, screen[s]) /\ screen[s].link \in {"closed", "off"}
  BY <1>2, HeartPage
<1>4. Holds(r) /\ SameLine(r, screen[s]) /\ CacheOf(r, HeartKeys)
  BY <1>r, <1>2, <1>3, ErrorFacts
<1>5. ActiveHearts(r) \in SUBSET HeartKeys
  BY DEF ActiveHearts
<1>6. /\ Holds(new) /\ SameLine(new, r) /\ CacheOf(new, HeartKeys)
      /\ \A key \in HeartKeys : \A good : Current(new, key, ActiveHearts(r), good)
  BY <1>n, <1>4, <1>5, InvalidatedFacts
<1>7. /\ new.link \in {"closed", "off"} /\ ActiveHearts(new) = ActiveHearts(r) /\ LineOK(s, new)
  BY <1>3, <1>4, <1>6, LineStays DEF SameLine, ActiveHearts
<1>8. HeartsFollow(s, new)'
  BY <1>6, <1>7 DEF HeartsFollow
<1>9. /\ all = [j \in scene.toggles |-> all[j]]
      /\ \A j \in scene.toggles : /\ ToggleOK(all[j]) /\ all[j].from = toggles[j].from
                                  /\ all[j].pc # "idle" => toggles[j].pc # "idle"
                                  /\ all[j].pc = toggles[j].pc \/ toggles[j].pc = "wait"
  <2>1. CASE all = toggles
    BY <1>2, <2>1
  <2>2. CASE all # toggles
    <3>1. /\ Released(s, toggles) = [j \in scene.toggles |-> Released(s, toggles)[j]]
          /\ \A j \in scene.toggles :
               /\ ToggleOK(Released(s, toggles)[j]) /\ Released(s, toggles)[j].from = toggles[j].from
               /\ \/ Released(s, toggles)[j].pc = toggles[j].pc
                  \/ toggles[j].pc = "wait" /\ Released(s, toggles)[j].pc = "done"
      BY <1>2, ReleasedFacts
    <3>2. all = Released(s, toggles)
      BY <1>a, <2>2
    <3> QED
      BY <3>1, <3>2
  <2> QED
    BY <2>1, <2>2
<1>10. toggles' = [j \in scene.toggles |-> IF j = k THEN [all[k] EXCEPT !.pc = pc] ELSE all[j]]
  BY <1>b, <1>9
<1>11. ASSUME NEW j \in scene.toggles
       PROVE  /\ ToggleOK(toggles'[j]) /\ toggles'[j].from = toggles[j].from
              /\ toggles'[j].pc # "idle" => toggles[j].pc # "idle"
              /\ j = k => toggles'[j].pc # "idle"
  <2>1. CASE j = k
    <3>1. toggles'[j] = [all[k] EXCEPT !.pc = pc]
      BY <1>10, <2>1
    <3>2. toggles[k].pc # "idle" /\ all[k].pc # "idle"
      BY <1>1, <1>9
    <3> QED
      BY <1>9, <2>1, <3>1, <3>2 DEF ToggleOK
  <2>2. CASE j # k
    BY <1>9, <1>10, <2>2
  <2> QED
    BY <2>1, <2>2
<1>12. toggles' = [j \in scene.toggles |-> toggles'[j]]
  BY <1>10
<1>13. \A t \in On(HeartScreens) \ {s} : ~Over(t)'
  BY <1>s, <1>11 DEF Over
<1> QED
  BY <1>1, <1>2, <1>6, <1>7, <1>8, <1>11, <1>12, <1>13, HeartScreenStep

\* Each step of the hearts, and what the others see of it.
LEMMA HeartStepKeeps ==
  ASSUME Wired, HeartInv, HeartStep
  PROVE  Wired' /\ HeartInv' /\ \A t \in scene.screens \ HeartScreens : screen'[t] = screen[t]
<1>0. UNCHANGED scene
  BY DEF HeartStep
<1>1. ASSUME NEW s \in On(HeartScreens),
             \/ \E old \in BOOLEAN : MountHearts(s, old)
             \/ LeaveHearts(s)
             \/ ServeHearts(s)
             \/ ShowHearts(s)
             \/ \E k \in NextToggle, item \in HeartsOn[s] : toggle(s, k, item)
      PROVE  Wired' /\ HeartInv' /\ \A t \in scene.screens \ HeartScreens : screen'[t] = screen[t]
  <2>1. NextToggle \subseteq scene.toggles
    BY DEF NextToggle
  <2> QED
    BY <1>0, <1>1, <2>1, MountHeartsKeeps, LeaveHeartsKeeps, ServeHeartsKeeps, ShowHeartsKeeps, toggleKeeps
<1>2. ASSUME NEW k \in scene.toggles, ServeToggle(k) \/ LoseToggle(k) \/ SettleToggle(k)
      PROVE  Wired' /\ HeartInv' /\ \A t \in scene.screens \ HeartScreens : screen'[t] = screen[t]
  BY <1>0, <1>2, ServeToggleKeeps, SettleToggleKeeps
<1> QED
  BY <1>1, <1>2 DEF HeartStep

\* What the others do to a heart screen is nothing.
LEMMA HeartCarried ==
  ASSUME HeartInv, UNCHANGED heartVars, UNCHANGED scene,
         \A s \in On(HeartScreens) : Carried(screen[s], screen'[s])
  PROVE  HeartInv'
<1>1. \A s \in On(HeartScreens) : screen'[s] = screen[s]
  BY DEF HeartInv, HeartsOK, Carried
<1>2. toggles' = toggles /\ watched' = watched /\ scene' = scene
  BY DEF heartVars
<1>3. On(HeartScreens)' = On(HeartScreens)
  BY <1>2 DEF On
<1>4. ASSUME NEW s \in On(HeartScreens) PROVE HeartsOK(s, screen[s])'
  <2>1. HeartsOK(s, screen[s])
    BY DEF HeartInv
  <2>2. Over(s)' <=> Over(s)
    BY <1>2 DEF Over
  <2>3. \A key \in HeartKeys : HeartAnswer(s, key)' = HeartAnswer(s, key)
    BY <1>2 DEF HeartAnswer, listOwn
  <2> QED
    BY <1>1, <2>1, <2>2, <2>3 DEF HeartsOK, HeartsFollow
<1>5. ASSUME NEW k \in scene.toggles
      PROVE  ToggleOK(toggles[k])' /\ (toggles'[k].pc # "idle" => CacheOf(screen'[toggles'[k].from], HeartKeys))
  <2>1. /\ ToggleOK(toggles[k])
        /\ toggles[k].pc # "idle" => CacheOf(screen[toggles[k].from], HeartKeys)
    BY DEF HeartInv
  <2>2. toggles[k].pc # "idle" => toggles[k].from \in On(HeartScreens)
    BY <2>1 DEF ToggleOK, On
  <2> QED
    BY <1>1, <1>2, <2>1, <2>2 DEF ToggleOK
<1> QED
  BY <1>2, <1>3, <1>4, <1>5 DEF HeartInv

\* A restart settles what was being sent.
LEMMA HeartRestart ==
  ASSUME HeartInv, RestartHearts, UNCHANGED <<watched, scene>>,
         \A s \in On(HeartScreens) : Carried(screen[s], screen'[s])
  PROVE  HeartInv'
<1>1. \A s \in On(HeartScreens) : screen'[s] = screen[s]
  BY DEF HeartInv, HeartsOK, Carried
<1>2. toggles = [j \in scene.toggles |-> toggles[j]] /\ \A j \in scene.toggles : ToggleOK(toggles[j])
  BY DEF HeartInv
<1>3. toggles' = [j \in scene.toggles |->
        IF toggles[j].pc = "send" THEN [toggles[j] EXCEPT !.pc = "settle", !.ok = FALSE] ELSE toggles[j]]
  BY <1>2 DEF RestartHearts
<1>4. ASSUME NEW j \in scene.toggles
      PROVE  /\ ToggleOK(toggles'[j]) /\ toggles'[j].from = toggles[j].from
             /\ toggles'[j].pc = toggles[j].pc \/ (toggles[j].pc = "send" /\ toggles'[j].pc = "settle")
  <2>1. CASE toggles[j].pc = "send"
    <3>1. toggles'[j] = [toggles[j] EXCEPT !.pc = "settle", !.ok = FALSE]
      BY <1>3, <2>1
    <3> QED
      BY <1>2, <2>1, <3>1 DEF ToggleOK
  <2>2. CASE toggles[j].pc # "send"
    BY <1>2, <1>3, <2>2
  <2> QED
    BY <2>1, <2>2
<1>5. On(HeartScreens)' = On(HeartScreens)
  BY DEF On
<1>6. ASSUME NEW s \in On(HeartScreens) PROVE HeartsOK(s, screen[s])'
  <2>1. HeartsOK(s, screen[s])
    BY DEF HeartInv
  <2>2. Over(s)' => Over(s)
    BY <1>4 DEF Over
  <2>3. \A key \in HeartKeys : HeartAnswer(s, key)' = HeartAnswer(s, key)
    BY DEF HeartAnswer, listOwn
  <2> QED
    BY <1>1, <2>1, <2>2, <2>3 DEF HeartsOK, HeartsFollow
<1>7. ASSUME NEW k \in scene.toggles
      PROVE  ToggleOK(toggles[k])' /\ (toggles'[k].pc # "idle" => CacheOf(screen'[toggles'[k].from], HeartKeys))
  <2>1. toggles[k].pc # "idle" => CacheOf(screen[toggles[k].from], HeartKeys)
    BY DEF HeartInv
  <2>2. toggles[k].pc # "idle" => toggles[k].from \in On(HeartScreens)
    BY <1>2 DEF ToggleOK, On
  <2>3. toggles'[k].pc # "idle" => toggles[k].pc # "idle"
    BY <1>4
  <2> QED
    BY <1>1, <1>4, <2>1, <2>2, <2>3 DEF ToggleOK
<1>8. toggles' = [j \in scene.toggles |-> toggles'[j]]
  BY <1>3
<1> QED
  BY <1>5, <1>6, <1>7, <1>8 DEF HeartInv

\* What the page may say, from the invariant.
LEMMA HeartsAreTold ==
  ASSUME HeartInv PROVE HeartsTellTheTruth
<1> SUFFICES ASSUME NEW s \in On(HeartScreens), screen[s].link # "closed", DOMAIN screen[s].reads = {},
                    \A k \in DOMAIN toggles : \/ toggles[k].pc = "idle"
                                              \/ toggles[k].pc = "done" /\ toggles[k].from = s,
                    NEW key \in HeartKeys \ screen[s].shown.behind
             PROVE  screen[s].shown.data[key] = HeartAnswer(s, key)
  BY DEF HeartsTellTheTruth, HeartsAreTrue
<1>1. DOMAIN toggles = scene.toggles /\ HeartsFollow(s, screen[s])
  BY DEF HeartInv, HeartsOK
<1>2. Over(s) /\ Used(screen[s])
  BY <1>1 DEF Over, Used
<1>3. key \in ActiveHearts(screen[s])
  BY DEF ActiveHearts
<1> QED
  BY <1>1, <1>2, <1>3 DEF HeartsFollow, Current, InForce

-----------------------------------------------------------------------------
(***************************************************************************)
(* What is emitted, and what is heard                                      *)
(***************************************************************************)
LEMMA CarriedTrans ==
  ASSUME NEW r, NEW q, NEW w, Holds(r), Holds(q), Holds(w), Carried(r, q), Carried(q, w)
  PROVE  Carried(r, w)
<1>0. /\ Len(r.inbox) \in Nat /\ Len(q.inbox) \in Nat /\ Len(w.inbox) \in Nat
      /\ DOMAIN r.inbox = 1..Len(r.inbox) /\ DOMAIN q.inbox = 1..Len(q.inbox)
      /\ DOMAIN w.inbox = 1..Len(w.inbox)
  <2>1. r.inbox \in Seq(Event) /\ q.inbox \in Seq(Event) /\ w.inbox \in Seq(Event)
    BY DEF Holds
  <2> QED
    BY <2>1
<1>1. Stays(r, w)
  BY DEF Carried, Stays
<1>2. CASE r.link \in {"closed", "off"}
  BY <1>2 DEF Carried
<1>3. CASE r.link \notin {"closed", "off"}
  <2>1. q.link \in {"down", "up", "rejected"} /\ w.link \in {"down", "up", "rejected"}
    BY <1>3 DEF Carried
  <2>2. ASSUME w.link = "up", ~News(w, {"connection:ready"}) PROVE r.link = "up" /\ Prefixed(r, w)
    <3>1. q.link = "up" /\ Prefixed(q, w)
      BY <2>2 DEF Carried
    <3>2. ~News(q, {"connection:ready"})
      BY <1>0, <2>2, <3>1 DEF News, Prefixed
    <3>3. r.link = "up" /\ Prefixed(r, q)
      BY <3>1, <3>2 DEF Carried
    <3> QED
      BY <1>0, <3>1, <3>3 DEF Prefixed
  <2> QED
    BY <1>1, <1>3, <2>1, <2>2 DEF Carried
<1> QED
  BY <1>2, <1>3

\* One event put behind the others.
LEMMA SaidFacts ==
  ASSUME NEW r, Holds(r), NEW e \in Event
  PROVE  LET q == [r EXCEPT !.inbox = Append(@, e)]
         IN  /\ Holds(q) /\ Stays(r, q) /\ Prefixed(r, q) /\ News(q, {e.name})
             /\ q.link = r.link /\ q.rooms = r.rooms /\ q.joining = r.joining
             /\ \A i \in DOMAIN q.inbox : q.inbox[i] = e \/ (i \in DOMAIN r.inbox /\ q.inbox[i] = r.inbox[i])
<1> DEFINE new == Append(r.inbox, e)
           q == [r EXCEPT !.inbox = new]
<1>1. r.inbox \in Seq(Event)
  BY DEF Holds
<1>2. /\ new \in Seq(Event) /\ Len(new) = Len(r.inbox) + 1 /\ Len(r.inbox) \in Nat
      /\ DOMAIN r.inbox = 1..Len(r.inbox) /\ DOMAIN new = 1..(Len(r.inbox) + 1)
      /\ new[Len(r.inbox) + 1] = e /\ \A i \in 1..Len(r.inbox) : new[i] = r.inbox[i]
  BY <1>1
<1> HIDE DEF new
<1>3. /\ Holds(q) /\ Stays(r, q) /\ q.inbox = new
      /\ q.link = r.link /\ q.rooms = r.rooms /\ q.joining = r.joining
  BY <1>2 DEF Holds, Stays
<1> HIDE DEF q
<1>4. Prefixed(r, q)
  BY <1>2, <1>3 DEF Prefixed
<1>5. News(q, {e.name})
  BY <1>2, <1>3 DEF News
<1>6. \A i \in DOMAIN q.inbox : q.inbox[i] = e \/ (i \in DOMAIN r.inbox /\ q.inbox[i] = r.inbox[i])
  BY <1>2, <1>3
<1> QED
  BY <1>3, <1>4, <1>5, <1>6 DEF q, new

\* What emitToRooms does to every line.
Heard_(all, q, s, rooms, name) ==
  /\ Holds(q[s]) /\ LineOK(s, q[s]) /\ Carried(all[s], q[s]) /\ Prefixed(all[s], q[s])
  /\ q[s].link = all[s].link /\ q[s].rooms = all[s].rooms
  /\ all[s].rooms \cap rooms # {} => News(q[s], {name})

LEMMA EmitFacts ==
  ASSUME NEW D, NEW all, all = [s \in D |-> all[s]], \A s \in D : Holds(all[s]) /\ LineOK(s, all[s]),
         NEW rooms, NEW name, NEW payload, [name |-> name, payload |-> payload] \in Event,
         name # "connection:ready"
  PROVE  LET q == emitToRooms(all, rooms, name, payload)
         IN  q = [s \in D |-> q[s]] /\ \A s \in D : Heard_(all, q, s, rooms, name)
<1> DEFINE e == [name |-> name, payload |-> payload]
           q == emitToRooms(all, rooms, name, payload)
<1>1. q = [s \in D |-> IF all[s].rooms \cap rooms # {}
                       THEN [all[s] EXCEPT !.inbox = Append(@, e)] ELSE all[s]]
  BY DEF emitToRooms
<1>e. e \in Event /\ e.name = name
  OBVIOUS
<1> HIDE DEF q, e
<1>2. q = [s \in D |-> q[s]]
  BY <1>1
<1>3. ASSUME NEW s \in D PROVE Heard_(all, q, s, rooms, name)
  <2>1. CASE all[s].rooms \cap rooms = {}
    <3>1. q[s] = all[s]
      BY <1>1, <2>1
    <3>2. Carried(all[s], q[s])
      BY <3>1, CarriedSame
    <3>3. Prefixed(all[s], q[s])
      <4>1. all[s].inbox \in Seq(Event)
        BY DEF Holds
      <4> QED
        BY <3>1, <4>1 DEF Prefixed
    <3> QED
      BY <2>1, <3>1, <3>2, <3>3 DEF Heard_
  <2>2. CASE all[s].rooms \cap rooms # {}
    <3>1. q[s] = [all[s] EXCEPT !.inbox = Append(@, e)]
      BY <1>1, <2>2
    <3>2. /\ Holds(q[s]) /\ Stays(all[s], q[s]) /\ Prefixed(all[s], q[s]) /\ News(q[s], {name})
          /\ q[s].link = all[s].link /\ q[s].rooms = all[s].rooms /\ q[s].joining = all[s].joining
      BY <1>e, <3>1, SaidFacts
    <3>3. all[s].link = "up"
      BY <2>2 DEF LineOK
    <3>4. LineOK(s, q[s])
      BY <3>2, <3>3 DEF LineOK
    <3>5. Carried(all[s], q[s])
      BY <3>2, <3>3 DEF Carried
    <3> QED
      BY <2>2, <3>2, <3>4, <3>5 DEF Heard_
  <2> QED
    BY <2>1, <2>2
<1> QED
  BY <1>2, <1>3 DEF q

\* An event is taken off the line.
LEMMA TakenFacts ==
  ASSUME NEW r, Holds(r), r.inbox # <<>>
  PROVE  LET q == [r EXCEPT !.inbox = Tail(@)]
         IN  /\ Holds(q) /\ Stays(r, q) /\ q.link = r.link /\ q.rooms = r.rooms /\ q.joining = r.joining
             /\ Head(r.inbox) \in Event
             /\ Head(r.inbox) = r.inbox[1] /\ 1 \in DOMAIN r.inbox
             /\ \A i \in DOMAIN q.inbox : i + 1 \in DOMAIN r.inbox /\ q.inbox[i] = r.inbox[i + 1]
             /\ \A names : Head(r.inbox).name \notin names /\ ~News(q, names) => ~News(r, names)
             /\ \A s : LineOK(s, r) => LineOK(s, q)
<1> DEFINE new == Tail(r.inbox)
           q == [r EXCEPT !.inbox = new]
<1>1. r.inbox \in Seq(Event)
  BY DEF Holds
<1>2. /\ Len(r.inbox) \in Nat /\ Len(r.inbox) >= 1 /\ new \in Seq(Event) /\ Len(new) = Len(r.inbox) - 1
      /\ DOMAIN r.inbox = 1..Len(r.inbox) /\ DOMAIN new = 1..(Len(r.inbox) - 1)
      /\ \A i \in 1..(Len(r.inbox) - 1) : new[i] = r.inbox[i + 1]
      /\ Head(r.inbox) = r.inbox[1] /\ Head(r.inbox) \in Event
  BY <1>1
<1> HIDE DEF new
<1>3. /\ Holds(q) /\ Stays(r, q) /\ q.link = r.link /\ q.rooms = r.rooms /\ q.joining = r.joining
      /\ q.inbox = new
  BY <1>2 DEF Holds, Stays
<1> HIDE DEF q
<1>4. ASSUME NEW names, Head(r.inbox).name \notin names, ~News(q, names) PROVE ~News(r, names)
  <2> SUFFICES ASSUME NEW i \in DOMAIN r.inbox PROVE r.inbox[i].name \notin names
    BY DEF News
  <2>1. CASE i = 1
    BY <1>2, <1>4, <2>1
  <2>2. CASE i # 1
    <3>1. i - 1 \in DOMAIN new /\ new[i - 1] = r.inbox[i]
      BY <1>2, <2>2
    <3> QED
      BY <1>3, <1>4, <3>1 DEF News
  <2> QED
    BY <2>1, <2>2
<1>5. \A i \in DOMAIN q.inbox : i + 1 \in DOMAIN r.inbox /\ q.inbox[i] = r.inbox[i + 1]
  BY <1>2, <1>3
<1>6. ASSUME NEW s, LineOK(s, r) PROVE LineOK(s, q)
  <2>1. r.link \notin {"closed", "off"}
    BY <1>6 DEF LineOK
  <2> QED
    BY <1>3, <1>5, <1>6, <2>1 DEF LineOK
<1>7. \A names : Head(r.inbox).name \notin names /\ ~News(q, names) => ~News(r, names)
  BY <1>4
<1>8. \A s : LineOK(s, r) => LineOK(s, q)
  BY <1>6
<1>9. q = [r EXCEPT !.inbox = Tail(@)] /\ 1 \in DOMAIN r.inbox
  BY <1>2 DEF q, new
<1> QED
  BY <1>2, <1>3, <1>5, <1>7, <1>8, <1>9

-----------------------------------------------------------------------------
(***************************************************************************)
(* Orders                                                                  *)
(***************************************************************************)
LEMMA OrderPage ==
  ASSUME Wired, OrderInv, NEW s \in On(OrderScreens)
  PROVE  /\ Holds(screen[s]) /\ LineOK(s, screen[s]) /\ PageOK(s, screen[s])
         /\ losses \in Nat /\ s \in scene.screens /\ s \in OrderScreens
         /\ \A k \in scene.presses : PressOK(k) /\ (presses[k].from = s => PressFollows(k, screen[s]))
BY DEF Wired, OrderInv, On

LEMMA ActiveKeys ==
  ASSUME NEW s \in OrderScreens, NEW r, OrderKind[s] = "sold" => r.shown.group \in DOMAIN GROUPS
  PROVE  Active(s, r) \in SUBSET Keys(s)
<1>1. CASE OrderKind[s] = "sold"
  BY <1>1 DEF Active, Keys
<1>2. CASE OrderKind[s] # "sold"
  BY <1>2 DEF Active, Keys
<1> QED
  BY <1>1, <1>2

\* A press that is left alone but for the page it came from.
LEMMA PressesLeft ==
  ASSUME OrderInv, NEW s,
         \/ presses' = presses
         \/ presses' = [k \in DOMAIN presses |-> [presses[k] EXCEPT !.left = @ \/ presses[k].from = s]]
  PROVE  /\ presses' = [k \in scene.presses |-> presses'[k]]
         /\ \A k \in scene.presses :
              /\ presses'[k].pc = presses[k].pc /\ presses'[k].from = presses[k].from
              /\ presses'[k].next = presses[k].next /\ presses'[k].seen = presses[k].seen
              /\ presses'[k].answer = presses[k].answer
              /\ presses'[k] \in [pc : {presses[k].pc}, from : {presses[k].from},
                     next : {presses[k].next}, seen : {presses[k].seen},
                     answer : {presses[k].answer}, left : BOOLEAN]
<1>0. /\ presses = [k \in scene.presses |-> presses[k]]
      /\ \A k \in scene.presses :
           presses[k] \in [pc : {"idle", "load", "write", "emit", "answer", "done"}, from : {presses[k].from},
                     next : {presses[k].next}, seen : {presses[k].seen},
                     answer : {"400", "409", "ok", "lost", Nothing}, left : BOOLEAN]
  BY DEF OrderInv, PressOK
<1>1. CASE presses' = presses
  BY <1>0, <1>1
<1>2. CASE presses' = [k \in DOMAIN presses |-> [presses[k] EXCEPT !.left = @ \/ presses[k].from = s]]
  <2>1. presses' = [k \in scene.presses |-> presses'[k]]
    BY <1>0, <1>2
  <2>2. ASSUME NEW k \in scene.presses
        PROVE  presses'[k] = [presses[k] EXCEPT !.left = @ \/ presses[k].from = s]
    BY <1>0, <1>2
  <2>3. ASSUME NEW k \in scene.presses
        PROVE  /\ presses'[k].pc = presses[k].pc /\ presses'[k].from = presses[k].from
               /\ presses'[k].next = presses[k].next /\ presses'[k].seen = presses[k].seen
               /\ presses'[k].answer = presses[k].answer
               /\ presses'[k] \in [pc : {presses[k].pc}, from : {presses[k].from},
                     next : {presses[k].next}, seen : {presses[k].seen},
                     answer : {presses[k].answer}, left : BOOLEAN]
    <3>1. CASE presses[k].from = s
      <4>1. presses'[k] = [presses[k] EXCEPT !.left = TRUE]
        BY <1>0, <2>2, <3>1
      <4> QED
        BY <1>0, <4>1
    <3>2. CASE presses[k].from # s
      <4>1. presses'[k] = [presses[k] EXCEPT !.left = @]
        BY <1>0, <2>2, <3>2
      <4> QED
        BY <1>0, <4>1
    <3> QED
      BY <3>1, <3>2
  <2> QED
    BY <2>1, <2>3
<1> QED
  BY <1>1, <1>2

\* A step of one page.
LEMMA OrderScreenStep ==
  ASSUME Wired, OrderInv, NEW s \in On(OrderScreens), NEW new, Put(s, new),
         Holds(new), LineOK(s, new), scene' = scene, losses' \in Nat, parcel' = parcel,
         \/ presses' = presses
         \/ presses' = [k \in DOMAIN presses |-> [presses[k] EXCEPT !.left = @ \/ presses[k].from = s]],
         new.link # "off", CacheOf(new, Keys(s)),
         OrderKind[s] = "sold" => new.shown.group \in DOMAIN GROUPS,
         PageFollows(s, new),
         \A k \in scene.presses : presses[k].from = s => PressFollows(k, new)
  PROVE  Wired' /\ OrderInv' /\ \A t \in scene.screens \ OrderScreens : screen'[t] = screen[t]
<1>0. /\ On(OrderScreens) \subseteq scene.screens /\ On(OrderScreens)' = On(OrderScreens)
      /\ \A t \in scene.screens \ OrderScreens : t # s
  BY DEF On
<1>1. /\ Wired' /\ screen'[s] = new
      /\ \A t \in scene.screens \ {s} : screen'[t] = screen[t]
  BY <1>0, PutFacts
<1>2. /\ presses' = [k \in scene.presses |-> presses'[k]]
      /\ \A k \in scene.presses :
           /\ presses'[k].pc = presses[k].pc /\ presses'[k].from = presses[k].from
           /\ presses'[k].next = presses[k].next /\ presses'[k].seen = presses[k].seen
           /\ presses'[k].answer = presses[k].answer
           /\ presses'[k] \in [pc : {presses[k].pc}, from : {presses[k].from},
                     next : {presses[k].next}, seen : {presses[k].seen},
                     answer : {presses[k].answer}, left : BOOLEAN]
  BY PressesLeft
<1>3. \A t \in On(OrderScreens) : PageFollows(t, screen'[t])
  <2> TAKE t \in On(OrderScreens)
  <2>1. PageFollows(t, screen[t])
    BY DEF OrderInv, PageOK
  <2> QED
    BY <1>0, <1>1, <2>1
<1>4. ASSUME NEW t \in On(OrderScreens) PROVE PageOK(t, screen[t])'
  <2>1. PageFollows(t, screen'[t])
    BY <1>3
  <2>2. PageFollows(t, screen[t])'
    BY <1>2, <2>1 DEF PageFollows, Answer
  <2>3. CASE t = s
    BY <1>1, <2>2, <2>3 DEF PageOK
  <2>4. CASE t # s
    <3>1. screen'[t] = screen[t] /\ PageOK(t, screen[t])
      BY <1>0, <1>1, <2>4 DEF OrderInv
    <3> QED
      BY <2>2, <3>1 DEF PageOK
  <2> QED
    BY <2>3, <2>4
<1>5. ASSUME NEW k \in scene.presses
      PROVE  PressOK(k)' /\ PressCached(k)' /\ PressFollows(k, screen[presses[k].from])'
  <2>0. PressOK(k) /\ PressCached(k) /\ PressFollows(k, screen[presses[k].from])
    BY DEF OrderInv
  <2>1. presses[k].pc # "idle" =>
          CacheOf(screen'[presses[k].from], Keys(presses[k].from))
    <3>1. CASE presses[k].from = s
      BY <1>1, <3>1
    <3>2. CASE presses[k].from # s
      BY <1>0, <1>1, <2>0, <3>2 DEF PressOK, PressCached
    <3> QED
      BY <3>1, <3>2
  <2>2. PressOK(k)' /\ PressCached(k)'
    BY <1>0, <1>2, <2>0, <2>1 DEF PressOK, PressCached
  <2>3. PressFollows(k, screen'[presses[k].from])
    <3>1. CASE presses[k].from = s
      BY <1>1, <3>1
    <3>2. CASE presses[k].from # s /\ presses[k].pc # "idle"
      BY <1>0, <1>1, <2>0, <3>2 DEF PressOK
    <3>3. CASE presses[k].pc = "idle"
      BY <3>3 DEF PressFollows
    <3> QED
      BY <3>1, <3>2, <3>3
  <2>4. PressFollows(k, screen[presses[k].from])'
    BY <1>2, <2>3 DEF PressFollows, AsFarAs
  <2> QED
    BY <2>2, <2>4
<1> QED
  BY <1>0, <1>1, <1>2, <1>4, <1>5 DEF OrderInv

\* What was current for the keys in view stays so, or everything becomes so.
Better(s, r, q) ==
  \A key \in Keys(s) : \A good : Current(r, key, Active(s, r), good) => Current(q, key, Active(s, q), good)

LEMMA BetterFollows ==
  ASSUME NEW s \in OrderScreens, NEW r, NEW q, Better(s, r, q), PageFollows(s, r),
         (q.link = "up" /\ ~News(q, useUserChannel)) => (r.link = "up" /\ ~News(r, useUserChannel))
  PROVE  /\ PageFollows(s, q)
         /\ \A k \in scene.presses : PressOK(k) /\ presses[k].from = s /\ PressFollows(k, r) => PressFollows(k, q)
<1>1. PageFollows(s, q)
  BY DEF PageFollows, Better
<1>2. ASSUME NEW k \in scene.presses, PressOK(k), presses[k].from = s, PressFollows(k, r)
      PROVE  PressFollows(k, q)
  <2>1. presses[k].pc = "done" => "shipment" \in Keys(s)
    BY <1>2 DEF PressOK, Keys
  <2> QED
    BY <1>2, <2>1 DEF PressFollows, Better
<1> QED
  BY <1>1, <1>2

LEMMA OrderBetter ==
  ASSUME Wired, OrderInv, NEW s \in On(OrderScreens), NEW new, Put(s, new),
         Holds(new), LineOK(s, new), scene' = scene, losses' \in Nat, parcel' = parcel,
         \/ presses' = presses
         \/ presses' = [k \in DOMAIN presses |-> [presses[k] EXCEPT !.left = @ \/ presses[k].from = s]],
         new.link # "off", CacheOf(new, Keys(s)),
         OrderKind[s] = "sold" => new.shown.group \in DOMAIN GROUPS,
         (new.link = "up" /\ ~News(new, useUserChannel)) =>
            (screen[s].link = "up" /\ ~News(screen[s], useUserChannel)),
         Better(s, screen[s], new)
  PROVE  Wired' /\ OrderInv' /\ \A t \in scene.screens \ OrderScreens : screen'[t] = screen[t]
<1>1. /\ s \in OrderScreens /\ PageFollows(s, screen[s])
      /\ \A k \in scene.presses : PressOK(k) /\ (presses[k].from = s => PressFollows(k, screen[s]))
  BY OrderPage DEF PageOK
<1>2. /\ PageFollows(s, new)
      /\ \A k \in scene.presses : presses[k].from = s => PressFollows(k, new)
  BY <1>1, BetterFollows
<1> QED
  BY <1>2, OrderScreenStep

LEMMA ClosedIsEmpty ==
  ASSUME NEW s, NEW r, LineOK(s, r), r.link = "closed"
  PROVE  r.rooms = {} /\ r.joining = {} /\ r.inbox = <<>>
BY DEF LineOK

\* A page that is on the line, without a room, hears nothing yet.
LEMMA EmptyLine ==
  ASSUME NEW s, NEW q, q.link # "up", q.rooms = {}, q.joining = {}, q.inbox = <<>>
  PROVE  LineOK(s, q)
BY DEF LineOK

LEMMA MountPageKeeps ==
  ASSUME Wired, OrderInv, NEW s \in On(OrderScreens), NEW old, MountPage(s, old), UNCHANGED scene
  PROVE  Wired' /\ OrderInv' /\ \A t \in scene.screens \ OrderScreens : screen'[t] = screen[t]
<1> DEFINE kept == IF screen[s].shown = Nothing THEN [Closed EXCEPT !.shown = EmptyCache(Keys(s))]
                   ELSE screen[s]
<1>o. PICK open : open = [kept EXCEPT !.link = "down"]
  OBVIOUS
<1>n. PICK new : new = LookedAt(open, Active(s, open), old)
  OBVIOUS
<1>0. /\ Holds(screen[s]) /\ LineOK(s, screen[s]) /\ PageOK(s, screen[s]) /\ losses \in Nat
      /\ s \in OrderScreens
  BY OrderPage
<1>1. screen[s].link = "closed" /\ Put(s, new) /\ losses' = losses /\ parcel' = parcel /\ presses' = presses
  BY <1>o, <1>n DEF MountPage, orderVars
<1>2. /\ Holds(kept) /\ CacheOf(kept, Keys(s)) /\ kept.rooms = {} /\ kept.joining = {} /\ kept.inbox = <<>>
      /\ OrderKind[s] = "sold" => kept.shown.group \in DOMAIN GROUPS
      /\ \A key \in Keys(s) : \A good :
           Current(screen[s], key, Active(s, screen[s]), good) => Current(kept, key, {}, good)
  <2>1. CASE screen[s].shown = Nothing
    <3> DEFINE e == [Closed EXCEPT !.shown = EmptyCache(Keys(s))]
    <3>1. /\ Holds(e) /\ CacheOf(e, Keys(s)) /\ e.rooms = {} /\ e.joining = {} /\ e.inbox = <<>>
          /\ DOMAIN e.reads = {} /\ \A key \in Keys(s) : e.shown.data[key] = Nothing
          /\ e.shown.group = "all"
      BY EmptyCacheFacts
    <3>2. kept = e /\ "all" \in DOMAIN GROUPS
      BY <2>1 DEF GROUPS
    <3> HIDE DEF e, kept
    <3> QED
      BY <3>1, <3>2 DEF Current, InForce
  <2>2. CASE screen[s].shown # Nothing
    <3>1. kept = screen[s] /\ Used(screen[s]) /\ Active(s, screen[s]) = {}
      BY <1>1, <2>2 DEF Used, Active
    <3>2. screen[s].rooms = {} /\ screen[s].joining = {} /\ screen[s].inbox = <<>>
      BY <1>0, <1>1, ClosedIsEmpty
    <3> QED
      BY <1>0, <3>1, <3>2 DEF PageOK
  <2> QED
    BY <2>1, <2>2
<1> HIDE DEF kept
<1>3. /\ Holds(open) /\ open.link = "down" /\ open.reads = kept.reads /\ open.shown = kept.shown
      /\ open.rooms = {} /\ open.joining = {} /\ open.inbox = <<>>
  BY <1>o, <1>2 DEF Holds, LINKS
<1>4. CacheOf(open, Keys(s))
  BY <1>2, <1>3, CacheMoves
<1>5. \A key \in Keys(s) : \A good :
        Current(screen[s], key, Active(s, screen[s]), good) => Current(open, key, {}, good)
  BY <1>2, <1>3, CurrentMoves
<1>a. Active(s, open) \in SUBSET Keys(s)
  BY <1>0, <1>2, <1>3, ActiveKeys
<1>6. /\ Holds(new) /\ SameButReads(new, open) /\ CacheOf(new, Keys(s))
      /\ \A key, active, good :
           Current(open, key, active, good) => Current(new, key, active \cup Active(s, open), good)
  BY <1>n, <1>3, <1>4, <1>a, LookedAtFacts
<1>7. /\ new.link = "down" /\ new.rooms = {} /\ new.joining = {} /\ new.inbox = <<>>
      /\ OrderKind[s] = "sold" => new.shown.group \in DOMAIN GROUPS
  BY <1>2, <1>3, <1>6 DEF SameButReads
<1>8. Active(s, new) = {} \cup Active(s, open)
  BY <1>6 DEF Active, SameButReads
<1>9. Better(s, screen[s], new)
  BY <1>5, <1>6, <1>8 DEF Better
<1>10. LineOK(s, new)
  BY <1>7, EmptyLine
<1> QED
  BY <1>0, <1>1, <1>6, <1>7, <1>9, <1>10, OrderBetter

LEMMA DroppedFacts ==
  ASSUME NEW r, Holds(r), NEW link \in LINKS
  PROVE  LET q == [Dropped(r) EXCEPT !.link = link]
         IN  /\ Holds(q) /\ Stays(r, q) /\ q.link = link
             /\ q.rooms = {} /\ q.joining = {} /\ q.inbox = <<>>
<1>1. <<>> \in Seq(Event)
  OBVIOUS
<1> QED
  BY <1>1 DEF Dropped, Holds, Stays, LINKS

LEMMA LeavePageKeeps ==
  ASSUME Wired, OrderInv, NEW s \in On(OrderScreens), LeavePage(s), UNCHANGED scene
  PROVE  Wired' /\ OrderInv' /\ \A t \in scene.screens \ OrderScreens : screen'[t] = screen[t]
<1>n. PICK new : new = [Dropped(screen[s]) EXCEPT !.link = "closed"]
  OBVIOUS
<1>0. /\ Holds(screen[s]) /\ LineOK(s, screen[s]) /\ PageOK(s, screen[s]) /\ losses \in Nat
      /\ s \in OrderScreens
  BY OrderPage
<1>1. /\ screen[s].link # "closed" /\ Put(s, new) /\ losses' \in Nat /\ parcel' = parcel
      /\ presses' = [k \in DOMAIN presses |-> [presses[k] EXCEPT !.left = @ \/ presses[k].from = s]]
  BY <1>n, <1>0 DEF LeavePage
<1>2. /\ Holds(new) /\ Stays(screen[s], new) /\ new.link = "closed"
      /\ new.rooms = {} /\ new.joining = {} /\ new.inbox = <<>>
  BY <1>n, <1>0, DroppedFacts DEF LINKS
<1>3. Used(screen[s])
  BY <1>1 DEF Used
<1>4. CacheOf(new, Keys(s)) /\ (OrderKind[s] = "sold" => new.shown.group \in DOMAIN GROUPS)
  BY <1>0, <1>2, <1>3, CacheMoves DEF PageOK, Stays
<1>5. Active(s, new) \in SUBSET Active(s, screen[s])
  BY <1>2 DEF Active
<1>6. Better(s, screen[s], new)
  BY <1>2, <1>5, CurrentMoves DEF Better, Stays
<1>7. LineOK(s, new)
  BY <1>2, EmptyLine
<1> QED
  BY <1>1, <1>2, <1>4, <1>6, <1>7, OrderBetter

\* reread: all the keys of a page.
LEMMA RereadFacts ==
  ASSUME NEW s \in OrderScreens, NEW r, Holds(r), CacheOf(r, Keys(s)),
         OrderKind[s] = "sold" => r.shown.group \in DOMAIN GROUPS
  PROVE  LET q == reread(s, r)
         IN  /\ Holds(q) /\ SameLine(q, r) /\ CacheOf(q, Keys(s))
             /\ q.shown.data = r.shown.data /\ q.shown.group = r.shown.group
             /\ Active(s, q) = Active(s, r)
             /\ \A key \in Keys(s) : \A good : Current(q, key, Active(s, q), good)
<1> DEFINE q == reread(s, r)
<1>1. Active(s, r) \in SUBSET Keys(s)
  BY ActiveKeys
<1>2. q = Invalidated(r, Keys(s), Active(s, r))
  BY DEF reread
<1> HIDE DEF q
<1>3. /\ Holds(q) /\ SameLine(q, r) /\ CacheOf(q, Keys(s))
      /\ q.shown.data = r.shown.data /\ q.shown.group = r.shown.group
      /\ \A key \in Keys(s) : \A good : Current(q, key, Active(s, r), good)
  BY <1>1, <1>2, InvalidatedFacts
<1>4. Active(s, q) = Active(s, r)
  BY <1>3 DEF Active, SameLine
<1> QED
  BY <1>3, <1>4 DEF q

\* The same cache under a page that looks at less of it.
LEMMA CurrentSame ==
  ASSUME NEW r, NEW q, q.reads = r.reads, q.shown.data = r.shown.data, q.shown.stale = r.shown.stale,
         q.shown.behind = r.shown.behind, NEW active, NEW less \in SUBSET active
  PROVE  \A key, good : Current(r, key, active, good) => Current(q, key, less, good)
BY DEF Current, InForce

LEMMA HearOrderKeeps ==
  ASSUME Wired, OrderInv, NEW s \in On(OrderScreens), HearOrder(s), UNCHANGED scene
  PROVE  Wired' /\ OrderInv' /\ \A t \in scene.screens \ OrderScreens : screen'[t] = screen[t]
<1>r. PICK r : r = [screen[s] EXCEPT !.inbox = Tail(@)]
  OBVIOUS
<1>n. PICK new : new = IF Head(screen[s].inbox).name \in useUserChannel THEN reread(s, r) ELSE r
  OBVIOUS
<1>0. /\ Holds(screen[s]) /\ LineOK(s, screen[s]) /\ PageOK(s, screen[s]) /\ losses \in Nat
      /\ s \in OrderScreens
  BY OrderPage
<1>1. screen[s].inbox # <<>> /\ Put(s, new) /\ losses' = losses /\ parcel' = parcel /\ presses' = presses
  BY <1>r, <1>n DEF HearOrder, orderVars
<1>2. /\ Holds(r) /\ Stays(screen[s], r) /\ r.link = screen[s].link
      /\ r.rooms = screen[s].rooms /\ r.joining = screen[s].joining
      /\ \A names : Head(screen[s].inbox).name \notin names /\ ~News(r, names) => ~News(screen[s], names)
      /\ LineOK(s, r)
  BY <1>0, <1>1, <1>r, TakenFacts
<1>3. screen[s].link \notin {"closed", "off"}
  BY <1>0, <1>1 DEF LineOK
<1>4. CacheOf(r, Keys(s)) /\ (OrderKind[s] = "sold" => r.shown.group \in DOMAIN GROUPS)
  BY <1>0, <1>2, <1>3, CacheMoves DEF PageOK, Stays, Used
<1>5. Active(s, r) = Active(s, screen[s])
  BY <1>2 DEF Active, Stays
<1>6. CASE Head(screen[s].inbox).name \in useUserChannel
  <2>1. new = reread(s, r)
    BY <1>n, <1>6
  <2>2. /\ Holds(new) /\ SameLine(new, r) /\ CacheOf(new, Keys(s)) /\ new.shown.group = r.shown.group
        /\ \A key \in Keys(s) : \A good : Current(new, key, Active(s, new), good)
    BY <1>0, <1>2, <1>4, <2>1, RereadFacts
  <2>3. LineOK(s, new) /\ new.link = screen[s].link
    BY <1>2, <2>2, LineStays DEF SameLine
  <2>4. PageFollows(s, new)
    BY <2>2 DEF PageFollows
  <2>5. \A k \in scene.presses : presses[k].from = s => PressFollows(k, new)
    <3> SUFFICES ASSUME NEW k \in scene.presses, presses[k].from = s, presses[k].pc = "done"
                 PROVE  PressFollows(k, new)
      BY DEF PressFollows
    <3>1. "shipment" \in Keys(s)
      BY DEF OrderInv, PressOK, Keys
    <3> QED
      BY <2>2, <3>1 DEF PressFollows
  <2> QED
    BY <1>0, <1>1, <1>3, <1>4, <2>2, <2>3, <2>4, <2>5, OrderScreenStep
<1>7. CASE Head(screen[s].inbox).name \notin useUserChannel
  <2>1. new = r
    BY <1>n, <1>7
  <2>2. Better(s, screen[s], new)
    BY <1>2, <1>5, <2>1, CurrentMoves DEF Better, Stays
  <2>3. ~News(new, useUserChannel) => ~News(screen[s], useUserChannel)
    BY <1>2, <1>7, <2>1
  <2> QED
    BY <1>0, <1>1, <1>2, <1>3, <1>4, <2>1, <2>2, <2>3, OrderBetter
<1> QED
  BY <1>6, <1>7

LEMMA setGroupKeeps ==
  ASSUME Wired, OrderInv, NEW s \in On(OrderScreens), NEW group \in DOMAIN GROUPS,
         setGroup(s, group), UNCHANGED scene
  PROVE  Wired' /\ OrderInv' /\ \A t \in scene.screens \ OrderScreens : screen'[t] = screen[t]
<1>r. PICK r : r = [screen[s] EXCEPT !.shown.group = group]
  OBVIOUS
<1>n. PICK new : new = LookedAt(r, {group}, FALSE)
  OBVIOUS
<1>0. /\ Holds(screen[s]) /\ LineOK(s, screen[s]) /\ PageOK(s, screen[s]) /\ losses \in Nat
      /\ s \in OrderScreens
  BY OrderPage
<1>1. /\ OrderKind[s] = "sold" /\ screen[s].link # "closed" /\ Put(s, new) /\ losses' = losses
      /\ parcel' = parcel /\ presses' = presses
  BY <1>r, <1>n DEF setGroup, orderVars
<1>2. CacheOf(screen[s], Keys(s))
  BY <1>0, <1>1 DEF PageOK, Used
<1>3. /\ Holds(r) /\ SameLine(r, screen[s]) /\ r.reads = screen[s].reads
      /\ r.shown.data = screen[s].shown.data /\ r.shown.stale = screen[s].shown.stale
      /\ r.shown.behind = screen[s].shown.behind /\ r.shown.group = group
      /\ r.shown \in [data : {r.shown.data}, stale : {r.shown.stale},
                      behind : {r.shown.behind}, group : {r.shown.group}]
  BY <1>0, <1>r, <1>2 DEF Holds, SameLine, CacheOf, Cached
<1>4. CacheOf(r, Keys(s))
  BY <1>2, <1>3 DEF CacheOf, Cached
<1>5. {group} \in SUBSET Keys(s)
  BY <1>1 DEF Keys
<1>6. /\ Holds(new) /\ SameButReads(new, r) /\ CacheOf(new, Keys(s))
      /\ \A key, active, good : Current(r, key, active, good) => Current(new, key, active \cup {group}, good)
  BY <1>n, <1>3, <1>4, <1>5, LookedAtFacts
<1>7. \A key, good : Current(screen[s], key, Active(s, screen[s]), good) => Current(r, key, {}, good)
  BY <1>3, CurrentSame
<1>8. /\ new.link = screen[s].link /\ new.inbox = screen[s].inbox /\ new.rooms = screen[s].rooms
      /\ new.joining = screen[s].joining /\ new.shown.group = group
  BY <1>3, <1>6 DEF SameButReads, SameLine
<1>9. Active(s, new) = {} \cup {group}
  BY <1>1, <1>8 DEF Active
<1>10. Better(s, screen[s], new)
  BY <1>6, <1>7, <1>9 DEF Better
<1>11. LineOK(s, new) /\ new.link # "off"
  BY <1>0, <1>8, LineStays DEF PageOK
<1>12. News(new, useUserChannel) <=> News(screen[s], useUserChannel)
  BY <1>8 DEF News
<1> QED
  BY <1>0, <1>1, <1>6, <1>8, <1>10, <1>11, <1>12, OrderBetter

LEMMA ServeOrderKeeps ==
  ASSUME Wired, OrderInv, NEW s \in On(OrderScreens), ServeOrder(s), UNCHANGED scene
  PROVE  Wired' /\ OrderInv' /\ \A t \in scene.screens \ OrderScreens : screen'[t] = screen[t]
<1>0. /\ Holds(screen[s]) /\ LineOK(s, screen[s]) /\ PageOK(s, screen[s]) /\ losses \in Nat
      /\ s \in OrderScreens
      /\ \A k \in scene.presses : PressOK(k) /\ (presses[k].from = s => PressFollows(k, screen[s]))
  BY OrderPage
<1>1. PICK key \in DOMAIN screen[s].reads : Put(s, Served(screen[s], key, Answer(key)))
  BY DEF ServeOrder
<1>2. losses' = losses /\ parcel' = parcel /\ presses' = presses
  BY DEF ServeOrder, orderVars
<1>n. PICK new : new = Served(screen[s], key, Answer(key))
  OBVIOUS
<1>3. /\ CacheOf(screen[s], Keys(s)) /\ (OrderKind[s] = "sold" => screen[s].shown.group \in DOMAIN GROUPS)
  BY <1>0 DEF Used, PageOK
<1>4. /\ Holds(new) /\ SameButReads(new, screen[s]) /\ CacheOf(new, Keys(s))
      /\ \A k, active, good : (Current(screen[s], k, active, good) /\ (k = key => Answer(key) \in good))
                              => Current(new, k, active, good)
  BY <1>0, <1>3, <1>n, CacheServedFacts
<1>5. /\ new.link = screen[s].link /\ new.inbox = screen[s].inbox /\ new.rooms = screen[s].rooms
      /\ new.joining = screen[s].joining /\ new.shown = screen[s].shown
      /\ Active(s, new) = Active(s, screen[s])
  BY <1>4 DEF SameButReads, Active
<1>6. News(new, useUserChannel) <=> News(screen[s], useUserChannel)
  BY <1>5 DEF News
<1>7. PageFollows(s, new)
  BY <1>0, <1>4, <1>5, <1>6 DEF PageOK, PageFollows
<1>8. ASSUME NEW k \in scene.presses, presses[k].from = s PROVE PressFollows(k, new)
  <2> SUFFICES ASSUME presses[k].pc = "done", presses[k].answer = "ok"
               PROVE  Current(new, "shipment", Active(s, new), AsFarAs(k))
    BY <1>8 DEF PressFollows
  <2>1. Answer("shipment") \in AsFarAs(k)
    BY <1>0 DEF OrderInv, PressOK, Answer, AsFarAs
  <2>2. Current(screen[s], "shipment", Active(s, screen[s]), AsFarAs(k))
    BY <1>0, <1>8 DEF PressFollows
  <2> QED
    BY <1>4, <1>5, <2>1, <2>2
<1>9. LineOK(s, new) /\ new.link # "off"
  BY <1>0, <1>5, LineStays DEF PageOK
<1> QED
  BY <1>0, <1>1, <1>2, <1>n, <1>3, <1>4, <1>5, <1>7, <1>8, <1>9, OrderScreenStep

LEMMA ShowOrderKeeps ==
  ASSUME Wired, OrderInv, NEW s \in On(OrderScreens), ShowOrder(s), UNCHANGED scene
  PROVE  Wired' /\ OrderInv' /\ \A t \in scene.screens \ OrderScreens : screen'[t] = screen[t]
<1>0. /\ Holds(screen[s]) /\ LineOK(s, screen[s]) /\ PageOK(s, screen[s]) /\ losses \in Nat
      /\ s \in OrderScreens
  BY OrderPage
<1>1. PICK key \in DOMAIN screen[s].reads :
        LET r == [CacheAnswered(screen[s], key) EXCEPT !.failed = @ /\ key # "order"]
        IN  /\ screen[s].reads[key].served
            /\ Put(s, LookedAt(r, Active(s, r) \ Active(s, screen[s]), FALSE))
  BY DEF ShowOrder
<1>2. losses' = losses /\ parcel' = parcel /\ presses' = presses
  BY DEF ShowOrder, orderVars
<1>a. PICK a : a = CacheAnswered(screen[s], key)
  OBVIOUS
<1>r. PICK r : r = [a EXCEPT !.failed = @ /\ key # "order"]
  OBVIOUS
<1>l. PICK more : more = Active(s, r) \ Active(s, screen[s])
  OBVIOUS
<1>n. PICK new : new = LookedAt(r, more, FALSE)
  OBVIOUS
<1>3. Put(s, new) /\ screen[s].reads[key].served
  BY <1>1, <1>a, <1>r, <1>l, <1>n
<1>4. /\ CacheOf(screen[s], Keys(s)) /\ (OrderKind[s] = "sold" => screen[s].shown.group \in DOMAIN GROUPS)
  BY <1>0 DEF Used, PageOK
<1>5. /\ Holds(a) /\ SameLine(a, screen[s]) /\ CacheOf(a, Keys(s)) /\ a.shown.group = screen[s].shown.group
      /\ \A k, active, good : Current(screen[s], k, active, good) => Current(a, k, active, good)
  BY <1>0, <1>3, <1>4, <1>a, CacheAnsweredFacts
<1>6. /\ Holds(r) /\ r.link = a.link /\ r.rooms = a.rooms /\ r.joining = a.joining /\ r.inbox = a.inbox
      /\ r.shown = a.shown /\ r.reads = a.reads
  BY <1>5, <1>r DEF Holds
<1>7. CacheOf(r, Keys(s)) /\ (OrderKind[s] = "sold" => r.shown.group \in DOMAIN GROUPS)
  BY <1>4, <1>5, <1>6, CacheMoves
<1>8. \A k, active, good : Current(screen[s], k, active, good) => Current(r, k, active, good)
  <2>1. \A active : active \in SUBSET active
    OBVIOUS
  <2> QED
    BY <1>5, <1>6, <2>1, CurrentMoves
<1>9. more \in SUBSET Keys(s)
  BY <1>0, <1>7, <1>l, ActiveKeys
<1>10. /\ Holds(new) /\ SameButReads(new, r) /\ CacheOf(new, Keys(s))
       /\ \A k, active, good : Current(r, k, active, good) => Current(new, k, active \cup more, good)
  BY <1>n, <1>6, <1>7, <1>9, LookedAtFacts
<1>11. /\ new.link = screen[s].link /\ new.inbox = screen[s].inbox /\ new.rooms = screen[s].rooms
       /\ new.joining = screen[s].joining /\ new.shown = r.shown /\ Active(s, new) = Active(s, r)
  BY <1>5, <1>6, <1>10 DEF SameButReads, SameLine, Active
<1>12. Better(s, screen[s], new)
  <2> SUFFICES ASSUME NEW k \in Keys(s), NEW good, Current(screen[s], k, Active(s, screen[s]), good)
               PROVE  Current(new, k, Active(s, new), good)
    BY DEF Better
  <2>1. Current(new, k, Active(s, screen[s]) \cup more, good)
    BY <1>8, <1>10
  <2>2. Active(s, new) \in SUBSET (Active(s, screen[s]) \cup more)
    BY <1>11, <1>l
  <2>3. \A x, g : Current(new, x, Active(s, screen[s]) \cup more, g) => Current(new, x, Active(s, new), g)
    BY <2>2, CurrentMoves
  <2> QED
    BY <2>1, <2>3
<1>13. LineOK(s, new) /\ new.link # "off"
  BY <1>0, <1>11, LineStays DEF PageOK
<1>14. News(new, useUserChannel) <=> News(screen[s], useUserChannel)
  BY <1>11 DEF News
<1> QED
  BY <1>0, <1>2, <1>3, <1>7, <1>10, <1>11, <1>12, <1>13, <1>14, OrderBetter

LEMMA LoseOrderKeeps ==
  ASSUME Wired, OrderInv, NEW s \in On(OrderScreens), LoseOrder(s), UNCHANGED scene
  PROVE  Wired' /\ OrderInv' /\ \A t \in scene.screens \ OrderScreens : screen'[t] = screen[t]
<1>0. /\ Holds(screen[s]) /\ LineOK(s, screen[s]) /\ PageOK(s, screen[s]) /\ losses \in Nat
      /\ s \in OrderScreens
  BY OrderPage
<1>1. PICK key \in DOMAIN screen[s].reads :
        Put(s, [CacheFailed(screen[s], key) EXCEPT !.failed = @ \/ key = "order"])
  BY DEF LoseOrder
<1>2. losses' \in Nat /\ parcel' = parcel /\ presses' = presses
  BY <1>0 DEF LoseOrder, orderVars
<1>a. PICK a : a = CacheFailed(screen[s], key)
  OBVIOUS
<1>n. PICK new : new = [a EXCEPT !.failed = @ \/ key = "order"]
  OBVIOUS
<1>3. Put(s, new)
  BY <1>1, <1>a, <1>n
<1>4. /\ CacheOf(screen[s], Keys(s)) /\ (OrderKind[s] = "sold" => screen[s].shown.group \in DOMAIN GROUPS)
  BY <1>0 DEF Used, PageOK
<1>5. /\ Holds(a) /\ SameLine(a, screen[s]) /\ CacheOf(a, Keys(s)) /\ a.shown.group = screen[s].shown.group
      /\ a.shown.data = screen[s].shown.data
      /\ \A k, active, good : Current(screen[s], k, active, good) => Current(a, k, active, good)
  BY <1>0, <1>4, <1>a, CacheFailedFacts
<1>6. /\ Holds(new) /\ new.link = a.link /\ new.rooms = a.rooms /\ new.joining = a.joining
      /\ new.inbox = a.inbox /\ new.shown = a.shown /\ new.reads = a.reads
      /\ ~new.failed => ~a.failed
  BY <1>5, <1>n DEF Holds
<1>7. CacheOf(new, Keys(s)) /\ (OrderKind[s] = "sold" => new.shown.group \in DOMAIN GROUPS)
  BY <1>4, <1>5, <1>6, CacheMoves
<1>8. Active(s, new) \in SUBSET Active(s, screen[s])
  BY <1>5, <1>6 DEF Active, SameLine
<1>9. Better(s, screen[s], new)
  BY <1>5, <1>6, <1>8, CurrentMoves DEF Better
<1>10. /\ new.link = screen[s].link /\ new.inbox = screen[s].inbox /\ new.rooms = screen[s].rooms
       /\ new.joining = screen[s].joining
  BY <1>5, <1>6 DEF SameLine
<1>13. LineOK(s, new) /\ new.link # "off"
  BY <1>0, <1>10, LineStays DEF PageOK
<1>14. News(new, useUserChannel) <=> News(screen[s], useUserChannel)
  BY <1>10 DEF News
<1> QED
  BY <1>0, <1>2, <1>3, <1>6, <1>7, <1>9, <1>10, <1>13, <1>14, OrderBetter

\* A parcel only goes on.
LEMMA StageFacts ==
  \A x \in ShipmentStatus : /\ Stage(x) \in Nat
                            /\ \A y \in nextStatuses(x) : y \in ShipmentStatus /\ Stage(y) >= Stage(x)
BY DEF ShipmentStatus, Stage, nextStatuses

LEMMA PressKept ==
  ASSUME OrderInv, NEW j \in scene.presses, presses'[j] = presses[j], UNCHANGED scene,
         parcel' \in ShipmentStatus, Stage(parcel') >= Stage(parcel)
  PROVE  PressOK(j)'
<1>1. PressOK(j) /\ parcel \in ShipmentStatus
  BY DEF OrderInv
<1>2. On(OrderScreens)' = On(OrderScreens)
  BY DEF On
<1>3. Stage(parcel) \in Nat /\ Stage(parcel') \in Nat
  BY <1>1, StageFacts
<1>4. presses[j].pc # "idle" => Stage(presses[j].next) \in Nat
  BY <1>1, StageFacts DEF PressOK
<1> HIDE DEF Stage
<1>5. ASSUME presses[j].pc = "emit" \/ (presses[j].pc \in {"answer", "done"} /\ presses[j].answer = "ok")
      PROVE  Stage(parcel') >= Stage(presses[j].next)
  <2>1. Stage(parcel) >= Stage(presses[j].next) /\ presses[j].pc # "idle"
    BY <1>1, <1>5 DEF PressOK
  <2> QED
    BY <1>3, <1>4, <2>1
<1> QED
  BY <1>1, <1>2, <1>5 DEF PressOK

\* A step of a press that no screen sees.
LEMMA PressOnly ==
  ASSUME Wired, OrderInv, UNCHANGED <<screen, scene, losses>>, NEW k \in scene.presses,
         NEW x, presses' = [presses EXCEPT ![k] = x], x.pc # "done", PressOK(k)', PressCached(k)',
         parcel' \in ShipmentStatus, Stage(parcel') >= Stage(parcel),
         presses[k].pc # "emit", x.pc = "emit" \/ parcel' = parcel
  PROVE  Wired' /\ OrderInv' /\ screen' = screen
<1>1. Wired'
  BY DEF Wired
<1>2. presses = [j \in scene.presses |-> presses[j]]
  BY DEF OrderInv
<1>3. /\ presses' = [j \in scene.presses |-> presses'[j]] /\ presses'[k] = x
      /\ \A j \in scene.presses \ {k} : presses'[j] = presses[j]
  BY <1>2
<1>4. ASSUME NEW j \in scene.presses
      PROVE  PressOK(j)' /\ PressCached(j)' /\ PressFollows(j, screen[presses[j].from])'
  <2>1. CASE j = k
    BY <1>3, <2>1 DEF PressFollows
  <2>2. CASE j # k
    <3>1. PressOK(j)'
      BY <1>3, <2>2, PressKept
    <3>2. PressFollows(j, screen[presses[j].from]) /\ PressCached(j)
      BY DEF OrderInv
    <3> QED
      BY <1>3, <2>2, <3>1, <3>2 DEF PressFollows, PressCached, AsFarAs
  <2> QED
    BY <2>1, <2>2
<1>5. ASSUME NEW s \in On(OrderScreens) PROVE PageOK(s, screen[s])'
  <2>1. PageOK(s, screen[s])
    BY DEF OrderInv
  <2>2. PageFollows(s, screen[s])'
    <3>1. CASE x.pc = "emit"
      BY <1>3, <3>1 DEF PageFollows
    <3>2. CASE parcel' = parcel /\ x.pc # "emit"
      <4>1. (\A j \in scene.presses : presses'[j].pc # "emit") => \A j \in scene.presses : presses[j].pc # "emit"
        BY <1>3
      <4>2. \A key : Answer(key)' = Answer(key)
        BY <3>2 DEF Answer
      <4>3. PageFollows(s, screen[s])
        BY <2>1 DEF PageOK
      <4> QED
        BY <4>1, <4>2, <4>3 DEF PageFollows
    <3> QED
      BY <3>1, <3>2
  <2> QED
    BY <2>1, <2>2 DEF PageOK
<1>6. On(OrderScreens)' = On(OrderScreens)
  BY DEF On
<1> QED
  BY <1>1, <1>3, <1>4, <1>5, <1>6 DEF OrderInv

LEMMA PressRow ==
  ASSUME OrderInv, NEW k \in scene.presses
  PROVE  /\ PressOK(k) /\ PressCached(k) /\ parcel \in ShipmentStatus
         /\ presses = [j \in scene.presses |-> presses[j]]
         /\ \A x : [presses EXCEPT ![k] = x][k] = x
BY DEF OrderInv

LEMMA advanceKeeps ==
  ASSUME Wired, OrderInv, NEW s \in On(OrderScreens), NEW k \in scene.presses, advance(s, k), UNCHANGED scene
  PROVE  Wired' /\ OrderInv' /\ screen' = screen
<1>1. PICK next \in Buttons(s) : presses' = [presses EXCEPT ![k] = [@ EXCEPT !.pc = "load", !.from = s, !.next = next]]
  BY DEF advance
<1>2. OrderKind[s] = "selling" /\ presses[k].pc = "idle" /\ UNCHANGED <<parcel, screen, losses>>
  BY DEF advance, channelVars
<1>x. PICK x : x = [presses[k] EXCEPT !.pc = "load", !.from = s, !.next = next]
  OBVIOUS
<1>3. PressOK(k) /\ PressCached(k) /\ parcel \in ShipmentStatus /\ presses = [j \in scene.presses |-> presses[j]]
  BY PressRow
<1>4. presses' = [presses EXCEPT ![k] = x] /\ presses'[k] = x
  BY <1>1, <1>3, <1>x
<1>5. next \in ShipmentStatus
  BY <1>1, StageFacts DEF Buttons, nextStatuses, ShipmentStatus
<1>6. Used(screen[s])
  BY <1>1 DEF Buttons, Active, Used
<1>7. CacheOf(screen[s], Keys(s))
  BY <1>6 DEF OrderInv, PageOK
<1>8. x.pc = "load" /\ x.from = s /\ x.next = next /\ x.left = presses[k].left
      /\ x \in [pc : {"load"}, from : {x.from}, next : {x.next}, seen : {x.seen},
                answer : {"400", "409", "ok", "lost", Nothing}, left : BOOLEAN]
  BY <1>3, <1>x DEF PressOK
<1>9. PressOK(k)' /\ PressCached(k)'
  <2>1. On(OrderScreens)' = On(OrderScreens)
    BY DEF On
  <2> QED
    BY <1>2, <1>4, <1>5, <1>7, <1>8, <2>1 DEF PressOK, PressCached
<1>10. Stage(parcel') >= Stage(parcel)
  BY <1>2, <1>3, StageFacts
<1> QED
  BY <1>2, <1>3, <1>4, <1>8, <1>9, <1>10, PressOnly

LEMMA LoadPartiesKeeps ==
  ASSUME Wired, OrderInv, NEW k \in scene.presses, LoadParties(k), UNCHANGED scene
  PROVE  Wired' /\ OrderInv' /\ screen' = screen
<1>2. presses[k].pc = "load" /\ UNCHANGED <<parcel, screen, losses>>
  BY DEF LoadParties, channelVars
<1>x. PICK x : x = IF presses[k].next \in nextStatuses(parcel)
                   THEN [presses[k] EXCEPT !.pc = "write", !.seen = parcel]
                   ELSE [presses[k] EXCEPT !.pc = "answer", !.answer = "400"]
  OBVIOUS
<1>3. PressOK(k) /\ PressCached(k) /\ parcel \in ShipmentStatus /\ presses = [j \in scene.presses |-> presses[j]]
  BY PressRow
<1>4. presses' = [presses EXCEPT ![k] = x] /\ presses'[k] = x
  BY <1>3, <1>x DEF LoadParties, AnsweredWith
<1>5. On(OrderScreens)' = On(OrderScreens)
  BY DEF On
<1>6. /\ x.pc \in {"write", "answer"} /\ x.from = presses[k].from /\ x.next = presses[k].next
      /\ x \in [pc : {"write", "answer"}, from : {x.from}, next : {x.next}, seen : {x.seen},
                answer : {"400", "409", "ok", "lost", Nothing}, left : BOOLEAN]
      /\ x.pc = "write" => x.next \in nextStatuses(x.seen)
      /\ x.pc = "answer" => x.answer = "400"
  BY <1>2, <1>3, <1>x DEF PressOK
<1>7. PressOK(k)' /\ PressCached(k)'
  BY <1>2, <1>3, <1>4, <1>5, <1>6 DEF PressOK, PressCached
<1>10. Stage(parcel') >= Stage(parcel)
  BY <1>2, <1>3, StageFacts
<1> QED
  BY <1>2, <1>3, <1>4, <1>6, <1>7, <1>10, PressOnly

LEMMA updateStatusKeeps ==
  ASSUME Wired, OrderInv, NEW k \in scene.presses, updateStatus(k), UNCHANGED scene
  PROVE  Wired' /\ OrderInv' /\ screen' = screen
<1>2. presses[k].pc = "write" /\ UNCHANGED <<screen, losses>>
  BY DEF updateStatus, channelVars
<1>x. PICK x : x = IF parcel = presses[k].seen THEN [presses[k] EXCEPT !.pc = "emit"]
                   ELSE [presses[k] EXCEPT !.pc = "answer", !.answer = "409"]
  OBVIOUS
<1>3. PressOK(k) /\ PressCached(k) /\ parcel \in ShipmentStatus /\ presses = [j \in scene.presses |-> presses[j]]
  BY PressRow
<1>4. presses' = [presses EXCEPT ![k] = x] /\ presses'[k] = x
  BY <1>3, <1>x DEF updateStatus, AnsweredWith, Go
<1>5. On(OrderScreens)' = On(OrderScreens)
  BY DEF On
<1>6. /\ x.pc \in {"emit", "answer"} /\ x.from = presses[k].from /\ x.next = presses[k].next
      /\ x \in [pc : {"emit", "answer"}, from : {x.from}, next : {x.next}, seen : {x.seen},
                answer : {"400", "409", "ok", "lost", Nothing}, left : BOOLEAN]
      /\ x.pc = "emit" <=> parcel = presses[k].seen
      /\ x.pc = "answer" => x.answer = "409"
  BY <1>2, <1>3, <1>x DEF PressOK
<1>7. parcel' = IF x.pc = "emit" THEN x.next ELSE parcel
  BY <1>6 DEF updateStatus
<1>8. x.pc = "emit" => x.next \in nextStatuses(parcel)
  BY <1>2, <1>3, <1>6 DEF PressOK
<1>9. parcel' \in ShipmentStatus /\ Stage(parcel') >= Stage(parcel)
  BY <1>3, <1>7, <1>8, StageFacts
<1>10. x.pc = "emit" => Stage(parcel') >= Stage(x.next)
  BY <1>7, <1>9, StageFacts
<1>11. PressOK(k)' /\ PressCached(k)'
  BY <1>2, <1>3, <1>4, <1>5, <1>6, <1>10 DEF PressOK, PressCached
<1> QED
  BY <1>2, <1>3, <1>4, <1>6, <1>7, <1>9, <1>11, PressOnly

\* What is said on the line leaves a cache and what is current in it.
LEMMA CarriedCache ==
  ASSUME NEW s \in OrderScreens, NEW r, NEW q, Carried(r, q), r.link # "off"
  PROVE  /\ q.link # "off" /\ (Used(q) => Used(r)) /\ Active(s, q) = Active(s, r)
         /\ \A keys : CacheOf(r, keys) => CacheOf(q, keys)
         /\ q.shown = r.shown
         /\ \A key, active, good : Current(r, key, active, good) => Current(q, key, active, good)
<1>1. q.reads = r.reads /\ q.shown = r.shown /\ q.failed = r.failed
  BY DEF Carried, Stays
<1>2. q.link = "closed" <=> r.link = "closed"
  BY DEF Carried
<1>3. q.link # "off"
  BY DEF Carried
<1>4. \A active : active \in SUBSET active
  OBVIOUS
<1>5. \A keys : CacheOf(r, keys) => CacheOf(q, keys)
  BY <1>1, CacheMoves
<1>6. \A key, active, good : Current(r, key, active, good) => Current(q, key, active, good)
  BY <1>1, <1>4, CurrentMoves
<1> QED
  BY <1>1, <1>2, <1>3, <1>5, <1>6 DEF Used, Active

\* Pages that only heard something, when presses and parcel allow it.
LEMMA OrderHeard ==
  ASSUME Wired, OrderInv, Wired', UNCHANGED <<parcel, scene>>,
         \A s \in On(OrderScreens) : Carried(screen[s], screen'[s]),
         presses' = [j \in scene.presses |-> presses'[j]],
         \A j \in scene.presses :
           /\ presses'[j].next = presses[j].next /\ presses'[j].from = presses[j].from
           /\ presses'[j].pc = "done" => presses[j] = presses'[j]
           /\ presses'[j].pc # "idle" => presses[j].pc # "idle"
           /\ PressOK(j)',
         \/ \A j \in scene.presses : presses'[j] = presses[j]
         \/ \A s \in On(OrderScreens) : screen'[s].link = "up" => News(screen'[s], useUserChannel)
  PROVE  OrderInv'
<1>1. On(OrderScreens)' = On(OrderScreens) /\ On(OrderScreens) \subseteq scene.screens
      /\ On(OrderScreens) \subseteq OrderScreens
  BY DEF On
<1>2. ASSUME NEW s \in On(OrderScreens)
      PROVE  /\ screen[s].link # "off" /\ screen'[s].link # "off" /\ (Used(screen'[s]) => Used(screen[s]))
             /\ Active(s, screen'[s]) = Active(s, screen[s]) /\ screen'[s].shown = screen[s].shown
             /\ \A keys : CacheOf(screen[s], keys) => CacheOf(screen'[s], keys)
             /\ \A key, active, good : Current(screen[s], key, active, good) => Current(screen'[s], key, active, good)
  <2>1. screen[s].link # "off" /\ Carried(screen[s], screen'[s]) /\ s \in OrderScreens
    BY <1>1 DEF OrderInv, PageOK
  <2> QED
    BY <2>1, CarriedCache
<1>3. ASSUME NEW s \in On(OrderScreens) PROVE PageOK(s, screen[s])'
  <2>0. PageOK(s, screen[s])
    BY DEF OrderInv
  <2>1. PageFollows(s, screen[s])'
    <3>1. CASE \A t \in On(OrderScreens) : screen'[t].link = "up" => News(screen'[t], useUserChannel)
      BY <3>1 DEF PageFollows
    <3>2. CASE \A j \in scene.presses : presses'[j] = presses[j]
      <4> SUFFICES ASSUME screen'[s].link = "up", ~News(screen'[s], useUserChannel),
                          \A k \in scene.presses : presses[k].pc # "emit", NEW key \in Keys(s)
                   PROVE  Current(screen'[s], key, Active(s, screen'[s]), {Answer(key)})
        BY <3>2 DEF PageFollows, Answer
      <4>1. "connection:ready" \in useUserChannel
        BY DEF useUserChannel
      <4>2. Holds(screen[s]) /\ Holds(screen'[s]) /\ Carried(screen[s], screen'[s])
        BY <1>1 DEF Wired
      <4>3. screen[s].link = "up" /\ ~News(screen[s], useUserChannel)
        BY <4>1, <4>2, CarriedNews
      <4>4. Current(screen[s], key, Active(s, screen[s]), {Answer(key)})
        BY <2>0, <4>3 DEF PageOK, PageFollows
      <4> QED
        BY <1>2, <4>4
    <3> QED
      BY <3>1, <3>2
  <2> QED
    BY <1>2, <2>0, <2>1 DEF PageOK
<1>4. ASSUME NEW j \in scene.presses
      PROVE  PressOK(j)' /\ PressCached(j)' /\ PressFollows(j, screen[presses[j].from])'
  <2>0. PressOK(j) /\ PressCached(j) /\ PressFollows(j, screen[presses[j].from])
    BY DEF OrderInv
  <2>1. PressCached(j)'
    <3> SUFFICES ASSUME presses'[j].pc # "idle"
                 PROVE  CacheOf(screen'[presses[j].from], Keys(presses[j].from))
      BY DEF PressCached
    <3>1. presses[j].from \in On(OrderScreens) /\ presses[j].pc # "idle"
      BY <2>0 DEF PressOK
    <3> QED
      BY <1>2, <2>0, <3>1 DEF PressCached
  <2>2. PressFollows(j, screen[presses[j].from])'
    <3> SUFFICES ASSUME presses'[j].pc = "done", presses'[j].answer = "ok"
                 PROVE  Current(screen'[presses[j].from], "shipment",
                                Active(presses[j].from, screen'[presses[j].from]), AsFarAs(j))
      BY DEF PressFollows, AsFarAs
    <3>1. presses[j] = presses'[j] /\ presses[j].from \in On(OrderScreens)
      BY <2>0 DEF PressOK
    <3>2. Current(screen[presses[j].from], "shipment",
                  Active(presses[j].from, screen[presses[j].from]), AsFarAs(j))
      BY <2>0, <3>1 DEF PressFollows
    <3> QED
      BY <1>2, <3>1, <3>2
  <2> QED
    BY <2>1, <2>2
<1>5. parcel' \in ShipmentStatus
  BY DEF OrderInv
<1> QED
  BY <1>1, <1>3, <1>4, <1>5 DEF OrderInv

LEMMA WiredFacts ==
  ASSUME Wired
  PROVE  /\ screen = [s \in scene.screens |-> screen[s]] /\ DOMAIN screen = scene.screens
         /\ \A s \in scene.screens : Holds(screen[s]) /\ LineOK(s, screen[s])
         /\ losses \in Nat
BY DEF Wired

\* Screens other than s, when one screen is changed.
LEMMA OrderCarried ==
  ASSUME Wired, OrderInv, Wired', UNCHANGED <<orderVars, scene>>,
         \A s \in On(OrderScreens) : Carried(screen[s], screen'[s])
  PROVE  OrderInv'
<1>1. parcel' = parcel /\ presses' = presses /\ scene' = scene
  BY DEF orderVars
<1>2. parcel \in ShipmentStatus /\ presses = [j \in scene.presses |-> presses[j]]
  BY DEF OrderInv
<1>3. Stage(parcel') >= Stage(parcel)
  BY <1>1, <1>2, StageFacts
<1>4. \A j \in scene.presses : PressOK(j)'
  BY <1>1, <1>2, <1>3, PressKept
<1> QED
  BY <1>1, <1>2, <1>4, OrderHeard

LEMMA emitOrderStatusChangedKeeps ==
  ASSUME Wired, OrderInv, NEW k \in scene.presses,
         emitOrderStatusChanged(k, {OwnerOf[s] : s \in OrderScreens}), UNCHANGED scene
  PROVE  Wired' /\ OrderInv' /\ \A t \in scene.screens : Carried(screen[t], screen'[t])
<1> DEFINE rooms == {userRoom(user) : user \in {OwnerOf[s] : s \in OrderScreens}}
<1>1. /\ presses[k].pc = "emit" /\ losses' = losses /\ parcel' = parcel
      /\ screen' = emitToRooms(screen, rooms, "order:status_changed", Nothing)
      /\ presses' = AnsweredWith(k, "ok")
  BY DEF emitOrderStatusChanged
<1>2. [name |-> "order:status_changed", payload |-> Nothing] \in Event
  BY DEF Event
<1>3. /\ screen = [s \in scene.screens |-> screen[s]]
      /\ \A s \in scene.screens : Holds(screen[s]) /\ LineOK(s, screen[s])
      /\ losses \in Nat
  BY WiredFacts
<1>r. \A s \in OrderScreens : userRoom(OwnerOf[s]) \in rooms
  OBVIOUS
<1> HIDE DEF rooms
<1>4. /\ screen' = [s \in scene.screens |-> screen'[s]]
      /\ \A s \in scene.screens : Heard_(screen, screen', s, rooms, "order:status_changed")
  <2> DEFINE q == emitToRooms(screen, rooms, "order:status_changed", Nothing)
  <2>1. q = [s \in scene.screens |-> q[s]] /\ \A s \in scene.screens : Heard_(screen, q, s, rooms, "order:status_changed")
    BY <1>2, <1>3, EmitFacts
  <2> HIDE DEF q
  <2>2. screen' = q
    BY <1>1 DEF q
  <2> QED
    BY <2>1, <2>2
<1>5. Wired'
  BY <1>1, <1>3, <1>4 DEF Wired, Heard_
<1>6. \A s \in scene.screens : Carried(screen[s], screen'[s])
  BY <1>4 DEF Heard_
<1>7. ASSUME NEW s \in On(OrderScreens), screen'[s].link = "up" PROVE News(screen'[s], useUserChannel)
  <2>1. s \in scene.screens /\ s \in OrderScreens
    BY DEF On
  <2>2. screen[s].link = "up" /\ screen[s].rooms = screen'[s].rooms
    BY <1>4, <1>7, <2>1 DEF Heard_
  <2>3. userRoom(OwnerOf[s]) \in screen[s].rooms
    BY <1>3, <2>1, <2>2 DEF LineOK, RoomsFor
  <2>4. News(screen'[s], {"order:status_changed"})
    BY <1>r, <1>4, <2>1, <2>3 DEF Heard_
  <2> QED
    BY <2>4 DEF News, useUserChannel
<1>8. PressOK(k) /\ presses = [j \in scene.presses |-> presses[j]] /\ parcel \in ShipmentStatus
  BY PressRow
<1>x. PICK x : x = [presses[k] EXCEPT !.pc = "answer", !.answer = "ok"]
  OBVIOUS
<1>9. presses' = [j \in scene.presses |-> IF j = k THEN x ELSE presses[j]]
  BY <1>1, <1>8, <1>x DEF AnsweredWith
<1>10. /\ x.pc = "answer" /\ x.answer = "ok" /\ x.next = presses[k].next /\ x.from = presses[k].from
       /\ x \in [pc : {"answer"}, from : {x.from}, next : {x.next}, seen : {x.seen},
                 answer : {"400", "409", "ok", "lost", Nothing}, left : BOOLEAN]
  BY <1>8, <1>x DEF PressOK
<1>11. On(OrderScreens)' = On(OrderScreens)
  BY DEF On
<1>12. PressOK(k)'
  BY <1>1, <1>8, <1>9, <1>10, <1>11 DEF PressOK
<1>13. Stage(parcel') >= Stage(parcel)
  BY <1>1, <1>8, StageFacts
<1>14. ASSUME NEW j \in scene.presses
       PROVE  /\ presses'[j].next = presses[j].next /\ presses'[j].from = presses[j].from
              /\ presses'[j].pc = "done" => presses[j] = presses'[j]
              /\ presses'[j].pc # "idle" => presses[j].pc # "idle"
              /\ PressOK(j)'
  <2>1. CASE j = k
    BY <1>1, <1>9, <1>10, <1>12, <2>1
  <2>2. CASE j # k
    <3>1. presses'[j] = presses[j]
      BY <1>9, <2>2
    <3>2. PressOK(j)'
      BY <1>1, <1>8, <1>13, <3>1, PressKept
    <3> QED
      BY <3>1, <3>2
  <2> QED
    BY <2>1, <2>2
<1>15. presses' = [j \in scene.presses |-> presses'[j]]
  BY <1>9
<1>16. On(OrderScreens) \subseteq scene.screens
  BY DEF On
<1>17. OrderInv'
  BY <1>1, <1>5, <1>6, <1>7, <1>14, <1>15, <1>16, OrderHeard
<1> QED
  BY <1>5, <1>6, <1>17

\* A restart: every line that was up is down, and nobody is told any more.
LEMMA RestartCarries ==
  ASSUME Wired, screen' = AllDropped, UNCHANGED scene, losses' = losses + 1
  PROVE  Wired' /\ \A s \in scene.screens : Carried(screen[s], screen'[s]) /\ screen'[s].link # "up"
<1>1. /\ screen = [s \in scene.screens |-> screen[s]] /\ DOMAIN screen = scene.screens
      /\ \A s \in scene.screens : Holds(screen[s]) /\ LineOK(s, screen[s])
      /\ losses \in Nat
  BY WiredFacts
<1>2. screen' = [s \in scene.screens |-> IF screen[s].link = "up" THEN Dropped(screen[s]) ELSE screen[s]]
  BY <1>1 DEF AllDropped
<1>3. ASSUME NEW s \in scene.screens
      PROVE  /\ Holds(screen'[s]) /\ LineOK(s, screen'[s]) /\ Carried(screen[s], screen'[s])
             /\ screen'[s].link # "up"
  <2>1. CASE screen[s].link = "up"
    <3>1. screen'[s] = Dropped(screen[s])
      BY <1>2, <2>1
    <3>2. /\ Holds(screen'[s]) /\ Stays(screen[s], screen'[s]) /\ screen'[s].link = "down"
          /\ screen'[s].rooms = {} /\ screen'[s].joining = {} /\ screen'[s].inbox = <<>>
      <4>1. <<>> \in Seq(Event) /\ Holds(screen[s])
        BY <1>1
      <4> QED
        BY <3>1, <4>1 DEF Dropped, Holds, Stays, LINKS
    <3>3. LineOK(s, screen'[s])
      BY <3>2, EmptyLine
    <3> QED
      BY <2>1, <3>2, <3>3 DEF Carried
  <2>2. CASE screen[s].link # "up"
    <3>1. screen'[s] = screen[s]
      BY <1>2, <2>2
    <3>2. Carried(screen[s], screen[s])
      BY <1>1, CarriedSame
    <3> QED
      BY <1>1, <2>2, <3>1, <3>2
  <2> QED
    BY <2>1, <2>2
<1>4. screen' = [s \in scene.screens |-> screen'[s]]
  BY <1>2
<1>5. Wired'
  BY <1>1, <1>3, <1>4 DEF Wired
<1> QED
  BY <1>3, <1>5

LEMMA OrderRestart ==
  ASSUME Wired, OrderInv, Wired', RestartOrders, UNCHANGED <<parcel, scene>>,
         \A s \in On(OrderScreens) : Carried(screen[s], screen'[s]) /\ screen'[s].link # "up"
  PROVE  OrderInv'
<1>1. parcel \in ShipmentStatus /\ presses = [j \in scene.presses |-> presses[j]]
      /\ \A j \in scene.presses : PressOK(j)
  BY DEF OrderInv
<1>2. presses' = [k \in scene.presses |->
         IF presses[k].pc \in {"load", "write", "emit"}
         THEN [presses[k] EXCEPT !.pc = "answer", !.answer = "lost"] ELSE presses[k]]
  BY <1>1 DEF RestartOrders
<1>3. Stage(parcel') >= Stage(parcel)
  BY <1>1, StageFacts
<1>4. On(OrderScreens)' = On(OrderScreens)
  BY DEF On
<1>5. ASSUME NEW j \in scene.presses
      PROVE  /\ presses'[j].next = presses[j].next /\ presses'[j].from = presses[j].from
             /\ presses'[j].pc = "done" => presses[j] = presses'[j]
             /\ presses'[j].pc # "idle" => presses[j].pc # "idle"
             /\ PressOK(j)'
  <2>1. CASE presses[j].pc \in {"load", "write", "emit"}
    <3>1. presses'[j] = [presses[j] EXCEPT !.pc = "answer", !.answer = "lost"]
      BY <1>2, <2>1
    <3>2. /\ presses'[j].pc = "answer" /\ presses'[j].answer = "lost"
          /\ presses'[j].next = presses[j].next /\ presses'[j].from = presses[j].from
          /\ presses'[j] \in [pc : {"answer"}, from : {presses[j].from}, next : {presses[j].next},
                              seen : {presses[j].seen}, answer : {"lost"}, left : BOOLEAN]
      BY <1>1, <3>1 DEF PressOK
    <3>3. PressOK(j)'
      BY <1>1, <1>4, <2>1, <3>2 DEF PressOK
    <3> QED
      BY <2>1, <3>2, <3>3
  <2>2. CASE presses[j].pc \notin {"load", "write", "emit"}
    <3>1. presses'[j] = presses[j]
      BY <1>2, <2>2
    <3>2. PressOK(j)'
      BY <1>1, <1>3, <3>1, PressKept
    <3> QED
      BY <3>1, <3>2
  <2> QED
    BY <2>1, <2>2
<1>6. presses' = [j \in scene.presses |-> presses'[j]]
  BY <1>2
<1> QED
  BY <1>5, <1>6, OrderHeard

\* What the answer to a press makes of a page: nothing, or all of it is read again.
LEMMA SettledFacts ==
  ASSUME Wired, OrderInv, NEW k \in scene.presses, presses[k].pc = "answer", NEW t \in On(OrderScreens),
         NEW q, q = onSettled(presses[k].from, t, presses[k].answer)
  PROVE  /\ Holds(q) /\ LineOK(t, q) /\ q.link # "off"
         /\ Used(q) => CacheOf(q, Keys(t)) /\ (OrderKind[t] = "sold" => q.shown.group \in DOMAIN GROUPS)
         /\ CacheOf(screen[t], Keys(t)) => CacheOf(q, Keys(t))
         /\ q.link = screen[t].link /\ q.inbox = screen[t].inbox
         /\ \/ q = screen[t] /\ ~(t = presses[k].from /\ presses[k].answer = "ok")
            \/ \A key \in Keys(t) : \A good : Current(q, key, Active(t, q), good)
<1>0. /\ Holds(screen[t]) /\ LineOK(t, screen[t]) /\ PageOK(t, screen[t]) /\ t \in OrderScreens
  BY OrderPage
<1>1. PressOK(k) /\ PressCached(k)
  BY PressRow
<1>2. \/ q = screen[t] /\ ~(t = presses[k].from /\ presses[k].answer = "ok")
      \/ /\ q = reread(t, screen[t])
         /\ t = presses[k].from \/ screen[t].shown # Nothing
  BY DEF onSettled
<1>3. CASE q = screen[t] /\ ~(t = presses[k].from /\ presses[k].answer = "ok")
  BY <1>0, <1>3 DEF PageOK
<1>4. CASE q = reread(t, screen[t]) /\ (t = presses[k].from \/ screen[t].shown # Nothing)
  <2>1. CacheOf(screen[t], Keys(t)) /\ (OrderKind[t] = "sold" => screen[t].shown.group \in DOMAIN GROUPS)
    <3>1. CASE t = presses[k].from
      BY <1>1, <3>1 DEF PressOK, PressCached
    <3>2. CASE screen[t].shown # Nothing
      BY <1>0, <3>2 DEF PageOK, Used
    <3> QED
      BY <1>4, <3>1, <3>2
  <2>2. /\ Holds(q) /\ SameLine(q, screen[t]) /\ CacheOf(q, Keys(t)) /\ q.shown.group = screen[t].shown.group
        /\ \A key \in Keys(t) : \A good : Current(q, key, Active(t, q), good)
    BY <1>0, <1>4, <2>1, RereadFacts
  <2>3. LineOK(t, q) /\ q.link # "off" /\ q.link = screen[t].link /\ q.inbox = screen[t].inbox
    BY <1>0, <2>2, LineStays DEF SameLine, PageOK
  <2> QED
    BY <2>1, <2>2, <2>3
<1> QED
  BY <1>2, <1>3, <1>4

LEMMA AnswerPressKeeps ==
  ASSUME Wired, OrderInv, NEW k \in scene.presses, AnswerPress(k), UNCHANGED scene
  PROVE  Wired' /\ OrderInv' /\ \A t \in scene.screens \ OrderScreens : screen'[t] = screen[t]
<1>1. /\ presses[k].pc = "answer" /\ presses' = Go(k, "done") /\ losses' = losses /\ parcel' = parcel
  BY DEF AnswerPress
<1>2. /\ screen = [s \in scene.screens |-> screen[s]] /\ DOMAIN screen = scene.screens
      /\ \A s \in scene.screens : Holds(screen[s]) /\ LineOK(s, screen[s])
      /\ losses \in Nat
  BY WiredFacts
<1>3. screen' = [t \in scene.screens |-> IF t \in OrderScreens
                                         THEN onSettled(presses[k].from, t, presses[k].answer)
                                         ELSE screen[t]]
  BY <1>2 DEF AnswerPress
<1>4. On(OrderScreens)' = On(OrderScreens) /\ \A t : t \in On(OrderScreens) <=> t \in scene.screens /\ t \in OrderScreens
  BY DEF On
<1>5. ASSUME NEW t \in On(OrderScreens)
      PROVE  /\ Holds(screen'[t]) /\ LineOK(t, screen'[t]) /\ screen'[t].link # "off"
             /\ Used(screen'[t]) => CacheOf(screen'[t], Keys(t))
                                    /\ (OrderKind[t] = "sold" => screen'[t].shown.group \in DOMAIN GROUPS)
             /\ CacheOf(screen[t], Keys(t)) => CacheOf(screen'[t], Keys(t))
             /\ screen'[t].link = screen[t].link /\ screen'[t].inbox = screen[t].inbox
             /\ \/ screen'[t] = screen[t] /\ ~(t = presses[k].from /\ presses[k].answer = "ok")
                \/ \A key \in Keys(t) : \A good : Current(screen'[t], key, Active(t, screen'[t]), good)
  <2>1. screen'[t] = onSettled(presses[k].from, t, presses[k].answer)
    BY <1>3, <1>4
  <2>2. PICK q : q = onSettled(presses[k].from, t, presses[k].answer)
    OBVIOUS
  <2>3. /\ Holds(q) /\ LineOK(t, q) /\ q.link # "off"
        /\ Used(q) => CacheOf(q, Keys(t)) /\ (OrderKind[t] = "sold" => q.shown.group \in DOMAIN GROUPS)
        /\ CacheOf(screen[t], Keys(t)) => CacheOf(q, Keys(t))
        /\ q.link = screen[t].link /\ q.inbox = screen[t].inbox
        /\ \/ q = screen[t] /\ ~(t = presses[k].from /\ presses[k].answer = "ok")
           \/ \A key \in Keys(t) : \A good : Current(q, key, Active(t, q), good)
    BY <1>1, <2>2, SettledFacts
  <2> QED
    BY <2>1, <2>2, <2>3
<1>6. \A t \in scene.screens \ OrderScreens : screen'[t] = screen[t]
  BY <1>3
<1>7. Wired'
  <2>1. screen' = [t \in scene.screens |-> screen'[t]]
    BY <1>3
  <2>2. \A t \in scene.screens : Holds(screen'[t]) /\ LineOK(t, screen'[t])
    BY <1>2, <1>4, <1>5, <1>6
  <2> QED
    BY <1>1, <1>2, <2>1, <2>2 DEF Wired
<1>8. parcel \in ShipmentStatus /\ presses = [j \in scene.presses |-> presses[j]]
      /\ \A j \in scene.presses : PressOK(j) /\ PressCached(j) /\ PressFollows(j, screen[presses[j].from])
  BY DEF OrderInv
<1>x. PICK x : x = [presses[k] EXCEPT !.pc = "done"]
  OBVIOUS
<1>9. presses' = [j \in scene.presses |-> IF j = k THEN x ELSE presses[j]]
  BY <1>1, <1>8, <1>x DEF Go
<1>10. /\ x.pc = "done" /\ x.answer = presses[k].answer /\ x.next = presses[k].next /\ x.from = presses[k].from
       /\ x \in [pc : {"done"}, from : {x.from}, next : {x.next}, seen : {x.seen},
                 answer : {"400", "409", "ok", "lost", Nothing}, left : BOOLEAN]
  BY <1>8, <1>x DEF PressOK
<1>11. Stage(parcel') >= Stage(parcel)
  BY <1>1, <1>8, StageFacts
<1>12. ASSUME NEW j \in scene.presses
       PROVE  /\ PressOK(j)' /\ presses'[j].from = presses[j].from /\ presses'[j].next = presses[j].next
              /\ presses'[j].answer = presses[j].answer
              /\ presses'[j].pc # "idle" => presses[j].pc # "idle"
              /\ j # k => presses'[j].pc = presses[j].pc
  <2>1. CASE j = k
    <3>1. PressOK(k)'
      BY <1>1, <1>4, <1>8, <1>9, <1>10 DEF PressOK
    <3> QED
      BY <1>1, <1>9, <1>10, <2>1, <3>1
  <2>2. CASE j # k
    <3>1. presses'[j] = presses[j]
      BY <1>9, <2>2
    <3>2. PressOK(j)'
      BY <1>1, <1>8, <1>11, <3>1, PressKept
    <3> QED
      BY <3>1, <3>2
  <2> QED
    BY <2>1, <2>2
<1>13. ASSUME NEW j \in scene.presses
       PROVE  PressCached(j)' /\ PressFollows(j, screen[presses[j].from])'
  <2>1. presses[j].pc # "idle" => /\ presses[j].from \in On(OrderScreens)
                                  /\ CacheOf(screen[presses[j].from], Keys(presses[j].from))
                                  /\ "shipment" \in Keys(presses[j].from)
    BY <1>8 DEF PressOK, PressCached, Keys
  <2>2. PressCached(j)'
    BY <1>5, <1>12, <2>1 DEF PressCached
  <2>3. ASSUME presses'[j].pc = "done", presses'[j].answer = "ok"
        PROVE  Current(screen'[presses[j].from], "shipment", Active(presses[j].from, screen'[presses[j].from]), AsFarAs(j))
    <3> DEFINE u == presses[j].from
    <3>1. u \in On(OrderScreens) /\ "shipment" \in Keys(u)
      BY <1>12, <2>1, <2>3
    <3>2. CASE \A key \in Keys(u) : \A good : Current(screen'[u], key, Active(u, screen'[u]), good)
      BY <3>1, <3>2
    <3>3. CASE screen'[u] = screen[u] /\ ~(u = presses[k].from /\ presses[k].answer = "ok")
      <4>1. j # k
        BY <1>12, <2>3, <3>3
      <4>2. PressFollows(j, screen[u]) /\ presses[j].pc = "done" /\ presses[j].answer = "ok"
        BY <1>8, <1>12, <2>3, <4>1
      <4> QED
        BY <3>3, <4>2 DEF PressFollows
    <3> QED
      BY <1>5, <3>1, <3>2, <3>3
  <2>4. AsFarAs(j)' = AsFarAs(j) /\ presses'[j].from = presses[j].from
    BY <1>12 DEF AsFarAs
  <2>5. PressFollows(j, screen[presses[j].from])'
    BY <2>3, <2>4 DEF PressFollows
  <2> QED
    BY <2>2, <2>5
<1>14. ASSUME NEW t \in On(OrderScreens) PROVE PageOK(t, screen[t])'
  <2>1. PageFollows(t, screen[t])'
    <3>1. CASE \A key \in Keys(t) : \A good : Current(screen'[t], key, Active(t, screen'[t]), good)
      BY <3>1 DEF PageFollows
    <3>2. CASE screen'[t] = screen[t]
      <4>1. PageFollows(t, screen[t])
        BY DEF OrderInv, PageOK
      <4>2. (\A j \in scene.presses : presses'[j].pc # "emit") => \A j \in scene.presses : presses[j].pc # "emit"
        BY <1>1, <1>12
      <4>3. \A key : Answer(key)' = Answer(key)
        BY <1>1 DEF Answer
      <4> QED
        BY <3>2, <4>1, <4>2, <4>3 DEF PageFollows
    <3> QED
      BY <1>5, <3>1, <3>2
  <2> QED
    BY <1>5, <2>1 DEF PageOK
<1>15. presses' = [j \in scene.presses |-> presses'[j]]
  BY <1>9
<1>16. OrderInv'
  BY <1>1, <1>4, <1>8, <1>12, <1>13, <1>14, <1>15 DEF OrderInv
<1> QED
  BY <1>6, <1>7, <1>16

\* Each step of the order pages, and what the others see of it.
LEMMA OrderStepKeeps ==
  ASSUME Wired, OrderInv, OrderStep
  PROVE  Wired' /\ OrderInv' /\ \A t \in scene.screens \ OrderScreens : Carried(screen[t], screen'[t])
<1>0. UNCHANGED scene
  BY DEF OrderStep
<1>s. \A t \in scene.screens : Carried(screen[t], screen[t])
  BY WiredFacts, CarriedSame
<1>1. ASSUME NEW s \in On(OrderScreens),
             \/ \E old \in BOOLEAN : MountPage(s, old)
             \/ LeavePage(s)
             \/ HearOrder(s)
             \/ \E group \in scene.groups : setGroup(s, group)
             \/ ServeOrder(s)
             \/ ShowOrder(s)
             \/ LoseOrder(s)
             \/ \E k \in NextPress : advance(s, k)
      PROVE  Wired' /\ OrderInv' /\ \A t \in scene.screens \ OrderScreens : screen'[t] = screen[t]
  <2>1. NextPress \subseteq scene.presses
    BY DEF NextPress
  <2>2. scene.groups \subseteq DOMAIN GROUPS
    BY RealtimeScenes DEF Wired
  <2> QED
    BY <1>0, <1>1, <2>1, <2>2, MountPageKeeps, LeavePageKeeps, HearOrderKeeps, setGroupKeeps, ServeOrderKeeps,
       ShowOrderKeeps, LoseOrderKeeps, advanceKeeps
<1>2. ASSUME NEW k \in scene.presses,
             \/ LoadParties(k)
             \/ updateStatus(k)
             \/ AnswerPress(k)
      PROVE  Wired' /\ OrderInv' /\ \A t \in scene.screens \ OrderScreens : screen'[t] = screen[t]
  BY <1>0, <1>2, LoadPartiesKeeps, updateStatusKeeps, AnswerPressKeeps
<1>3. ASSUME NEW k \in scene.presses, emitOrderStatusChanged(k, {OwnerOf[s] : s \in OrderScreens})
      PROVE  Wired' /\ OrderInv' /\ \A t \in scene.screens : Carried(screen[t], screen'[t])
  BY <1>0, <1>3, emitOrderStatusChangedKeeps
<1> QED
  BY <1>s, <1>1, <1>2, <1>3 DEF OrderStep

\* What the pages may say, from the invariant.
LEMMA PressesAreTold ==
  ASSUME OrderInv PROVE PressesAreShown
<1> SUFFICES ASSUME NEW k \in scene.presses, presses[k].pc = "done", presses[k].answer = "ok",
                    DOMAIN screen[presses[k].from].reads = {},
                    "shipment" \in Active(presses[k].from, screen[presses[k].from])
                                   \ screen[presses[k].from].shown.behind
             PROVE  Stage(screen[presses[k].from].shown.data["shipment"]) >= Stage(presses[k].next)
  BY DEF PressesAreShown, PressIsShown
<1>1. Current(screen[presses[k].from], "shipment", Active(presses[k].from, screen[presses[k].from]), AsFarAs(k))
  BY DEF OrderInv, PressFollows
<1>2. screen[presses[k].from].shown.data["shipment"] \in AsFarAs(k)
  BY <1>1 DEF Current, InForce
<1> QED
  BY <1>2 DEF AsFarAs

LEMMA PagesAreCurrent ==
  ASSUME OrderInv, NEW s \in On(OrderScreens) PROVE PageIsCurrent(s)
<1> SUFFICES ASSUME Resting(s), \A k \in DOMAIN presses : presses[k].pc # "emit",
                    NEW key \in Active(s, screen[s]), key \notin screen[s].shown.behind
             PROVE  screen[s].shown.data[key] = Answer(key)
  BY DEF PageIsCurrent
<1>1. screen[s].link = "up" /\ screen[s].inbox = <<>> /\ DOMAIN screen[s].reads = {}
  BY DEF Resting
<1>2. ~News(screen[s], useUserChannel)
  BY <1>1 DEF News
<1>3. PageOK(s, screen[s]) /\ DOMAIN presses = scene.presses /\ s \in OrderScreens
  BY DEF OrderInv, On
<1>4. key \in Keys(s)
  BY <1>1, <1>3, ActiveKeys DEF PageOK, Used
<1>5. Current(screen[s], key, Active(s, screen[s]), {Answer(key)})
  BY <1>1, <1>2, <1>3, <1>4 DEF PageOK, PageFollows
<1> QED
  BY <1>1, <1>5 DEF Current, InForce

-----------------------------------------------------------------------------
(***************************************************************************)
(* Sockets                                                                 *)
(***************************************************************************)
LEMMA CarriedOne ==
  ASSUME Wired, NEW s \in scene.screens, NEW new, Put(s, new), Holds(new), LineOK(s, new),
         Carried(screen[s], new), UNCHANGED scene, losses' \in Nat
  PROVE  Wired' /\ \A t \in scene.screens : Carried(screen[t], screen'[t])
<1>1. Wired' /\ screen'[s] = new /\ \A t \in scene.screens \ {s} : screen'[t] = screen[t]
  BY PutFacts
<1>2. \A t \in scene.screens : Carried(screen[t], screen[t])
  BY WiredFacts, CarriedSame
<1> QED
  BY <1>1, <1>2

LEMMA ConnectionCarries ==
  ASSUME Wired, NEW s \in scene.screens, handleConnection(s), UNCHANGED scene
  PROVE  Wired' /\ \A t \in scene.screens : Carried(screen[t], screen'[t])
<1>0. Holds(screen[s]) /\ LineOK(s, screen[s]) /\ losses \in Nat
  BY WiredFacts
<1>1. screen[s].link = "down" /\ losses' = losses
  BY DEF handleConnection
<1>2. CASE OwnerOf[s] \in Barred
  <2>1. PICK new : new = [screen[s] EXCEPT !.link = "rejected"]
    OBVIOUS
  <2>2. Put(s, new)
    BY <1>2, <2>1 DEF handleConnection
  <2>3. /\ Holds(new) /\ Stays(screen[s], new) /\ new.link = "rejected" /\ new.inbox = screen[s].inbox
        /\ new.rooms = screen[s].rooms /\ new.joining = screen[s].joining
    BY <1>0, <2>1 DEF Holds, Stays, LINKS
  <2>4. LineOK(s, new) /\ Carried(screen[s], new)
    BY <1>0, <1>1, <2>3 DEF LineOK, Carried
  <2> QED
    BY <1>0, <1>1, <2>2, <2>3, <2>4, CarriedOne
<1>3. CASE OwnerOf[s] \notin Barred
  <2> DEFINE e == [name |-> "connection:ready", payload |-> Nothing]
  <2>a. PICK a : a = [screen[s] EXCEPT !.link = "up", !.rooms = RoomsFor(OwnerOf[s])]
    OBVIOUS
  <2>1. PICK new : new = [a EXCEPT !.inbox = Append(@, e)]
    OBVIOUS
  <2>2. Put(s, new)
    <3>1. new = [screen[s] EXCEPT !.link = "up", !.rooms = RoomsFor(OwnerOf[s]), !.inbox = Append(@, e)]
      BY <1>0, <2>a, <2>1 DEF Holds
    <3> QED
      BY <1>3, <3>1 DEF handleConnection
  <2>3. /\ Holds(a) /\ Stays(screen[s], a) /\ a.link = "up" /\ a.inbox = screen[s].inbox
        /\ a.rooms = RoomsFor(OwnerOf[s])
    BY <1>0, <2>a DEF Holds, Stays, LINKS
  <2>4. e \in Event /\ e.name = "connection:ready"
    BY DEF Event
  <2>5. /\ Holds(new) /\ Stays(a, new) /\ News(new, {"connection:ready"}) /\ new.link = a.link /\ new.rooms = a.rooms
    BY <2>1, <2>3, <2>4, SaidFacts
  <2>6. LineOK(s, new) /\ Carried(screen[s], new)
    BY <1>0, <1>1, <2>3, <2>5 DEF LineOK, Carried, Stays
  <2> QED
    BY <1>0, <1>1, <2>2, <2>5, <2>6, CarriedOne
<1> QED
  BY <1>2, <1>3

LEMMA LoseSocketCarries ==
  ASSUME Wired, NEW s \in scene.screens, LoseSocket(s), UNCHANGED scene
  PROVE  Wired' /\ \A t \in scene.screens : Carried(screen[t], screen'[t])
<1>0. Holds(screen[s]) /\ LineOK(s, screen[s]) /\ losses \in Nat
  BY WiredFacts
<1>1. losses' \in Nat
  BY <1>0 DEF LoseSocket
<1>2. CASE screen[s].link = "up" /\ Put(s, Dropped(screen[s]))
  <2>1. PICK new : new = Dropped(screen[s])
    OBVIOUS
  <2>2. /\ Holds(new) /\ Stays(screen[s], new) /\ new.link = "down"
        /\ new.rooms = {} /\ new.joining = {} /\ new.inbox = <<>>
    <3>1. <<>> \in Seq(Event)
      OBVIOUS
    <3> QED
      BY <1>0, <2>1, <3>1 DEF Dropped, Holds, Stays, LINKS
  <2>3. LineOK(s, new) /\ Carried(screen[s], new)
    BY <1>2, <2>2, EmptyLine DEF Carried
  <2> QED
    BY <1>1, <1>2, <2>1, <2>2, <2>3, CarriedOne
<1>3. CASE screen[s].link = "down" /\ Put(s, [screen[s] EXCEPT
             !.inbox = Append(@, [name |-> "connect_error", payload |-> Nothing])])
  <2> DEFINE e == [name |-> "connect_error", payload |-> Nothing]
  <2>a. PICK a : a = screen[s]
    OBVIOUS
  <2>1. PICK new : new = [a EXCEPT !.inbox = Append(@, e)]
    OBVIOUS
  <2>p. Put(s, new)
    BY <1>3, <2>a, <2>1
  <2>2. e \in Event /\ e.name = "connect_error"
    BY DEF Event
  <2>h. Holds(a)
    BY <1>0, <2>a
  <2>5. /\ Holds(new) /\ Stays(a, new) /\ News(new, {"connect_error"})
        /\ new.link = a.link /\ new.rooms = a.rooms /\ new.joining = a.joining
        /\ \A i \in DOMAIN new.inbox :
             new.inbox[i] = e \/ (i \in DOMAIN a.inbox /\ new.inbox[i] = a.inbox[i])
    BY SMTT(60), <2>1, <2>h, <2>2, SaidFacts
  <2> HIDE DEF e
  <2>4. LineOK(s, new)
    <3>1. \A i \in DOMAIN new.inbox : new.inbox[i].name # "connection:ready"
      BY <1>0, <1>3, <2>a, <2>2, <2>5 DEF LineOK
    <3> QED
      BY <1>0, <1>3, <2>a, <2>5, <3>1 DEF LineOK
  <2>6. Carried(screen[s], new)
    BY <1>3, <2>a, <2>5 DEF Carried
  <2> QED
    BY <1>1, <2>p, <2>5, <2>4, <2>6, CarriedOne
<1> QED
  BY <1>2, <1>3 DEF LoseSocket

LEMMA SocketStepCarries ==
  ASSUME Wired, SocketStep
  PROVE  Wired' /\ \A t \in scene.screens : Carried(screen[t], screen'[t])
BY ConnectionCarries, LoseSocketCarries DEF SocketStep

-----------------------------------------------------------------------------
(***************************************************************************)
(* The support desk keeps its invariant                                    *)
(***************************************************************************)

\* What was earned stays earned when more is said.
LEMMA EarnedGrows ==
  ASSUME NEW S, NEW said \in Seq(S), NEW m \in S, Earned(said)
  PROVE  Earned(Append(said, m))
<1>1. PICK n \in 0..Len(said) : GaveUp(SubSeq(said, 1, n))
  BY DEF Earned
<1>2. SubSeq(Append(said, m), 1, n) = SubSeq(said, 1, n)
  BY <1>1
<1>3. n \in 0..Len(Append(said, m))
  BY <1>1
<1> QED
  BY <1>1, <1>2, <1>3 DEF Earned

LEMMA CallCanStays ==
  ASSUME NEW x, CallCan(x), \A c \in Cases : (Knows(c) => Knows(c)') /\ (Opened(c) => Opened(c)'),
         NEW y, y.pc = x.pc, y.op = x.op, y.from = x.from, y.id = x.id, y.body = x.body,
         y.read = x.read, y.reply = x.reply
  PROVE  CallCan(y)'
<1>1. (Knows(x.id) => Knows(x.id)') /\ (Opened(x.id) => Opened(x.id)')
  BY DEF Knows, Opened
<1>2. (Knows(x.id) => Knows(y.id)') /\ (Opened(x.id) => Opened(y.id)')
  BY <1>1
<1> QED
  BY <1>2 DEF CallCan

\* A screen of the desk that a step leaves alone.
LEMMA DeskScreenStays ==
  ASSUME NEW s \in On(DeskScreens), NEW r, DeskScreenOK(s, r), scene' = scene,
         \A c \in Cases : (Knows(c) => Knows(c)') /\ (Opened(c) => Opened(c)'),
         DeskKind[s] = "widget" => seen'[s] = seen[s],
         (\A k \in scene.calls : deskCalls'[k].pc # "emit") =>
           (\A k \in scene.calls : deskCalls[k].pc # "emit") /\ listSessions' = listSessions
  PROVE  DeskScreenOK(s, r)'
<1>0. \A c : Opened(c) => Opened(c)'
  BY DEF Opened
<1>1. DeskKind[s] = "widget" => WidgetOK(s, r)'
  BY <1>0 DEF DeskScreenOK, WidgetOK, Noticed
<1>2. DeskKind[s] = "case" /\ r.link # "closed" => Knows(CaseOf[s])'
  BY DeskAssumption DEF DeskScreenOK, On
<1>3. DeskKind[s] = "queue" => QueueFollows(r)'
  BY DEF DeskScreenOK, QueueFollows, QueueShows
<1> QED
  BY <1>1, <1>2, <1>3 DEF DeskScreenOK

\* A step of one call, in the services: no screen has a part in it.
LEMMA DeskCall ==
  ASSUME Wired, DeskInv, UNCHANGED <<screen, scene, stored, seen>>, losses' \in Nat,
         NEW k \in scene.calls, NEW x, deskCalls' = [deskCalls EXCEPT ![k] = x],
         cases' = [c \in Cases |-> cases'[c]],
         \A c \in Cases : CaseOK(c)' /\ (Knows(c) => Knows(c)') /\ (Opened(c) => Opened(c)'),
         CallOK(x), x.pc # "idle", CallCan(x)', CallSeen(x),
         x.pc = "emit" \/ (deskCalls[k].pc # "emit" /\ listSessions' = listSessions)
  PROVE  Wired' /\ DeskInv' /\ screen' = screen
<1>0. \A c : Opened(c) => Opened(c)'
  BY DEF Opened
<1>1. Wired'
  BY DEF Wired
<1>2. deskCalls = [j \in scene.calls |-> deskCalls[j]]
  BY DEF DeskInv, DeskRows
<1>3. deskCalls' = [j \in scene.calls |-> deskCalls'[j]] /\ deskCalls'[k] = x
      /\ \A j \in scene.calls \ {k} : deskCalls'[j] = deskCalls[j]
  BY <1>2
<1>4. (\A j \in scene.calls : deskCalls'[j].pc # "emit") =>
           (\A j \in scene.calls : deskCalls[j].pc # "emit") /\ listSessions' = listSessions
  BY <1>3
<1>5. \A s \in On(DeskScreens) : DeskScreenOK(s, screen[s])'
  <2> TAKE s \in On(DeskScreens)
  <2>1. DeskScreenOK(s, screen[s])
    BY DEF DeskInv
  <2>2. PICK r : r = screen[s]
    OBVIOUS
  <2>3. DeskScreenOK(s, r)'
    BY <1>4, <2>1, <2>2, DeskScreenStays
  <2> QED
    BY <2>2, <2>3
<1>6. \A j \in scene.calls : CallOK(deskCalls[j])' /\ (deskCalls'[j].pc # "idle" => CallDoes(deskCalls[j])')
  <2> TAKE j \in scene.calls
  <2>1. CASE j = k
    <3>1. CallOK(x)' /\ CallSeen(x)'
      BY <1>0 DEF CallOK, CallSeen, On
    <3> QED
      BY <1>3, <2>1, <3>1 DEF CallDoes
  <2>2. CASE j # k
    <3>1. PICK y : y = deskCalls[j]
      OBVIOUS
    <3>2. CallOK(y) /\ (y.pc # "idle" => CallCan(y) /\ CallSeen(y))
      BY <3>1 DEF DeskInv, DeskRows, CallDoes
    <3>3. CallOK(y)' /\ (y.pc # "idle" => CallSeen(y)')
      BY <1>0, <3>2 DEF CallOK, CallSeen, On
    <3>4. y.pc # "idle" => CallCan(y)'
      BY <3>2, CallCanStays
    <3> QED
      BY <1>3, <2>2, <3>1, <3>3, <3>4 DEF CallDoes
  <2> QED
    BY <2>1, <2>2
<1>7. DeskRows'
  BY <1>0, <1>3, <1>6 DEF DeskInv, DeskRows, On
<1> QED
  BY <1>1, <1>5, <1>7 DEF DeskInv, On

\* A case is written: what was earned on it stays earned.
LEMMA CaseWritten ==
  ASSUME DeskInv, NEW c \in Cases, NEW new, cases' = [cases EXCEPT ![c] = new], CaseRow(new),
         Earned(cases[c].messages) => Earned(new.messages),
         new.status # "NONE", new.userId # Nothing,
         new.status \in {"ESCALATED", "RESOLVED"} => Earned(new.messages)
  PROVE  /\ cases' = [d \in Cases |-> cases'[d]]
         /\ \A d \in Cases : CaseOK(d)' /\ (Knows(d) => Knows(d)') /\ (Opened(d) => Opened(d)')
         /\ (new.status # "ESCALATED" /\ cases[c].status # "ESCALATED") \/
            (new.status = cases[c].status /\ new.assigned = cases[c].assigned) =>
              listSessions' = listSessions
<1>1. cases = [d \in Cases |-> cases[d]] /\ \A d \in Cases : CaseOK(d)
  BY DEF DeskInv, DeskRows
<1>2. /\ cases' = [d \in Cases |-> cases'[d]] /\ cases'[c] = new
      /\ \A d \in Cases \ {c} : cases'[d] = cases[d]
  BY <1>1
<1>3. \A d \in Cases : CaseOK(d)'
  <2> TAKE d \in Cases
  <2>1. CASE d = c
    BY <1>2, <2>1 DEF CaseOK
  <2>2. CASE d # c
    BY <1>1, <1>2, <2>2 DEF CaseOK
  <2> QED
    BY <2>1, <2>2
<1>4. \A d \in Cases : (Knows(d) => Knows(d)') /\ (Opened(d) => Opened(d)')
  BY <1>2 DEF Knows, Opened
<1>5. ASSUME (new.status # "ESCALATED" /\ cases[c].status # "ESCALATED") \/
            (new.status = cases[c].status /\ new.assigned = cases[c].assigned)
      PROVE  listSessions' = listSessions
  <2>1. {d \in Cases : cases'[d].status = "ESCALATED"} = {d \in Cases : cases[d].status = "ESCALATED"}
    BY <1>2, <1>5
  <2>2. \A d \in {e \in Cases : cases[e].status = "ESCALATED"} : cases'[d].assigned = cases[d].assigned
    BY <1>2, <1>5
  <2> QED
    BY <2>1, <2>2 DEF listSessions
<1> QED
  BY <1>2, <1>3, <1>4, <1>5

LEMMA CasesStay ==
  ASSUME DeskInv, cases' = cases
  PROVE  /\ cases' = [c \in Cases |-> cases'[c]]
         /\ \A c \in Cases : CaseOK(c)' /\ (Knows(c) => Knows(c)') /\ (Opened(c) => Opened(c)')
         /\ listSessions' = listSessions
BY DEF DeskInv, DeskRows, CaseOK, Knows, Opened, listSessions

LEMMA CallRow ==
  ASSUME DeskInv, NEW k \in scene.calls
  PROVE  /\ CallOK(deskCalls[k]) /\ (deskCalls[k].pc # "idle" => CallCan(deskCalls[k]) /\ CallSeen(deskCalls[k]))
         /\ deskCalls = [j \in scene.calls |-> deskCalls[j]]
         /\ \A c \in Cases : CaseOK(c)
BY DEF DeskInv, DeskRows, CallDoes

LEMMA LoadCaseKeeps ==
  ASSUME Wired, DeskInv, NEW k \in scene.calls, LoadCase(k), UNCHANGED scene
  PROVE  Wired' /\ DeskInv' /\ screen' = screen
<1> DEFINE call == deskCalls[k]
           member == OwnerOf[call.from]
           fresh == {c \in Cases : cases[c].status = "NONE"}
<1>0. CallOK(call) /\ CallCan(call) /\ CallSeen(call) /\ call.pc = "load" /\ losses \in Nat
  BY CallRow DEF LoadCase, Wired
<1>1. UNCHANGED <<screen, losses, stored, seen>>
  BY DEF LoadCase, channelVars
<1>2. CASE \E pc \in {"think", "say", "refused"} :
             /\ Step(k, pc) /\ UNCHANGED cases /\ call.op = "ask"
             /\ member = Nothing => pc = "think"
             /\ member # Nothing => call.id # Nothing /\ pc # "think" /\ (pc = "say" => cases[call.id].status # "NONE")
  <2>1. PICK pc \in {"think", "say", "refused"} :
             /\ Step(k, pc) /\ UNCHANGED cases /\ call.op = "ask"
             /\ member = Nothing => pc = "think"
             /\ member # Nothing => call.id # Nothing /\ pc # "think" /\ (pc = "say" => cases[call.id].status # "NONE")
    BY <1>2
  <2>2. PICK x : x = [call EXCEPT !.pc = pc]
    OBVIOUS
  <2>3. deskCalls' = [deskCalls EXCEPT ![k] = x]
    BY <2>1, <2>2, CallRow DEF Step
  <2>4. CallOK(x) /\ CallCan(x) /\ CallSeen(x) /\ x.pc = pc
    <3>1. member # Nothing /\ pc = "say" => Opened(call.id)
      BY <1>0, <2>1 DEF CallOK, Opened
    <3> QED
      BY <1>0, <2>1, <2>2, <3>1 DEF CallOK, CallCan, CallSeen
  <2>5. CallCan(x)'
    BY <2>1, <2>4, CasesStay, CallCanStays
  <2> QED
    BY <1>0, <1>1, <2>1, <2>3, <2>4, <2>5, CasesStay, DeskCall
<1>3. CASE /\ call.op = "ask" /\ member # Nothing /\ fresh # {}
           /\ LET c == CHOOSE d \in fresh : TRUE
              IN  /\ cases' = [cases EXCEPT ![c] = [NoCase EXCEPT !.status = "AI_ONLY", !.userId = member]]
                  /\ deskCalls' = [deskCalls EXCEPT ![k].pc = "say", ![k].id = c]
  <2>1. PICK c \in fresh :
           /\ cases' = [cases EXCEPT ![c] = [NoCase EXCEPT !.status = "AI_ONLY", !.userId = member]]
           /\ deskCalls' = [deskCalls EXCEPT ![k].pc = "say", ![k].id = c]
    BY <1>3
  <2>2. PICK new : new = [NoCase EXCEPT !.status = "AI_ONLY", !.userId = member]
    OBVIOUS
  <2>3. CaseRow(new) /\ new.status = "AI_ONLY" /\ new.userId = member /\ new.messages = <<>>
    <3>1. <<>> \in Seq(Message)
      OBVIOUS
    <3> QED
      BY <2>2, <3>1 DEF NoCase, CaseRow, STATUSES
  <2>4. c \in Cases /\ cases[c].status = "NONE" /\ cases[c].messages = <<>>
    BY CallRow DEF CaseOK
  <2>5. /\ cases' = [d \in Cases |-> cases'[d]]
        /\ \A d \in Cases : CaseOK(d)' /\ (Knows(d) => Knows(d)') /\ (Opened(d) => Opened(d)')
        /\ listSessions' = listSessions
    BY <1>3, <2>1, <2>2, <2>3, <2>4, CaseWritten
  <2>6. PICK x : x = [call EXCEPT !.pc = "say", !.id = c]
    OBVIOUS
  <2>7. deskCalls' = [deskCalls EXCEPT ![k] = x]
    BY <2>1, <2>6, CallRow
  <2>8. CallOK(x) /\ CallSeen(x) /\ x.pc = "say" /\ x.id = c /\ x.op = "ask" /\ x.from = call.from
        /\ x.body = call.body
    BY <1>0, <1>3, <2>4, <2>6 DEF CallOK, CallSeen
  <2>9. CallCan(x)'
    <3>1. cases'[c] = new
      BY <2>1, <2>2, <2>4, CallRow DEF DeskInv, DeskRows
    <3>2. Opened(c)'
      BY <2>3, <2>4, <3>1 DEF Opened
    <3>3. DeskKind[call.from] = "widget" /\ call.body \in BODIES
      BY <1>0, <1>3 DEF CallCan
    <3> QED
      BY <1>3, <2>8, <3>2, <3>3 DEF CallCan
  <2> QED
    BY <1>0, <1>1, <2>5, <2>7, <2>8, <2>9, DeskCall
<1>4. CASE /\ call.op # "ask"
           /\ deskCalls' = [deskCalls EXCEPT
                     ![k].read = [status |-> cases[call.id].status, assigned |-> cases[call.id].assigned],
                     ![k].pc = IF call.op # "escalate" THEN "write"
                               ELSE IF cases[call.id].status = "AI_ONLY" THEN "check" ELSE "answer"]
           /\ UNCHANGED cases
  <2>1. PICK read : read = [status |-> cases[call.id].status, assigned |-> cases[call.id].assigned]
    OBVIOUS
  <2>2. PICK pc : pc = IF call.op # "escalate" THEN "write"
                       ELSE IF cases[call.id].status = "AI_ONLY" THEN "check" ELSE "answer"
    OBVIOUS
  <2>3. PICK x : x = [call EXCEPT !.read = read, !.pc = pc]
    OBVIOUS
  <2>4. deskCalls' = [deskCalls EXCEPT ![k] = x]
    BY <1>4, <2>1, <2>2, <2>3, CallRow
  <2>5. call.id \in Cases /\ CaseOK(call.id)
    BY <1>0, <1>4, CallRow DEF CallOK, CallCan, DESK_OPS, Knows, Opened
  <2>6. read.status = cases[call.id].status /\ read.status \in STATUSES
    BY <2>1, <2>5 DEF CaseOK, CaseRow
  <2>7. read.status = "RESOLVED" => Knows(call.id)
    BY <2>5, <2>6 DEF CaseOK, Knows, Opened
  <2>8. /\ CallOK(x) /\ x.pc = pc /\ x.read = read /\ x.op = call.op /\ x.id = call.id
        /\ x.from = call.from /\ x.body = call.body
    BY <1>0, <2>2, <2>3 DEF CallOK
  <2>9. CallCan(x)
    BY <1>0, <1>4, <2>2, <2>6, <2>7, <2>8 DEF CallCan
  <2>10. CallCan(x)' /\ CallSeen(x)
    BY <1>0, <1>4, <2>8, <2>9, CasesStay, CallCanStays DEF CallSeen
  <2>11. x.pc # "idle" /\ x.pc # "emit"
    BY <2>2, <2>8
  <2> QED
    BY <1>0, <1>1, <1>4, <2>4, <2>8, <2>10, <2>11, CasesStay, DeskCall
<1> QED
  <2>1. CASE call.op = "ask" /\ member = Nothing
    BY <1>2, <2>1 DEF LoadCase
  <2>2. CASE call.op = "ask" /\ member # Nothing /\ call.id = Nothing
    BY <1>3, <2>2 DEF LoadCase
  <2>3. CASE call.op = "ask" /\ member # Nothing /\ call.id # Nothing
    <3>1. Step(k, IF cases[call.id].status = "AI_ONLY" THEN "say" ELSE "refused") /\ UNCHANGED cases
      BY <2>3 DEF LoadCase
    <3> QED
      BY <1>2, <2>3, <3>1
  <2>4. CASE call.op # "ask"
    BY <1>4, <2>4 DEF LoadCase
  <2> QED
    BY <2>1, <2>2, <2>3, <2>4

\* A message is put behind a case's others.
LEMMA SaidOnCase ==
  ASSUME DeskInv, NEW c \in Cases, NEW m \in Message, cases[c].status # "NONE",
         cases' = [cases EXCEPT ![c].messages = Append(cases[c].messages, m)]
  PROVE  /\ cases' = [d \in Cases |-> cases'[d]]
         /\ \A d \in Cases : CaseOK(d)' /\ (Knows(d) => Knows(d)') /\ (Opened(d) => Opened(d)')
         /\ listSessions' = listSessions
<1> DEFINE said == cases[c].messages
           new == [cases[c] EXCEPT !.messages = Append(said, m)]
<1>1. CaseOK(c) /\ CaseRow(cases[c]) /\ said \in Seq(Message)
  BY DEF DeskInv, DeskRows, CaseOK, CaseRow
<1>2. Append(said, m) \in Seq(Message)
  BY <1>1
<1>3. /\ CaseRow(new) /\ new.messages = Append(said, m) /\ new.status = cases[c].status
      /\ new.userId = cases[c].userId /\ new.assigned = cases[c].assigned
  BY <1>1, <1>2 DEF CaseRow
<1>4. cases' = [cases EXCEPT ![c] = new]
  BY DEF DeskInv, DeskRows
<1>5. Earned(said) => Earned(Append(said, m))
  BY <1>1, EarnedGrows
<1> HIDE DEF new
<1> QED
  BY <1>1, <1>3, <1>4, <1>5, CaseWritten DEF CaseOK

LEMMA BodiesFacts ==
  ASSUME NEW words \in Seq(Message), NEW role
  PROVE  LET said == BodiesOf(words, role)
         IN  IsList(said)
<1> DEFINE said == {i \in DOMAIN words : words[i].role = role}
           b == BodiesOf(words, role)
<1>1. Cardinality(said) \in Nat
  <2>1. IsFiniteSet(DOMAIN words)
    BY FS_Interval
  <2>2. IsFiniteSet(said)
    BY <2>1, FS_Subset
  <2> QED
    BY <2>2, FS_CardinalityType
<1>2. b = [n \in 1..Cardinality(said) |-> b[n]]
  BY DEF BodiesOf
<1> HIDE DEF b, said
<1>3. IsList(b)
  BY <1>1, <1>2, SeqIntro
<1> QED
  BY <1>3 DEF b

LEMMA SubSeqFacts ==
  ASSUME NEW S, NEW x, NEW m \in Int, NEW n \in Int, \A i \in m .. n : x[i] \in S
  PROVE  LET y == SubSeq(x, m, n)
         IN  /\ Len(y) = (IF m <= n THEN n - m + 1 ELSE 0) /\ DOMAIN y = 1..Len(y)
             /\ \A i \in 1 .. n - m + 1 : y[i] = x[m + i - 1]
<1> DEFINE y == SubSeq(x, m, n)
<1>1. /\ y \in Seq(S) /\ Len(y) = (IF m <= n THEN n - m + 1 ELSE 0)
      /\ \A i \in 1 .. n - m + 1 : y[i] = x[m + i - 1]
  BY SubSeqProperties
<1> HIDE DEF y
<1>2. DOMAIN y = 1..Len(y)
  BY <1>1
<1> QED
  BY <1>1, <1>2 DEF y

\* Where the heuristic says so, the assistant has given up.
LEMMA FailedHasGivenUp ==
  ASSUME NEW words \in Seq(Message), isSessionEscalated(words)
  PROVE  Earned(words)
<1> DEFINE said == BodiesOf(words, "ASSISTANT")
           asked == BodiesOf(words, "USER")
<1>1. IsList(said)
  BY BodiesFacts
<1>2. \/ said # <<>> /\ Last(said) = "exhausted"
      \/ isEscalated(LastOf(said, 3))
      \/ asked # <<>> /\ Last(asked) = "wants"
  BY DEF isSessionEscalated, ESCALATION_THRESHOLD, isExplicitEscalationRequest
<1>3. ASSUME isEscalated(LastOf(said, 3))
      PROVE  Len(said) >= 3 /\ \A i \in 0..2 : said[Len(said) - i] = "fallback"
  <2>x. PICK x : x = said
    OBVIOUS
  <2>n. PICK n : n = Len(x)
    OBVIOUS
  <2>f. PICK from : from = IF n > 3 THEN n - 3 + 1 ELSE 1
    OBVIOUS
  <2>t. PICK tail : tail = SubSeq(x, from, n)
    OBVIOUS
  <2> HIDE DEF said
  <2>1. IsList(x) /\ n \in Nat /\ n = Len(x)
    BY <1>1, <2>x, <2>n, SeqFacts
  <2>2. from \in Nat /\ from >= 1 /\ (n >= 3 => from = n - 2) /\ (n < 3 => from = 1)
    BY <2>1, <2>f
  <2>3. /\ Len(tail) = IF from <= n THEN n - from + 1 ELSE 0
        /\ DOMAIN tail = 1..Len(tail)
        /\ \A i \in 1 .. n - from + 1 : tail[i] = x[from + i - 1]
    <3>1. PICK S : x \in Seq(S)
      BY <2>1 DEF IsList
    <3>2. \A i \in from .. n : x[i] \in S
      BY <2>1, <2>2, <3>1
    <3>3. from \in Int /\ n \in Int
      BY <2>1, <2>2
    <3> QED
      BY <3>2, <3>3, <2>t, SubSeqFacts
  <2>4. Len(tail) = 3 /\ \A i \in DOMAIN tail : tail[i] = "fallback"
    BY <1>3, <2>x, <2>n, <2>f, <2>t DEF isEscalated, LastOf, ESCALATION_THRESHOLD
  <2>5. n >= 3 /\ from = n - 2
    <3>1. n < 3 => Len(tail) # 3
      BY <2>1, <2>2, <2>3
    <3> QED
      BY <2>1, <2>2, <2>4, <3>1
  <2>6. \A i \in 1..3 : x[n - 2 + i - 1] = "fallback"
    <3>1. DOMAIN tail = 1..3 /\ n - from + 1 = 3
      BY <2>1, <2>3, <2>4, <2>5
    <3>2. \A i \in 1..3 : tail[i] = "fallback" /\ tail[i] = x[from + i - 1]
      BY <2>3, <2>4, <3>1
    <3> QED
      BY <2>5, <3>2
  <2>7. x[n] = "fallback" /\ x[n - 1] = "fallback" /\ x[n - 2] = "fallback"
    <3>1. n - 2 + 1 - 1 = n - 2 /\ n - 2 + 2 - 1 = n - 1 /\ n - 2 + 3 - 1 = n
      BY <2>1
    <3>2. x[n - 2 + 1 - 1] = "fallback" /\ x[n - 2 + 2 - 1] = "fallback" /\ x[n - 2 + 3 - 1] = "fallback"
      BY <2>6
    <3> QED
      BY <3>1, <3>2
  <2>8. \A i \in 0..2 : x[n - i] = "fallback"
    <3> TAKE i \in 0..2
    <3>1. i = 0 \/ i = 1 \/ i = 2
      OBVIOUS
    <3>2. n - 0 = n
      BY <2>1
    <3> QED
      BY <2>7, <3>1, <3>2
  <2> QED
    BY <2>x, <2>n, <2>5, <2>8
<1>4. GaveUp(words)
  BY <1>2, <1>3 DEF GaveUp
<1>5. Len(words) \in 0..Len(words) /\ SubSeq(words, 1, Len(words)) = words
  OBVIOUS
<1> QED
  BY <1>4, <1>5 DEF Earned

LEMMA ThinkStepKeeps ==
  ASSUME Wired, DeskInv, NEW k \in scene.calls, UNCHANGED scene,
         SaveQuestion(k) \/ ReplyFails(k) \/ Verdict(k)
  PROVE  Wired' /\ DeskInv' /\ screen' = screen
<1> DEFINE call == deskCalls[k]
<1>0. CallOK(call) /\ (call.pc # "idle" => CallCan(call) /\ CallSeen(call)) /\ losses \in Nat
  BY CallRow DEF Wired
<1>1. CASE SaveQuestion(k)
  <2>0. call.pc = "say" /\ call.op = "ask" /\ Opened(call.id) /\ call.body \in BODIES
    BY <1>0, <1>1 DEF SaveQuestion, CallCan, CallOK, DESK_OPS
  <2>1. PICK m : m = [role |-> "USER", body |-> call.body]
    OBVIOUS
  <2>2. m \in Message
    BY <2>0, <2>1 DEF Message
  <2>3. cases' = [cases EXCEPT ![call.id].messages = Append(cases[call.id].messages, m)]
    BY <1>1, <2>1 DEF SaveQuestion, Say
  <2>4. /\ cases' = [d \in Cases |-> cases'[d]]
        /\ \A d \in Cases : CaseOK(d)' /\ (Knows(d) => Knows(d)') /\ (Opened(d) => Opened(d)')
        /\ listSessions' = listSessions
    BY <2>0, <2>2, <2>3, SaidOnCase DEF Opened
  <2>5. PICK pc \in {"contact", "think"} : Step(k, pc)
    BY <1>1 DEF SaveQuestion
  <2>6. PICK x : x = [call EXCEPT !.pc = pc]
    OBVIOUS
  <2>7. deskCalls' = [deskCalls EXCEPT ![k] = x]
    BY <2>5, <2>6, CallRow DEF Step
  <2>8. CallOK(x) /\ CallCan(x) /\ CallSeen(x) /\ x.pc = pc
    BY <1>0, <2>0, <2>5, <2>6 DEF CallOK, CallCan, CallSeen
  <2>9. CallCan(x)'
    BY <2>4, <2>8, CallCanStays
  <2>10. UNCHANGED <<screen, losses, stored, seen>>
    BY <1>1 DEF SaveQuestion, channelVars
  <2> QED
    BY <1>0, <2>0, <2>4, <2>5, <2>7, <2>8, <2>9, <2>10, DeskCall
<1>2. CASE ReplyFails(k)
  <2>0. call.pc = "think" /\ call.op = "ask" /\ Step(k, "refused") /\ UNCHANGED <<cases, stored, seen, screen>>
        /\ losses' \in Nat
    BY <1>0, <1>2 DEF ReplyFails, CallCan, CallOK
  <2>6. PICK x : x = [call EXCEPT !.pc = "refused"]
    OBVIOUS
  <2>7. deskCalls' = [deskCalls EXCEPT ![k] = x]
    BY <2>0, <2>6, CallRow DEF Step
  <2>8. CallOK(x) /\ CallCan(x) /\ CallSeen(x) /\ x.pc = "refused"
    BY <1>0, <2>0, <2>6 DEF CallOK, CallCan, CallSeen
  <2>9. CallCan(x)'
    BY <2>0, <2>8, CasesStay, CallCanStays
  <2> QED
    BY <2>0, <2>7, <2>8, <2>9, CasesStay, DeskCall
<1>3. CASE Verdict(k)
  <2> DEFINE failed == isSessionEscalated(cases[call.id].messages)
  <2>1. UNCHANGED <<cases, screen, losses, stored, seen>>
    BY <1>3 DEF Verdict, channelVars
  <2>2. CASE call.pc = "verdict" /\ deskCalls' = [deskCalls EXCEPT ![k].pc = "answer", ![k].escalated = failed]
    <3>1. failed \in BOOLEAN
      BY DEF isSessionEscalated
    <3> HIDE DEF failed
    <3>6. PICK x : x = [call EXCEPT !.pc = "answer", !.escalated = failed]
      OBVIOUS
    <3>7. deskCalls' = [deskCalls EXCEPT ![k] = x]
      BY <2>2, <3>6, CallRow
    <3>8. CallOK(x) /\ CallCan(x) /\ CallSeen(x) /\ x.pc = "answer"
      BY <1>0, <2>2, <3>1, <3>6 DEF CallOK, CallCan, CallSeen
    <3>9. CallCan(x)'
      BY <2>1, <3>8, CasesStay, CallCanStays
    <3> QED
      BY <1>0, <2>1, <2>2, <3>7, <3>8, <3>9, CasesStay, DeskCall
  <2>3. CASE call.pc = "check" /\ Step(k, IF failed THEN "write" ELSE "refused")
    <3>1. PICK pc : pc = IF failed THEN "write" ELSE "refused"
      OBVIOUS
    <3>2. call.op \in DESK_OPS \ {"ask"}
      BY <1>0, <2>3 DEF CallOK, CallCan
    <3>6. PICK x : x = [call EXCEPT !.pc = pc]
      OBVIOUS
    <3>7. deskCalls' = [deskCalls EXCEPT ![k] = x]
      BY <2>3, <3>1, <3>6, CallRow DEF Step
    <3>3. failed => Knows(call.id)
      <4>1. call.op = "escalate" /\ Opened(call.id)
        BY <1>0, <2>3 DEF CallCan
      <4>2. cases[call.id].messages \in Seq(Message)
        BY <4>1, CallRow DEF Opened, CaseOK, CaseRow
      <4> QED
        BY <4>1, <4>2, FailedHasGivenUp DEF Knows
    <3> HIDE DEF failed
    <3>8. CallOK(x) /\ x.pc = pc /\ x.op = call.op /\ x.id = call.id /\ x.read = call.read
          /\ x.from = call.from /\ x.body = call.body /\ CallSeen(x) /\ pc \in {"write", "refused"}
      BY <1>0, <2>3, <3>1, <3>6 DEF CallOK, CallSeen
    <3>4. CallCan(x)
      BY <1>0, <2>3, <3>1, <3>2, <3>3, <3>8 DEF CallCan
    <3>9. CallCan(x)'
      BY <2>1, <3>4, CasesStay, CallCanStays
    <3> QED
      BY <1>0, <2>1, <2>3, <3>7, <3>8, <3>9, CasesStay, DeskCall
  <2> QED
    BY <1>3, <2>2, <2>3 DEF Verdict
<1> QED
  BY <1>1, <1>2, <1>3

LEMMA ReplyKeeps ==
  ASSUME Wired, DeskInv, NEW k \in scene.calls, Reply(k), UNCHANGED scene
  PROVE  Wired' /\ DeskInv' /\ screen' = screen
<1> DEFINE call == deskCalls[k]
           contact == call.pc = "contact" \/ (call.pc = "think" /\ OwnerOf[call.from] = Nothing
                                              /\ isExplicitEscalationRequest(call.body))
           guest == OwnerOf[call.from] = Nothing
<1>0. CallOK(call) /\ CallCan(call) /\ CallSeen(call) /\ call.pc \in {"contact", "think"} /\ losses \in Nat
  BY CallRow DEF Reply, Wired
<1>1. call.op = "ask" /\ DeskKind[call.from] = "widget" /\ call.body \in BODIES
      /\ UNCHANGED <<screen, losses, stored, seen>>
  BY <1>0 DEF CallOK, CallCan, Reply, channelVars
<1>2. PICK body \in IF contact THEN {"contact"} ELSE Replies :
           IF guest
           THEN /\ deskCalls' = [deskCalls EXCEPT ![k].pc = "answer",
                     ![k].reply = [role |-> "ASSISTANT", body |-> body, id |-> <<"guest", k>>],
                     ![k].escalated = contact \/ body = "exhausted"
                                      \/ isEscalated(Append(call.earlier, body))]
                /\ UNCHANGED cases
           ELSE /\ CanSay(call.id)
                /\ cases' = [cases EXCEPT ![call.id].messages = Say(call.id, "ASSISTANT", body)]
                /\ deskCalls' = [deskCalls EXCEPT
                     ![k].pc = IF contact THEN "answer" ELSE "verdict",
                     ![k].escalated = contact,
                     ![k].reply = [role |-> "ASSISTANT", body |-> body,
                                   id |-> <<call.id, Len(cases[call.id].messages) + 1>>]]
  BY DEF Reply
<1>3. body \in BODIES
  BY DEF BODIES
<1>4. CASE guest
  <2>1. PICK reply : reply = [role |-> "ASSISTANT", body |-> body, id |-> <<"guest", k>>]
    OBVIOUS
  <2>2. reply \in Utterance /\ reply.role = "ASSISTANT"
    <3>1. k \in DeskCalls
      BY RealtimeScenes DEF Wired
    <3> QED
      BY <1>3, <2>1, <3>1 DEF Utterance, EntryId
  <2>3. PICK e : e = (contact \/ body = "exhausted" \/ isEscalated(Append(call.earlier, body)))
    OBVIOUS
  <2>4. e \in BOOLEAN
    BY <2>3 DEF isEscalated
  <2>5. deskCalls' = [deskCalls EXCEPT ![k].pc = "answer", ![k].reply = reply, ![k].escalated = e] /\ cases' = cases
    BY <1>2, <1>4, <2>1, <2>3
  <2> HIDE DEF contact
  <2>6. PICK x : x = [call EXCEPT !.pc = "answer", !.reply = reply, !.escalated = e]
    OBVIOUS
  <2>7. deskCalls' = [deskCalls EXCEPT ![k] = x]
    BY <2>5, <2>6, CallRow
  <2>8. CallOK(x) /\ CallCan(x) /\ CallSeen(x) /\ x.pc = "answer"
    BY <1>0, <1>1, <1>4, <2>2, <2>4, <2>6 DEF CallOK, CallCan, CallSeen
  <2>9. CallCan(x)'
    BY <2>5, <2>8, CasesStay, CallCanStays
  <2> QED
    BY <1>0, <1>1, <2>5, <2>7, <2>8, <2>9, CasesStay, DeskCall
<1>5. CASE ~guest
  <2>0. Opened(call.id) /\ call.id \in Cases /\ cases[call.id].status # "NONE"
    BY <1>0, <1>1, <1>5 DEF CallCan, Opened
  <2>1. PICK m : m = [role |-> "ASSISTANT", body |-> body]
    OBVIOUS
  <2>2. m \in Message
    BY <1>3, <2>1 DEF Message
  <2>3. cases' = [cases EXCEPT ![call.id].messages = Append(cases[call.id].messages, m)]
    BY <1>2, <1>5, <2>1 DEF Say
  <2>4. /\ cases' = [d \in Cases |-> cases'[d]]
        /\ \A d \in Cases : CaseOK(d)' /\ (Knows(d) => Knows(d)') /\ (Opened(d) => Opened(d)')
        /\ listSessions' = listSessions
    BY <2>0, <2>2, <2>3, SaidOnCase
  <2>5. PICK reply : reply = [role |-> "ASSISTANT", body |-> body,
                              id |-> <<call.id, Len(cases[call.id].messages) + 1>>]
    OBVIOUS
  <2>6. reply \in Utterance /\ reply.role = "ASSISTANT"
    <3>1. cases[call.id].messages \in Seq(Message)
      BY <2>0, CallRow DEF CaseOK, CaseRow
    <3>2. Len(cases[call.id].messages) + 1 \in Nat
      BY <3>1
    <3> QED
      BY <1>3, <2>0, <2>5, <3>2 DEF Utterance, EntryId
  <2>7. PICK pc : pc = IF contact THEN "answer" ELSE "verdict"
    OBVIOUS
  <2>8. PICK e : e = contact
    OBVIOUS
  <2>9. e \in BOOLEAN /\ pc \in {"answer", "verdict"}
    BY <2>7, <2>8
  <2>10. deskCalls' = [deskCalls EXCEPT ![k].pc = pc, ![k].escalated = e, ![k].reply = reply]
    BY <1>2, <1>5, <2>5, <2>7, <2>8
  <2> HIDE DEF contact
  <2>11. PICK x : x = [call EXCEPT !.pc = pc, !.escalated = e, !.reply = reply]
    OBVIOUS
  <2>12. deskCalls' = [deskCalls EXCEPT ![k] = x]
    BY <2>10, <2>11, CallRow
  <2>13. CallOK(x) /\ CallCan(x) /\ CallSeen(x) /\ x.pc = pc
    BY <1>0, <1>1, <1>5, <2>0, <2>6, <2>9, <2>11 DEF CallOK, CallCan, CallSeen
  <2>14. CallCan(x)'
    BY <2>4, <2>13, CallCanStays
  <2> QED
    BY <1>0, <1>1, <2>4, <2>9, <2>12, <2>13, <2>14, DeskCall
<1> QED
  BY <1>4, <1>5

\* The write of each method that hands over, speaks, claims or closes.
LEMMA WrittenFacts ==
  ASSUME NEW call, NEW row, CaseRow(row),
         call.op \in {"escalate", "tell", "claim", "reply", "resolve"}
  PROVE  LET new == Written(call, row)
         IN  /\ CaseRow(new) /\ new.messages = row.messages /\ new.userId = row.userId
             /\ call.op = "claim" \/ (call.op = "tell" /\ call.read.status # "RESOLVED") =>
                  new.status = row.status
             /\ new.status = row.status \/ new.status \in {"ESCALATED", "RESOLVED"}
<1>1. CASE call.op = "escalate"
  BY <1>1 DEF Written, CaseRow, STATUSES
<1>2. CASE call.op = "tell"
  BY <1>2 DEF Written, CaseRow, STATUSES
<1>3. CASE call.op = "claim"
  BY <1>3 DEF Written, CaseRow, STATUSES
<1>4. CASE call.op = "reply"
  BY <1>4 DEF Written, CaseRow, STATUSES
<1>5. CASE call.op = "resolve"
  BY <1>5 DEF Written, CaseRow, STATUSES
<1> QED
  BY <1>1, <1>2, <1>3, <1>4, <1>5

LEMMA WriteCaseKeeps ==
  ASSUME Wired, DeskInv, NEW k \in scene.calls, WriteCase(k), UNCHANGED scene
  PROVE  Wired' /\ DeskInv' /\ screen' = screen
<1> DEFINE call == deskCalls[k]
           row == cases[call.id]
           said == row.messages
           new == Written(call, row)
           m == [role |-> RoleOf(call.op), body |-> call.body]
           fin == IF Speaks(call.op) THEN [new EXCEPT !.messages = Append(said, m)] ELSE new
           read == [status |-> new.status, assigned |-> new.assigned]
           reply == IF Speaks(call.op)
                    THEN [role |-> RoleOf(call.op), body |-> call.body, id |-> <<call.id, Len(said) + 1>>]
                    ELSE Nothing
<1>0. CallOK(call) /\ CallCan(call) /\ CallSeen(call) /\ call.pc = "write" /\ losses \in Nat
  BY CallRow DEF WriteCase, Wired
<1>1. /\ call.op \in {"escalate", "tell", "claim", "reply", "resolve"} /\ Opened(call.id)
      /\ call.op \in {"escalate", "claim", "reply", "resolve"} => Knows(call.id)
      /\ call.op = "tell" /\ call.read.status = "RESOLVED" => Knows(call.id)
      /\ Speaks(call.op) => call.body \in BODIES
  BY <1>0 DEF CallOK, CallCan, DESK_OPS, Knows, Speaks
<1>2. call.id \in Cases /\ CaseOK(call.id) /\ CaseRow(row) /\ said \in Seq(Message) /\ row.status # "NONE"
      /\ row.userId # Nothing
  BY <1>1, CallRow DEF Opened, CaseOK, CaseRow
<1>3. /\ CaseRow(new) /\ new.messages = said /\ new.userId = row.userId
      /\ call.op = "claim" \/ (call.op = "tell" /\ call.read.status # "RESOLVED") => new.status = row.status
      /\ new.status = row.status \/ new.status \in {"ESCALATED", "RESOLVED"}
  BY <1>1, <1>2, WrittenFacts
<1>4. new.status # "NONE" /\ new.status \in STATUSES /\ new.userId # Nothing
  BY <1>2, <1>3 DEF CaseRow
<1>5. new.status \in {"ESCALATED", "RESOLVED"} => Earned(said)
  BY <1>1, <1>2, <1>3 DEF CaseOK, Knows
<1> HIDE DEF new
<1>6. /\ CaseRow(fin) /\ fin.status = new.status /\ fin.userId = new.userId
      /\ fin.messages = said \/ \E w \in Message : fin.messages = Append(said, w)
  <2>1. CASE Speaks(call.op)
    <3>1. m \in Message
      BY <1>1, <2>1 DEF Message, RoleOf
    <3> HIDE DEF m
    <3>2. Append(said, m) \in Seq(Message)
      BY <1>2, <3>1
    <3> QED
      BY <1>3, <2>1, <3>1, <3>2 DEF CaseRow
  <2>2. CASE ~Speaks(call.op)
    BY <1>3, <2>2
  <2> QED
    BY <2>1, <2>2
<1>7. cases' = [cases EXCEPT ![call.id] = fin]
  BY DEF WriteCase, new, Say
<1>8. deskCalls' = [deskCalls EXCEPT ![k].pc = "emit", ![k].read = read, ![k].reply = reply]
  BY DEF WriteCase, new
<1>r. Speaks(call.op) => reply \in Words
  <2>1. Len(said) + 1 \in Nat
    BY <1>2
  <2> QED
    BY <1>1, <1>2, <2>1 DEF Words, RoleOf
<1>9. read.status = new.status
  OBVIOUS
<1>10. UNCHANGED <<screen, losses, stored, seen>>
  BY DEF WriteCase, channelVars
<1> HIDE DEF fin, read, reply
<1>11. Earned(said) => Earned(fin.messages)
  BY <1>2, <1>6, EarnedGrows
<1>12. /\ cases' = [d \in Cases |-> cases'[d]]
       /\ \A d \in Cases : CaseOK(d)' /\ (Knows(d) => Knows(d)') /\ (Opened(d) => Opened(d)')
  <2> PICK f : f = fin
    OBVIOUS
  <2> QED
    BY <1>2, <1>4, <1>5, <1>6, <1>7, <1>11, CaseWritten
<1>13. PICK x : x = [call EXCEPT !.pc = "emit", !.read = read, !.reply = reply]
  OBVIOUS
<1>14. deskCalls' = [deskCalls EXCEPT ![k] = x]
  BY <1>8, <1>13, CallRow
<1>15. CallOK(x) /\ CallSeen(x) /\ x.pc = "emit" /\ x.op = call.op /\ x.id = call.id /\ x.from = call.from
       /\ x.body = call.body /\ x.read = read /\ x.reply = reply
  BY <1>0, <1>13 DEF CallOK, CallSeen
<1>16. CallCan(x)
  BY <1>0, <1>1, <1>4, <1>9, <1>r, <1>15 DEF CallCan
<1>17. CallCan(x)'
  BY <1>12, <1>16, CallCanStays
<1> QED
  BY <1>0, <1>10, <1>12, <1>14, <1>15, <1>17, DeskCall

\* What a line brings, or its loss, leaves the screen as good as it was.
LEMMA DeskScreenCarried ==
  ASSUME Wired, NEW s \in On(DeskScreens), NEW q, DeskScreenOK(s, screen[s]), Holds(q), Carried(screen[s], q),
         UNCHANGED <<scene, cases, seen>>,
         \/ \A k \in scene.calls : deskCalls'[k].pc = "emit" <=> deskCalls[k].pc = "emit"
         \/ DeskKind[s] = "queue" /\ q.link = "up" => News(q, useSupportInboxChannel)
  PROVE  DeskScreenOK(s, q)'
<1> DEFINE r == screen[s]
<1>0. Holds(r) /\ r.link \in LINKS /\ q.link \in LINKS
  BY DEF Wired, On, Holds
<1>1. /\ q.reads = r.reads /\ q.shown = r.shown /\ q.behind = r.behind
      /\ r.link = "closed" <=> q.link = "closed"
      /\ q.link \in {"down", "up", "rejected"} => r.link \in {"down", "up", "rejected"}
  BY <1>0 DEF Carried, Stays, LINKS
<1>2. Asking(q)' /\ Len(q.reads) <= 1
  BY <1>1 DEF DeskScreenOK, Asking
<1>3. DeskKind[s] = "widget" => WidgetOK(s, q)'
  <2>1. \A c : Opened(c) => Opened(c)'
    BY DEF Opened
  <2>2. RoomOf(s, q.shown) = RoomOf(s, r.shown)
    BY <1>1
  <2> HIDE DEF r
  <2>3. DeskKind[s] = "widget" => WidgetOK(s, r)
    BY DEF DeskScreenOK, r
  <2>4. WidgetOK(s, r) => WidgetOK(s, q)'
    BY <1>1, <2>1, <2>2 DEF WidgetOK, Noticed, History_
  <2> QED
    BY <2>3, <2>4
<1>4. DeskKind[s] = "case" /\ q.link # "closed" => Knows(CaseOf[s])'
  BY <1>1 DEF DeskScreenOK, Knows, Opened
<1>5. DeskKind[s] = "queue" => q.behind \in BOOLEAN /\ QueueFollows(q)'
  <2>1. ASSUME DeskKind[s] = "queue", q.link = "up", ~News(q, useSupportInboxChannel),
               \A k \in scene.calls : deskCalls'[k].pc # "emit"
        PROVE  QueueShows(q)'
    <3>1. "connection:ready" \in useSupportInboxChannel
      BY DEF useSupportInboxChannel
    <3>2. r.link = "up" /\ ~News(r, useSupportInboxChannel)
      BY <1>0, <2>1, <3>1, CarriedNews
    <3>3. \A k \in scene.calls : deskCalls[k].pc # "emit"
      BY <2>1
    <3>4. QueueShows(r)
      BY <2>1, <3>2, <3>3 DEF DeskScreenOK, QueueFollows
    <3>5. listSessions' = listSessions
      BY DEF listSessions
    <3> HIDE DEF r
    <3> QED
      BY <1>1, <3>4, <3>5 DEF QueueShows, Newest
  <2> QED
    BY <1>1, <2>1 DEF DeskScreenOK, QueueFollows
<1> QED
  BY <1>2, <1>3, <1>4, <1>5 DEF DeskScreenOK

LEMMA DeskHeard ==
  ASSUME Wired, DeskInv, Wired', UNCHANGED <<cases, stored, seen, scene>>,
         \A s \in On(DeskScreens) : Carried(screen[s], screen'[s]),
         deskCalls' = [k \in scene.calls |-> deskCalls'[k]],
         \A k \in scene.calls :
           /\ CallOK(deskCalls[k])' /\ (deskCalls'[k].pc # "idle" => CallCan(deskCalls[k])')
           /\ deskCalls'[k].op = deskCalls[k].op /\ deskCalls'[k].from = deskCalls[k].from
           /\ deskCalls'[k].pc # "idle" => deskCalls[k].pc # "idle"
           /\ deskCalls'[k].pc # "done" => deskCalls[k].pc # "done",
         \/ \A k \in scene.calls : deskCalls'[k].pc = "emit" <=> deskCalls[k].pc = "emit"
         \/ \A s \in On(DeskScreens) : DeskKind[s] = "queue" /\ screen'[s].link = "up" =>
                                         News(screen'[s], useSupportInboxChannel)
  PROVE  DeskInv'
<1>0. On(DeskScreens)' = On(DeskScreens) /\ On(DeskScreens) \subseteq scene.screens
  BY DEF On
<1>1. \A s \in On(DeskScreens) : Holds(screen[s]) /\ Holds(screen'[s])
  BY <1>0 DEF Wired
<1>2. ASSUME NEW s \in On(DeskScreens) PROVE DeskScreenOK(s, screen[s])'
  <2>1. DeskScreenOK(s, screen[s])
    BY DEF DeskInv
  <2>2. PICK q : q = screen'[s]
    OBVIOUS
  <2>3. DeskScreenOK(s, q)'
    BY <1>1, <2>1, <2>2, DeskScreenCarried
  <2> QED
    BY <2>2, <2>3
<1>3. (\A c \in Cases : CaseOK(c)' /\ (Opened(c) => Opened(c)')) /\ cases' = [c \in Cases |-> cases'[c]]
  BY CasesStay
<1>4. ASSUME NEW k \in scene.calls, deskCalls'[k].pc # "idle" PROVE CallSeen(deskCalls[k])'
  <2>1. CallOK(deskCalls[k]) /\ CallSeen(deskCalls[k]) /\ deskCalls[k].from \in On(DeskScreens)
    BY <1>4, CallRow DEF CallOK
  <2>2. PICK s \in On(DeskScreens) : s = deskCalls[k].from
    BY <2>1
  <2>3. screen'[s].link # "closed" => screen[s].link # "closed" /\ screen'[s].shown = screen[s].shown
    BY <1>1 DEF Carried, Stays, Holds
  <2> QED
    BY <2>1, <2>2, <2>3 DEF CallSeen, Opened
<1>5. DeskRows'
  BY <1>0, <1>3, <1>4 DEF DeskInv, DeskRows, CallDoes, Opened
<1> QED
  BY <1>0, <1>2, <1>5 DEF DeskInv

\* Several emits, one after the other, are heard as one.
LEMMA EmitCaseKeeps ==
  ASSUME Wired, DeskInv, NEW k \in scene.calls, EmitCase(k), UNCHANGED scene
  PROVE  Wired' /\ DeskInv' /\ \A t \in scene.screens : Carried(screen[t], screen'[t])
<1> DEFINE call == deskCalls[k]
           D == scene.screens
           inbox == {SUPPORT_ADMIN_INBOX_ROOM}
           name == "support:inbox_updated"
<1>0. CallOK(call) /\ CallCan(call) /\ call.pc = "emit" /\ losses \in Nat /\ losses' = losses
      /\ UNCHANGED <<cases, stored, seen>> /\ Step(k, "answer")
  BY CallRow DEF EmitCase, Wired
<1>1. /\ screen = [s \in D |-> screen[s]]
      /\ \A s \in D : Holds(screen[s]) /\ LineOK(s, screen[s])
  BY WiredFacts
<1>2. PICK told : told = IF Speaks(call.op)
              THEN emitToRoom(screen, supportRoom(call.id), "support:message", call.reply)
              ELSE screen
  OBVIOUS
<1>3. /\ told = [s \in D |-> told[s]]
      /\ \A s \in D : /\ Holds(told[s]) /\ LineOK(s, told[s]) /\ Carried(screen[s], told[s])
                      /\ told[s].link = screen[s].link /\ told[s].rooms = screen[s].rooms
  <2>1. CASE Speaks(call.op)
    <3>1. [name |-> "support:message", payload |-> call.reply] \in Event
      BY <1>0, <2>1 DEF CallCan, Event
    <3> DEFINE q == emitToRooms(screen, {supportRoom(call.id)}, "support:message", call.reply)
    <3>2. q = [s \in D |-> q[s]] /\ \A s \in D : Heard_(screen, q, s, {supportRoom(call.id)}, "support:message")
      BY <1>1, <3>1, EmitFacts
    <3>3. told = q
      BY <1>2, <2>1 DEF emitToRoom
    <3> HIDE DEF q
    <3> QED
      BY <3>2, <3>3 DEF Heard_
  <2>2. CASE ~Speaks(call.op)
    <3>1. told = screen
      BY <1>2, <2>2
    <3>2. \A s \in D : Carried(screen[s], screen[s])
      BY <1>1, CarriedSame
    <3> QED
      BY <1>1, <3>1, <3>2
  <2> QED
    BY <2>1, <2>2
<1>4. /\ screen' = [s \in D |-> screen'[s]]
      /\ \A s \in D : Heard_(told, screen', s, inbox, name)
  <2> DEFINE q == emitToRooms(told, inbox, name, Nothing)
  <2>1. [name |-> name, payload |-> Nothing] \in Event
    BY DEF Event
  <2>2. q = [s \in D |-> q[s]] /\ \A s \in D : Heard_(told, q, s, inbox, name)
    BY <1>3, <2>1, EmitFacts
  <2>3. screen' = q
    BY <1>2 DEF EmitCase, emitToRoom
  <2> HIDE DEF q
  <2> QED
    BY <2>2, <2>3
<1>5. Wired'
  BY <1>0, <1>4 DEF Wired, Heard_
<1>6. \A s \in D : Carried(screen[s], screen'[s])
  <2> TAKE s \in D
  <2>1. Holds(screen[s]) /\ Holds(told[s]) /\ Holds(screen'[s])
    BY <1>1, <1>3, <1>4 DEF Heard_
  <2>2. Carried(screen[s], told[s]) /\ Carried(told[s], screen'[s])
    BY <1>3, <1>4 DEF Heard_
  <2> QED
    BY <2>1, <2>2, CarriedTrans
<1>7. ASSUME NEW s \in On(DeskScreens), DeskKind[s] = "queue", screen'[s].link = "up"
      PROVE  News(screen'[s], useSupportInboxChannel)
  <2>1. s \in D /\ s \in DeskScreens
    BY DEF On
  <2>2. told[s].link = "up" /\ LineOK(s, told[s])
    BY <1>3, <1>4, <1>7, <2>1 DEF Heard_
  <2>3. SUPPORT_ADMIN_INBOX_ROOM \in told[s].rooms
    BY <1>7, <2>1, <2>2, DeskAssumption DEF LineOK, RoomsFor
  <2>4. News(screen'[s], {name})
    BY <1>4, <2>1, <2>3 DEF Heard_
  <2> QED
    BY <2>4 DEF News, useSupportInboxChannel
<1>8. PICK x : x = [call EXCEPT !.pc = "answer"]
  OBVIOUS
<1>9. deskCalls' = [deskCalls EXCEPT ![k] = x]
  BY <1>0, <1>8, CallRow DEF Step
<1>10. CallOK(x) /\ CallCan(x) /\ x.pc = "answer" /\ x.op = call.op /\ x.from = call.from
  BY <1>0, <1>8 DEF CallOK, CallCan
<1>11. \A c \in Cases : CaseOK(c)' /\ (Knows(c) => Knows(c)') /\ (Opened(c) => Opened(c)')
  BY <1>0, CasesStay
<1>12. On(DeskScreens)' = On(DeskScreens)
  BY DEF On
<1>13. CallOK(x)' /\ CallCan(x)'
  BY <1>10, <1>11, <1>12, CallCanStays DEF CallOK
<1>14. ASSUME NEW j \in scene.calls
       PROVE  /\ CallOK(deskCalls[j])' /\ (deskCalls'[j].pc # "idle" => CallCan(deskCalls[j])')
              /\ deskCalls'[j].op = deskCalls[j].op /\ deskCalls'[j].from = deskCalls[j].from
              /\ deskCalls'[j].pc # "idle" => deskCalls[j].pc # "idle"
              /\ deskCalls'[j].pc # "done" => deskCalls[j].pc # "done"
  <2>1. CASE j = k
    <3>1. deskCalls'[j] = x
      BY <1>9, <2>1, CallRow
    <3> QED
      BY <1>0, <1>10, <1>13, <2>1, <3>1
  <2>2. CASE j # k
    <3>1. deskCalls'[j] = deskCalls[j]
      BY <1>9, <2>2, CallRow
    <3>2. PICK y : y = deskCalls[j]
      OBVIOUS
    <3>3. CallOK(y) /\ (y.pc # "idle" => CallCan(y))
      BY <3>2, CallRow
    <3>4. CallOK(y)'
      BY <1>12, <3>3 DEF CallOK
    <3>5. y.pc # "idle" => CallCan(y)'
      BY <1>11, <3>3, CallCanStays
    <3> QED
      BY <3>1, <3>2, <3>4, <3>5
  <2> QED
    BY <2>1, <2>2
<1>15. deskCalls' = [j \in scene.calls |-> deskCalls'[j]]
  BY <1>9, CallRow
<1>16. On(DeskScreens) \subseteq D
  BY DEF On
<1>17. DeskInv'
  BY <1>0, <1>5, <1>6, <1>7, <1>14, <1>15, <1>16, DeskHeard
<1> QED
  BY <1>5, <1>6, <1>17

LEMMA DeskCarried ==
  ASSUME Wired, DeskInv, Wired', UNCHANGED <<deskVars, scene>>,
         \A s \in On(DeskScreens) : Carried(screen[s], screen'[s])
  PROVE  DeskInv'
<1>1. UNCHANGED <<cases, deskCalls, stored, seen, scene>>
  BY DEF deskVars
<1>2. \A c \in Cases : CaseOK(c)' /\ (Knows(c) => Knows(c)') /\ (Opened(c) => Opened(c)')
  BY <1>1, CasesStay
<1>3. ASSUME NEW j \in scene.calls
      PROVE  CallOK(deskCalls[j])' /\ (deskCalls'[j].pc # "idle" => CallCan(deskCalls[j])')
  <2>1. PICK y : y = deskCalls[j]
    OBVIOUS
  <2>2. CallOK(y) /\ (y.pc # "idle" => CallCan(y))
    BY <2>1, CallRow
  <2>3. CallOK(y)'
    BY <1>1, <2>2 DEF CallOK, On
  <2>4. y.pc # "idle" => CallCan(y)'
    BY <1>2, <2>2, CallCanStays
  <2> QED
    BY <1>1, <2>1, <2>3, <2>4
<1>4. deskCalls' = [j \in scene.calls |-> deskCalls'[j]]
  BY <1>1 DEF DeskInv, DeskRows
<1> QED
  BY <1>1, <1>3, <1>4, DeskHeard

LEMMA DeskRestart ==
  ASSUME Wired, DeskInv, Wired', RestartDesk, UNCHANGED <<cases, stored, seen, scene>>,
         \A s \in On(DeskScreens) : Carried(screen[s], screen'[s]) /\ screen'[s].link # "up"
  PROVE  DeskInv'
<1>1. deskCalls = [j \in scene.calls |-> deskCalls[j]]
  BY DEF DeskInv, DeskRows
<1>2. deskCalls' = [k \in scene.calls |-> IF deskCalls[k].pc \in {"idle", "refused", "done"}
                                    THEN deskCalls[k] ELSE [deskCalls[k] EXCEPT !.pc = "refused"]]
  BY <1>1 DEF RestartDesk
<1>3. \A c \in Cases : CaseOK(c)' /\ (Knows(c) => Knows(c)') /\ (Opened(c) => Opened(c)')
  BY CasesStay
<1>4. ASSUME NEW j \in scene.calls
      PROVE  /\ CallOK(deskCalls[j])' /\ (deskCalls'[j].pc # "idle" => CallCan(deskCalls[j])')
             /\ deskCalls'[j].op = deskCalls[j].op /\ deskCalls'[j].from = deskCalls[j].from
             /\ deskCalls'[j].pc # "idle" => deskCalls[j].pc # "idle"
             /\ deskCalls'[j].pc # "done" => deskCalls[j].pc # "done"
  <2>0. CallOK(deskCalls[j]) /\ (deskCalls[j].pc # "idle" => CallCan(deskCalls[j]))
    BY CallRow
  <2>1. PICK y : y = deskCalls'[j]
    OBVIOUS
  <2>2. CASE deskCalls[j].pc \in {"idle", "refused", "done"}
    <3>1. y = deskCalls[j]
      BY <1>2, <2>1, <2>2
    <3>2. CallOK(y)' /\ (y.pc # "idle" => CallCan(y))
      BY <2>0, <3>1 DEF CallOK, On
    <3>3. y.pc # "idle" => CallCan(y)'
      BY <1>3, <3>2, CallCanStays
    <3> QED
      BY <2>1, <3>1, <3>2, <3>3
  <2>3. CASE deskCalls[j].pc \notin {"idle", "refused", "done"}
    <3>1. y = [deskCalls[j] EXCEPT !.pc = "refused"]
      BY <1>2, <2>1, <2>3
    <3>2. /\ CallOK(y) /\ CallCan(y) /\ y.pc = "refused" /\ y.op = deskCalls[j].op
          /\ y.from = deskCalls[j].from
      BY <2>0, <2>3, <3>1 DEF CallOK, CallCan
    <3>3. CallOK(y)'
      BY <3>2 DEF CallOK, On
    <3>4. CallCan(y)'
      BY <1>3, <3>2, CallCanStays
    <3> QED
      BY <2>1, <2>3, <3>2, <3>3, <3>4
  <2> QED
    BY <2>2, <2>3
<1>5. deskCalls' = [j \in scene.calls |-> deskCalls'[j]]
  BY <1>2
<1> QED
  BY <1>4, <1>5, DeskHeard

-----------------------------------------------------------------------------
\* What a screen of the desk does by itself.

\* The panel that goes away changes nothing the invariant knows of a call.
LEMMA PanelFacts ==
  ASSUME DeskInv, NEW s, deskCalls' = deskCalls \/ deskCalls' = PanelGone(s)
  PROVE  /\ deskCalls' = [k \in scene.calls |-> deskCalls'[k]]
         /\ \A k \in scene.calls :
              /\ deskCalls'[k].pc = deskCalls[k].pc /\ deskCalls'[k].op = deskCalls[k].op
              /\ deskCalls'[k].from = deskCalls[k].from /\ deskCalls'[k].id = deskCalls[k].id
              /\ deskCalls'[k].body = deskCalls[k].body /\ deskCalls'[k].read = deskCalls[k].read
              /\ deskCalls'[k].reply = deskCalls[k].reply
              /\ CallOK(deskCalls'[k]) /\ (deskCalls'[k].pc # "idle" => CallCan(deskCalls'[k]))
<1>0. \A k \in scene.calls : deskCalls[k].pc # "idle" => CallCan(deskCalls[k])
  BY CallRow
<1>1. deskCalls = [k \in scene.calls |-> deskCalls[k]] /\ \A k \in scene.calls : CallOK(deskCalls[k])
  BY DEF DeskInv, DeskRows
<1>2. CASE deskCalls' = deskCalls
  BY <1>0, <1>1, <1>2
<1>3. CASE deskCalls' = PanelGone(s)
  <2>1. deskCalls' = [k \in scene.calls |-> [deskCalls[k] EXCEPT !.panel = @ /\ deskCalls[k].from # s]]
    BY <1>1, <1>3 DEF PanelGone
  <2>2. ASSUME NEW k \in scene.calls
        PROVE  /\ deskCalls'[k].pc = deskCalls[k].pc /\ deskCalls'[k].op = deskCalls[k].op
               /\ deskCalls'[k].from = deskCalls[k].from /\ deskCalls'[k].id = deskCalls[k].id
               /\ deskCalls'[k].body = deskCalls[k].body /\ deskCalls'[k].read = deskCalls[k].read
               /\ deskCalls'[k].reply = deskCalls[k].reply
               /\ CallOK(deskCalls'[k]) /\ (deskCalls'[k].pc # "idle" => CallCan(deskCalls'[k]))
    <3>1. PICK p : p = (deskCalls[k].panel /\ deskCalls[k].from # s)
      OBVIOUS
    <3>2. deskCalls'[k] = [deskCalls[k] EXCEPT !.panel = p]
      BY <2>1, <3>1
    <3>3. PICK x : x = deskCalls'[k]
      OBVIOUS
    <3>4. /\ x.pc = deskCalls[k].pc /\ x.op = deskCalls[k].op
          /\ x.from = deskCalls[k].from /\ x.id = deskCalls[k].id
          /\ x.body = deskCalls[k].body /\ x.read = deskCalls[k].read
          /\ x.reply = deskCalls[k].reply
          /\ CallOK(x)
      BY <1>1, <3>2, <3>3 DEF CallOK
    <3>5. x.pc # "idle" => CallCan(x)
      BY <1>0, <3>4 DEF CallCan
    <3> QED
      BY <3>3, <3>4, <3>5
  <2> QED
    BY <2>1, <2>2
<1> QED
  BY <1>2, <1>3

\* A step of the screens: nothing is written.
LEMMA DeskMoves ==
  ASSUME Wired, DeskInv, NEW s \in On(DeskScreens), UNCHANGED <<scene, cases>>, losses' \in Nat,
         screen' = [t \in scene.screens |-> screen'[t]],
         \A t \in scene.screens \ {s} :
           \/ screen'[t] = screen[t]
           \/ t \in On(DeskScreens) /\ DeskKind[t] = "queue" /\ Holds(screen'[t]) /\ LineOK(t, screen'[t])
              /\ DeskScreenOK(t, screen'[t]),
         Holds(screen'[s]), LineOK(s, screen'[s]), DeskScreenOK(s, screen[s])',
         deskCalls' = [k \in scene.calls |-> deskCalls'[k]],
         \A k \in scene.calls :
           /\ CallOK(deskCalls'[k]) /\ (deskCalls'[k].pc # "idle" => CallCan(deskCalls'[k]))
           /\ deskCalls'[k].pc = "emit" <=> deskCalls[k].pc = "emit"
           /\ deskCalls'[k].op = "escalate" /\ deskCalls'[k].pc \notin {"idle", "done"} =>
                IF deskCalls'[k].from = s THEN screen'[s].link # "closed" => Opened(screen'[s].shown.id)
                ELSE /\ deskCalls[k].op = "escalate" /\ deskCalls[k].pc \notin {"idle", "done"}
                     /\ deskCalls[k].from = deskCalls'[k].from,
         DOMAIN stored' = DOMAIN stored,
         \A t \in DOMAIN stored : \/ stored'[t] = stored[t] \/ stored'[t] = Nothing
                                  \/ OwnerOf[t] # Nothing /\ Opened(stored'[t]),
         stored' = [t \in DOMAIN stored' |-> stored'[t]],
         seen' = [t \in On(DeskScreens) |-> seen'[t]],
         \A t \in On(DeskScreens) : seen'[t] = [c \in Cases |-> seen'[t][c]],
         \A t \in On(DeskScreens) \ {s} : DeskKind[t] = "widget" => seen'[t] = seen[t]
  PROVE  Wired' /\ DeskInv' /\ \A t \in scene.screens \ DeskScreens : screen'[t] = screen[t]
<1>0. On(DeskScreens)' = On(DeskScreens) /\ On(DeskScreens) \subseteq scene.screens
      /\ \A t \in scene.screens \ DeskScreens : t \notin On(DeskScreens)
  BY DEF On
<1>1. Wired'
  <2>1. \A t \in scene.screens : Holds(screen'[t]) /\ LineOK(t, screen'[t])
    BY DEF Wired
  <2> QED
    BY <2>1 DEF Wired
<1>2. \A t \in scene.screens \ DeskScreens : screen'[t] = screen[t]
  BY <1>0
<1>3. /\ cases' = [c \in Cases |-> cases'[c]]
      /\ \A c \in Cases : CaseOK(c)' /\ (Knows(c) => Knows(c)') /\ (Opened(c) => Opened(c)')
      /\ listSessions' = listSessions
  BY CasesStay
<1>5. ASSUME NEW t \in On(DeskScreens) PROVE DeskScreenOK(t, screen[t])'
  <2>1. PICK q : q = screen'[t]
    OBVIOUS
  <2>2. CASE t = s
    BY <2>2
  <2>3. CASE t # s
    <3>1. DeskScreenOK(t, q)
      BY <1>0, <2>1, <2>3 DEF DeskInv
    <3>2. DeskScreenOK(t, q)'
      BY <1>3, <2>3, <3>1, DeskScreenStays
    <3> QED
      BY <2>1, <3>2
  <2> QED
    BY <2>2, <2>3
<1>6. ASSUME NEW k \in scene.calls
      PROVE  CallOK(deskCalls[k])' /\ (deskCalls'[k].pc # "idle" => CallDoes(deskCalls[k])')
  <2>1. PICK y : y = deskCalls'[k]
    OBVIOUS
  <2>2. CallOK(y) /\ CallOK(y)'
    BY <1>0, <2>1 DEF CallOK
  <2>3. y.pc # "idle" => CallCan(y) /\ CallCan(y)'
    <3>1. y.pc # "idle" => CallCan(y)
      BY <2>1
    <3> QED
      BY <1>3, <3>1, CallCanStays
  <2>4. ASSUME y.pc # "idle" PROVE CallSeen(y)'
    <3>1. y.from \in On(DeskScreens) /\ CallCan(y)
      BY <2>2, <2>3, <2>4 DEF CallOK
    <3>2. \A c : Opened(c) => Opened(c)'
      BY DEF Opened
    <3>3. CASE y.op = "escalate" /\ y.pc # "done" /\ screen'[y.from].link # "closed"
      <4>1. CASE y.from = s
        <5>1. Opened(screen'[s].shown.id)
          BY <2>1, <2>4, <3>3, <4>1
        <5> QED
          BY <4>1, <5>1 DEF CallSeen, Opened
      <4>2. CASE y.from # s
        <5>1. screen'[y.from] = screen[y.from]
          BY <1>0, <3>1, <3>3, <4>2 DEF CallCan
        <5>2. CallSeen(deskCalls[k]) /\ deskCalls[k].op = "escalate" /\ deskCalls[k].pc # "done"
              /\ deskCalls[k].from = y.from
          BY <2>1, <2>4, <3>3, <4>2, CallRow
        <5> QED
          BY <3>3, <5>1, <5>2 DEF CallSeen, Opened
      <4> QED
        BY <4>1, <4>2
    <3> QED
      BY <3>3 DEF CallSeen
  <2> QED
    BY <2>1, <2>2, <2>3, <2>4 DEF CallDoes
<1>7. stored' \in [{t \in On(DeskScreens) : DeskKind[t] = "widget"} -> Cases \cup {Nothing}]
      /\ \A t \in DOMAIN stored' : /\ OwnerOf[t] = Nothing => stored'[t] = Nothing
                                   /\ stored'[t] # Nothing => Opened(stored'[t])
  <2>1. stored \in [{t \in On(DeskScreens) : DeskKind[t] = "widget"} -> Cases \cup {Nothing}]
        /\ \A t \in DOMAIN stored : /\ OwnerOf[t] = Nothing => stored[t] = Nothing
                                    /\ stored[t] # Nothing => Opened(stored[t])
    BY DEF DeskInv, DeskRows
  <2>2. \A t \in DOMAIN stored : stored'[t] \in Cases \cup {Nothing}
    BY <2>1 DEF Opened
  <2> QED
    BY <2>1, <2>2
<1>8. \A t \in DOMAIN stored' : /\ OwnerOf[t] = Nothing => stored'[t] = Nothing
                                /\ stored'[t] # Nothing => Opened(stored[t])'
  <2> TAKE t \in DOMAIN stored'
  <2>1. PICK c : c = stored'[t]
    OBVIOUS
  <2>2. Opened(c) => Opened(c)'
    BY DEF Opened
  <2>3. c # Nothing => Opened(c)
    BY <1>7, <2>1 DEF Opened
  <2>4. c # Nothing => Opened(c)'
    BY <2>2, <2>3
  <2> QED
    BY <1>7, <2>1, <2>4 DEF Opened
<1>9. DeskRows'
  <2>1. (\A k \in scene.calls : CallOK(deskCalls[k])' /\ (deskCalls'[k].pc # "idle" => CallDoes(deskCalls[k])'))
        /\ scene' = scene
    BY <1>6
  <2>2. \A t \in On(DeskScreens) : seen'[t] = [c \in Cases |-> seen'[t][c]]
    OBVIOUS
  <2> QED
    BY <1>0, <1>3, <1>7, <1>8, <2>1, <2>2 DEF DeskRows
<1> QED
  BY <1>0, <1>1, <1>2, <1>5, <1>9 DEF DeskInv

\* How calls may move while screen s comes to show the case w.
CallsMove(s, w) ==
  /\ deskCalls' = [k \in scene.calls |-> deskCalls'[k]]
  /\ \A k \in scene.calls :
       /\ CallOK(deskCalls'[k]) /\ (deskCalls'[k].pc # "idle" => CallCan(deskCalls'[k]))
       /\ deskCalls'[k].pc = "emit" <=> deskCalls[k].pc = "emit"
       /\ deskCalls'[k].op = "escalate" /\ deskCalls'[k].pc \notin {"idle", "done"} =>
            IF deskCalls'[k].from = s THEN Opened(w)
            ELSE /\ deskCalls[k].op = "escalate" /\ deskCalls[k].pc \notin {"idle", "done"}
                 /\ deskCalls[k].from = deskCalls'[k].from

LEMMA CallsStill ==
  ASSUME DeskInv, NEW s, deskCalls' = deskCalls \/ deskCalls' = PanelGone(s), screen[s].link # "closed",
         NEW w, Opened(screen[s].shown.id) => Opened(w)
  PROVE  CallsMove(s, w)
<1>1. /\ deskCalls' = [k \in scene.calls |-> deskCalls'[k]]
      /\ \A k \in scene.calls :
              /\ deskCalls'[k].pc = deskCalls[k].pc /\ deskCalls'[k].op = deskCalls[k].op
              /\ deskCalls'[k].from = deskCalls[k].from
              /\ CallOK(deskCalls'[k]) /\ (deskCalls'[k].pc # "idle" => CallCan(deskCalls'[k]))
  BY PanelFacts
<1>2. \A k \in scene.calls : deskCalls[k].pc # "idle" => CallSeen(deskCalls[k])
  BY CallRow
<1>3. ASSUME NEW k \in scene.calls, deskCalls[k].op = "escalate", deskCalls[k].pc \notin {"idle", "done"},
             deskCalls[k].from = s
      PROVE  Opened(w)
  BY <1>2, <1>3 DEF CallSeen
<1> QED
  BY <1>1, <1>3 DEF CallsMove

\* What a widget may show next.
WidgetNew(s, r) ==
  /\ r.shown \in Widget /\ (Noticed(s, r.shown) \/ InView(r.shown))
  /\ r.shown.status # "AI_ONLY" => r.shown.id # Nothing
  /\ r.shown.id # Nothing => Opened(r.shown.id)
  /\ OwnerOf[s] = Nothing => r.shown.status = "AI_ONLY" /\ r.reads = <<>>
  /\ Asking(r) /\ Len(r.reads) <= 1
  /\ \A i \in DOMAIN r.reads : Opened(r.reads[i].what) /\ History_(r.reads[i])

LEMMA WidgetPut ==
  ASSUME Wired, DeskInv, NEW s \in On(DeskScreens), DeskKind[s] = "widget", screen[s].link # "closed",
         NEW r, PutWidget(s, r), UNCHANGED <<scene, cases>>, losses' \in Nat,
         Holds(r), LineOK(s, r), r.link = screen[s].link, WidgetNew(s, r),
         CallsMove(s, r.shown.id)
  PROVE  Wired' /\ DeskInv' /\ \A t \in scene.screens \ DeskScreens : screen'[t] = screen[t]
<1> DEFINE new == Resocketed(s, r)
           w == r.shown
<1>0. /\ s \in scene.screens /\ Holds(screen[s]) /\ LineOK(s, screen[s]) /\ DeskScreenOK(s, screen[s])
      /\ screen = [t \in scene.screens |-> screen[t]]
      /\ stored \in [{t \in On(DeskScreens) : DeskKind[t] = "widget"} -> Cases \cup {Nothing}]
      /\ seen = [t \in On(DeskScreens) |-> seen[t]]
      /\ \A t \in On(DeskScreens) : seen[t] = [c \in Cases |-> seen[t][c]]
  BY DEF On, Wired, DeskInv, DeskRows
<1>1. /\ Holds(new) /\ LineOK(s, new) /\ Stays(r, new) /\ new.link # "closed"
      /\ new.link \in {"down", "up", "rejected"} => RoomOf(s, r.shown) # Nothing
  <2>1. CASE RoomOf(s, r.shown) = RoomOf(s, screen[s].shown)
    <3>1. new = r
      BY <2>1 DEF Resocketed
    <3>2. screen[s].link \in {"down", "up", "rejected"} => RoomOf(s, screen[s].shown) # Nothing
      BY <1>0 DEF DeskScreenOK, WidgetOK
    <3> QED
      BY <2>1, <3>1, <3>2 DEF Stays
  <2>2. CASE RoomOf(s, r.shown) # RoomOf(s, screen[s].shown)
    <3>1. PICK link : link = IF RoomOf(s, r.shown) = Nothing THEN "off" ELSE "down"
      OBVIOUS
    <3>2. new = [Dropped(r) EXCEPT !.link = link]
      BY <2>2, <3>1 DEF Resocketed
    <3>3. link \in LINKS
      BY <3>1 DEF LINKS
    <3>4. /\ Holds(new) /\ Stays(r, new) /\ new.link = link
          /\ new.rooms = {} /\ new.joining = {} /\ new.inbox = <<>>
      BY <3>2, <3>3, DroppedFacts
    <3> HIDE DEF new
    <3>5. LineOK(s, new)
      BY <3>1, <3>4, EmptyLine
    <3> QED
      BY <3>1, <3>4, <3>5
  <2> QED
    BY <2>1, <2>2
<1>2. Put(s, new)
  BY DEF PutWidget
<1>3. /\ stored' = IF w.id # Nothing /\ OwnerOf[s] # Nothing THEN [stored EXCEPT ![s] = w.id] ELSE stored
      /\ seen' = IF InView(w) THEN [seen EXCEPT ![s][w.id] = Last(w.entries).id] ELSE seen
  BY DEF PutWidget
<1> HIDE DEF new
<1>4. /\ screen' = [t \in scene.screens |-> screen'[t]] /\ screen'[s] = new
      /\ \A t \in scene.screens \ {s} : screen'[t] = screen[t]
  BY <1>0, <1>2 DEF Put
<1>5. /\ DOMAIN stored' = DOMAIN stored
      /\ \A t \in DOMAIN stored : \/ stored'[t] = stored[t] \/ stored'[t] = Nothing
                                  \/ OwnerOf[t] # Nothing /\ Opened(stored'[t])
      /\ stored' = [t \in DOMAIN stored' |-> stored'[t]]
  <2>1. CASE w.id # Nothing /\ OwnerOf[s] # Nothing
    <3>1. stored' = [stored EXCEPT ![s] = w.id] /\ Opened(w.id)
      BY <1>3, <2>1 DEF WidgetNew
    <3>2. s \in DOMAIN stored
      BY <1>0
    <3>3. stored'[s] = w.id /\ \A t \in DOMAIN stored \ {s} : stored'[t] = stored[t]
      BY <1>0, <3>1, <3>2
    <3> QED
      BY <1>0, <2>1, <3>1, <3>3
  <2>2. CASE ~(w.id # Nothing /\ OwnerOf[s] # Nothing)
    BY <1>0, <1>3, <2>2
  <2> QED
    BY <2>1, <2>2
<1>6. /\ seen' = [t \in On(DeskScreens) |-> seen'[t]]
      /\ \A t \in On(DeskScreens) : seen'[t] = [c \in Cases |-> seen'[t][c]]
      /\ \A t \in On(DeskScreens) \ {s} : seen'[t] = seen[t]
      /\ (w.entries # <<>> /\ Last(w.entries).role = "ADMIN") =>
           w.id # Nothing /\ (w.unread \/ \E c \in Cases : seen'[s][c] = Last(w.entries).id)
  <2>1. CASE InView(w)
    <3>1. w.id \in Cases
      BY <2>1 DEF InView, WidgetNew, Opened
    <3>2. PICK m : m = [seen[s] EXCEPT ![w.id] = Last(w.entries).id]
      OBVIOUS
    <3>3. seen' = [seen EXCEPT ![s] = m]
      BY <1>0, <1>3, <2>1, <3>2
    <3>4. m = [c \in Cases |-> m[c]] /\ m[w.id] = Last(w.entries).id
      BY <1>0, <3>1, <3>2
    <3>5. seen' = [t \in On(DeskScreens) |-> seen'[t]] /\ seen'[s] = m
          /\ \A t \in On(DeskScreens) \ {s} : seen'[t] = seen[t]
      BY <1>0, <3>3
    <3>6. \A t \in On(DeskScreens) : seen'[t] = [c \in Cases |-> seen'[t][c]]
      <4>1. \A t \in On(DeskScreens) \ {s} : seen'[t] = [c \in Cases |-> seen'[t][c]]
        BY <1>0, <3>5
      <4>2. seen'[s] = [c \in Cases |-> seen'[s][c]]
        BY <3>4, <3>5
      <4> QED
        BY <4>1, <4>2
    <3>7. w.id # Nothing /\ seen'[s][w.id] = Last(w.entries).id
      BY <2>1, <3>4, <3>5 DEF InView
    <3> QED
      BY <3>1, <3>5, <3>6, <3>7
  <2>2. CASE ~InView(w)
    <3>1. seen' = seen /\ Noticed(s, w)
      BY <1>3, <2>2 DEF WidgetNew
    <3> QED
      BY <1>0, <3>1 DEF Noticed
  <2> QED
    BY <2>1, <2>2
<1>7. DeskScreenOK(s, screen[s])'
  <2>1. PICK q : q = screen'[s]
    OBVIOUS
  <2>2. Stays(r, q) /\ q.link # "closed" /\ (q.link \in {"down", "up", "rejected"} => RoomOf(s, r.shown) # Nothing)
    BY <1>1, <1>4, <2>1
  <2>3. q.shown = w /\ q.reads = r.reads
    BY <2>2 DEF Stays
  <2>4. Noticed(s, q.shown)'
    BY <1>6, <2>3 DEF Noticed
  <2>5. \A c : Opened(c) => Opened(c)'
    BY DEF Opened
  <2>6. WidgetOK(s, q)'
    BY <2>2, <2>3, <2>4, <2>5 DEF WidgetOK, WidgetNew, History_
  <2>7. Asking(q)' /\ Len(q.reads) <= 1
    BY <2>3 DEF WidgetNew, Asking
  <2>8. DeskScreenOK(s, q)'
    BY <2>6, <2>7 DEF DeskScreenOK
  <2> QED
    BY <2>1, <2>8
<1>8. screen'[s].shown.id = w.id
  BY <1>1, <1>4 DEF Stays
<1>9. /\ deskCalls' = [k \in scene.calls |-> deskCalls'[k]]
      /\ \A k \in scene.calls :
           /\ CallOK(deskCalls'[k]) /\ (deskCalls'[k].pc # "idle" => CallCan(deskCalls'[k]))
           /\ deskCalls'[k].pc = "emit" <=> deskCalls[k].pc = "emit"
           /\ deskCalls'[k].op = "escalate" /\ deskCalls'[k].pc \notin {"idle", "done"} =>
                IF deskCalls'[k].from = s THEN screen'[s].link # "closed" => Opened(screen'[s].shown.id)
                ELSE /\ deskCalls[k].op = "escalate" /\ deskCalls[k].pc \notin {"idle", "done"}
                     /\ deskCalls[k].from = deskCalls'[k].from
  BY <1>8 DEF CallsMove
<1> QED
  BY <1>1, <1>4, <1>5, <1>6, <1>7, <1>9, DeskMoves

\* A screen changes alone, and nothing is seen.
LEMMA DeskOne ==
  ASSUME Wired, DeskInv, NEW s \in On(DeskScreens), NEW new, Put(s, new), Holds(new), LineOK(s, new),
         DeskScreenOK(s, new), UNCHANGED <<scene, cases, seen>>, losses' \in Nat,
         stored' = stored \/ stored' = [stored EXCEPT ![s] = Nothing],
         deskCalls' = deskCalls \/ deskCalls' = PanelGone(s),
         \/ new.link = "closed" \/ DeskKind[s] # "widget"
         \/ \A k \in DOMAIN deskCalls : deskCalls[k].from = s => deskCalls[k].pc = "done"
         \/ screen[s].link # "closed" /\ (Opened(screen[s].shown.id) => Opened(new.shown.id))
  PROVE  Wired' /\ DeskInv' /\ \A t \in scene.screens \ DeskScreens : screen'[t] = screen[t]
<1>0. /\ s \in scene.screens /\ screen = [t \in scene.screens |-> screen[t]]
      /\ stored \in [{t \in On(DeskScreens) : DeskKind[t] = "widget"} -> Cases \cup {Nothing}]
      /\ seen = [t \in On(DeskScreens) |-> seen[t]]
      /\ \A t \in On(DeskScreens) : seen[t] = [c \in Cases |-> seen[t][c]]
      /\ DOMAIN deskCalls = scene.calls
  BY DEF On, Wired, DeskInv, DeskRows
<1>1. /\ screen' = [t \in scene.screens |-> screen'[t]] /\ screen'[s] = new
      /\ \A t \in scene.screens \ {s} : screen'[t] = screen[t]
  BY <1>0 DEF Put
<1>2. /\ deskCalls' = [k \in scene.calls |-> deskCalls'[k]]
      /\ \A k \in scene.calls :
              /\ deskCalls'[k].pc = deskCalls[k].pc /\ deskCalls'[k].op = deskCalls[k].op
              /\ deskCalls'[k].from = deskCalls[k].from
              /\ CallOK(deskCalls'[k]) /\ (deskCalls'[k].pc # "idle" => CallCan(deskCalls'[k]))
  BY PanelFacts
<1>3. DeskScreenOK(s, screen[s])'
  <2>1. \A c \in Cases : (Knows(c) => Knows(c)') /\ (Opened(c) => Opened(c)')
    BY CasesStay
  <2>2. listSessions' = listSessions
    BY CasesStay
  <2>3. DeskScreenOK(s, new)'
    BY <1>2, <2>1, <2>2, DeskScreenStays
  <2> QED
    BY <1>1, <2>3
<1>4. ASSUME NEW k \in scene.calls, deskCalls'[k].op = "escalate", deskCalls'[k].pc \notin {"idle", "done"},
             deskCalls'[k].from = s, screen'[s].link # "closed"
      PROVE  Opened(screen'[s].shown.id)
  <2>1. CallSeen(deskCalls[k]) /\ deskCalls[k].op = "escalate" /\ deskCalls[k].pc \notin {"idle", "done"}
        /\ deskCalls[k].from = s
    BY <1>2, <1>4, CallRow
  <2>2. DeskKind[s] = "widget"
    BY <2>1, CallRow DEF CallCan
  <2>3. screen[s].link # "closed" /\ (Opened(screen[s].shown.id) => Opened(new.shown.id))
    BY <1>0, <1>1, <1>4, <2>1, <2>2
  <2> QED
    BY <1>1, <2>1, <2>3 DEF CallSeen
<1>5. \A k \in scene.calls :
           /\ CallOK(deskCalls'[k]) /\ (deskCalls'[k].pc # "idle" => CallCan(deskCalls'[k]))
           /\ deskCalls'[k].pc = "emit" <=> deskCalls[k].pc = "emit"
           /\ deskCalls'[k].op = "escalate" /\ deskCalls'[k].pc \notin {"idle", "done"} =>
                IF deskCalls'[k].from = s THEN screen'[s].link # "closed" => Opened(screen'[s].shown.id)
                ELSE /\ deskCalls[k].op = "escalate" /\ deskCalls[k].pc \notin {"idle", "done"}
                     /\ deskCalls[k].from = deskCalls'[k].from
  BY <1>2, <1>4
<1>6. /\ DOMAIN stored' = DOMAIN stored
      /\ \A t \in DOMAIN stored : stored'[t] = stored[t] \/ stored'[t] = Nothing
      /\ stored' = [t \in DOMAIN stored' |-> stored'[t]]
  <2>1. CASE stored' = stored
    BY <1>0, <2>1
  <2>2. CASE stored' = [stored EXCEPT ![s] = Nothing]
    BY <1>0, <2>2
  <2> QED
    BY <2>1, <2>2
<1>7. /\ seen' = [t \in On(DeskScreens) |-> seen'[t]]
      /\ \A t \in On(DeskScreens) : seen'[t] = [c \in Cases |-> seen'[t][c]] /\ seen'[t] = seen[t]
  BY <1>0
<1>8. Holds(screen'[s]) /\ LineOK(s, screen'[s])
  BY <1>1
<1>9. deskCalls' = [k \in scene.calls |-> deskCalls'[k]]
  BY <1>2
<1>10. \A t \in DOMAIN stored : \/ stored'[t] = stored[t] \/ stored'[t] = Nothing
                                \/ OwnerOf[t] # Nothing /\ Opened(stored'[t])
  BY <1>6
<1> QED
  BY <1>1, <1>3, <1>5, <1>6, <1>7, <1>8, <1>9, <1>10, DeskMoves

LEMMA DeskPage ==
  ASSUME Wired, DeskInv, NEW s \in On(DeskScreens)
  PROVE  /\ Holds(screen[s]) /\ LineOK(s, screen[s]) /\ DeskScreenOK(s, screen[s]) /\ losses \in Nat
         /\ s \in scene.screens /\ s \in DeskScreens /\ Asking(screen[s]) /\ Len(screen[s].reads) <= 1
         /\ screen = [t \in scene.screens |-> screen[t]]
         /\ DeskKind[s] \in {"widget", "case", "queue"}
         /\ stored \in [{t \in On(DeskScreens) : DeskKind[t] = "widget"} -> Cases \cup {Nothing}]
         /\ DeskKind[s] = "widget" => s \in DOMAIN stored
                                      /\ (OwnerOf[s] = Nothing => stored[s] = Nothing)
                                      /\ (stored[s] # Nothing => Opened(stored[s]))
         /\ DOMAIN deskCalls = scene.calls
BY DeskAssumption DEF On, Wired, DeskInv, DeskRows, DeskScreenOK

\* One request, alone.
LEMMA OneRequest ==
  ASSUME NEW what
  PROVE  /\ IsList(<<Request(what)>>) /\ Len(<<Request(what)>>) = 1 /\ <<Request(what)>> # <<>>
         /\ \A i \in DOMAIN <<Request(what)>> : <<Request(what)>>[i] = Request(what)
<1> DEFINE x == <<Request(what)>>
<1>1. Range(x) = {Request(what)}
  BY DEF Range
<1>2. x \in Seq({Request(what)})
  OBVIOUS
<1> QED
  BY <1>1, <1>2 DEF IsList

LEMMA NoRequest ==
  ASSUME NEW r, r.reads = <<>>
  PROVE  Asking(r) /\ Len(r.reads) = 0 /\ DOMAIN r.reads = {}
<1>1. <<>> \in Seq(Range(<<>>)) /\ DOMAIN <<>> = {} /\ Len(<<>>) = 0
  OBVIOUS
<1> QED
  BY <1>1 DEF Asking, IsList

LEMMA MountWidgetKeeps ==
  ASSUME Wired, DeskInv, NEW s \in On(DeskScreens), MountWidget(s), UNCHANGED scene
  PROVE  Wired' /\ DeskInv' /\ \A t \in scene.screens \ DeskScreens : screen'[t] = screen[t]
<1>0. /\ DeskKind[s] = "widget" /\ UNCHANGED <<losses, cases, deskCalls, stored, seen>>
      /\ \A k \in DOMAIN deskCalls : deskCalls[k].from = s => deskCalls[k].pc = "done"
  BY DEF MountWidget, deskVars
<1>1. PICK reads : reads = IF stored[s] = Nothing THEN <<>> ELSE <<Request(stored[s])>>
  OBVIOUS
<1>2. PICK new : new = [Closed EXCEPT !.link = "off", !.shown = EmptyWidget, !.reads = reads]
  OBVIOUS
<1>3. Put(s, new)
  BY <1>1, <1>2 DEF MountWidget
<1>4. /\ Holds(new) /\ new.link = "off" /\ new.rooms = {} /\ new.joining = {} /\ new.inbox = <<>>
      /\ new.shown = EmptyWidget /\ new.reads = reads
  BY <1>2, ClosedFacts DEF Holds, LINKS
<1>5. LineOK(s, new)
  BY <1>4, NoLine
<1>6. EmptyWidget \in Widget /\ EmptyWidget.entries = <<>> /\ EmptyWidget.status = "AI_ONLY"
      /\ EmptyWidget.id = Nothing
  <2>1. <<>> \in Seq(Utterance)
    OBVIOUS
  <2> QED
    BY <2>1 DEF EmptyWidget, Widget, STATUSES
<1>7. Asking(new) /\ Len(new.reads) <= 1 /\ (OwnerOf[s] = Nothing => new.reads = <<>>)
      /\ \A i \in DOMAIN new.reads : Opened(new.reads[i].what) /\ History_(new.reads[i])
  <2>1. CASE stored[s] = Nothing
    BY <1>1, <1>4, <2>1, NoRequest
  <2>2. CASE stored[s] # Nothing
    <3>1. reads = <<Request(stored[s])>>
      BY <1>1, <2>2
    <3>2. Opened(stored[s]) /\ OwnerOf[s] # Nothing
      BY <1>0, <2>2, DeskPage
    <3>3. Requested(Request(stored[s])) /\ ~Request(stored[s]).served /\ Request(stored[s]).what = stored[s]
      BY RequestIsOne
    <3>4. IsList(reads) /\ Len(reads) = 1 /\ \A i \in DOMAIN reads : reads[i] = Request(stored[s])
      BY <3>1, OneRequest
    <3> QED
      BY <1>4, <3>2, <3>3, <3>4 DEF Asking, History_
  <2> QED
    BY <2>1, <2>2
<1>8. DeskScreenOK(s, new)
  BY <1>0, <1>4, <1>6, <1>7 DEF DeskScreenOK, WidgetOK, Noticed
<1>9. losses' \in Nat
  BY <1>0, DeskPage
<1> QED
  BY <1>0, <1>3, <1>4, <1>5, <1>8, <1>9, DeskOne

LEMMA HistoryFacts ==
  ASSUME DeskInv, NEW c \in Cases
  PROVE  History(c) \in Seq(Utterance) /\ cases[c].status \in STATUSES
<1> DEFINE said == cases[c].messages
           h == History(c)
<1>1. said \in Seq(Message) /\ cases[c].status \in STATUSES
  BY DEF DeskInv, DeskRows, CaseOK, CaseRow
<1>2. DOMAIN said = 1..Len(said) /\ Len(said) \in Nat /\ \A i \in DOMAIN said : said[i] \in Message
  BY <1>1
<1>3. \A i \in DOMAIN said : Entry(c, i) \in Utterance
  <2> TAKE i \in DOMAIN said
  <2>1. i \in Nat /\ said[i] \in Message
    BY <1>2
  <2> HIDE DEF said
  <2>2. Entry(c, i) = [role |-> said[i].role, body |-> said[i].body, id |-> <<c, i>>]
    BY DEF Entry, said
  <2> QED
    BY <2>1, <2>2 DEF Utterance, Message, EntryId
<1>4. h \in [1..Len(said) -> Utterance]
  BY <1>2, <1>3 DEF History
<1> HIDE DEF h
<1>5. h \in Seq(Utterance)
  BY <1>2, <1>4, SeqDef
<1> QED
  BY <1>1, <1>5 DEF h

LEMMA OneRead ==
  ASSUME NEW x, IsList(x), Len(x) <= 1, x # <<>>
  PROVE  DOMAIN x = {1} /\ 1 \in DOMAIN x /\ Len(x) = 1
<1>1. Len(x) \in Nat /\ DOMAIN x = 1..Len(x) /\ Len(x) # 0
  BY SeqFacts
<1>2. Len(x) = 1
  BY <1>1
<1> QED
  BY <1>1, <1>2

LEMMA ServeHistoryKeeps ==
  ASSUME Wired, DeskInv, NEW s \in On(DeskScreens), ServeHistory(s), UNCHANGED scene
  PROVE  Wired' /\ DeskInv' /\ \A t \in scene.screens \ DeskScreens : screen'[t] = screen[t]
<1> DEFINE r == screen[s]
           c == r.reads[1].what
           v == [status |-> cases[c].status, messages |-> History(c)]
<1>0. /\ DeskKind[s] = "widget" /\ r.reads # <<>> /\ UNCHANGED <<losses, cases, deskCalls, stored, seen>>
  BY DEF ServeHistory, deskVars
<1>1. /\ Holds(r) /\ LineOK(s, r) /\ WidgetOK(s, r) /\ Asking(r) /\ Len(r.reads) <= 1
  BY <1>0, DeskPage DEF DeskScreenOK
<1>2. DOMAIN r.reads = {1} /\ 1 \in DOMAIN r.reads /\ Len(r.reads) = 1
  BY <1>0, <1>1, OneRead DEF Asking
<1>3. Opened(c) /\ c \in Cases
  BY <1>1, <1>2 DEF WidgetOK, Opened
<1>4. v.status \in STATUSES /\ v.messages \in Seq(Utterance)
  BY <1>3, HistoryFacts
<1> HIDE DEF v
<1>5. PICK new : new = Served(r, 1, v)
  OBVIOUS
<1>6. Put(s, new)
  BY <1>5 DEF ServeHistory, v
<1> HIDE DEF r
<1>7. /\ Holds(new) /\ SameButReads(new, r) /\ Asking(new)
      /\ DOMAIN new.reads = DOMAIN r.reads /\ Len(new.reads) = Len(r.reads)
      /\ \A k \in DOMAIN new.reads : new.reads[k].what = r.reads[k].what
      /\ \A k \in DOMAIN new.reads : new.reads[k] = r.reads[k] \/ new.reads[k].value = v
      /\ new.reads # <<>>
  BY <1>1, <1>2, <1>5, ServedTells
<1>8. LineOK(s, new)
  BY <1>1, <1>7, LineStays DEF SameButReads
<1>9. WidgetOK(s, new)
  <2>1. RoomOf(s, new.shown) = RoomOf(s, r.shown) /\ new.link = r.link /\ new.shown = r.shown
    BY <1>7 DEF SameButReads
  <2>2. \A i \in DOMAIN new.reads : Opened(new.reads[i].what) /\ History_(new.reads[i])
    BY <1>1, <1>4, <1>7 DEF WidgetOK, History_
  <2>3. ~(OwnerOf[s] = Nothing \/ r.link = "closed")
    BY <1>0, <1>1 DEF WidgetOK, r
  <2> QED
    BY <1>1, <2>1, <2>2, <2>3 DEF WidgetOK
<1>10. DeskScreenOK(s, new)
  BY <1>0, <1>1, <1>7, <1>9 DEF DeskScreenOK
<1>11. screen[s].link # "closed" /\ screen[s].shown = new.shown /\ losses' \in Nat
  BY <1>0, <1>1, <1>7, DeskPage DEF WidgetOK, r, SameButReads
<1> QED
  BY <1>0, <1>6, <1>7, <1>8, <1>10, <1>11, DeskOne

LEMMA LoseHistoryKeeps ==
  ASSUME Wired, DeskInv, NEW s \in On(DeskScreens), LoseHistory(s), UNCHANGED scene
  PROVE  Wired' /\ DeskInv' /\ \A t \in scene.screens \ DeskScreens : screen'[t] = screen[t]
<1> DEFINE r == screen[s]
<1>0. /\ DeskKind[s] = "widget" /\ losses' = losses + 1 /\ UNCHANGED <<cases, deskCalls, seen>>
      /\ stored' = [stored EXCEPT ![s] = Nothing]
  BY DEF LoseHistory, LoseRead
<1>1. /\ Holds(r) /\ LineOK(s, r) /\ WidgetOK(s, r) /\ Asking(r) /\ Len(r.reads) <= 1 /\ losses \in Nat
  BY <1>0, DeskPage DEF DeskScreenOK
<1>2. PICK i \in DOMAIN r.reads : \E f : Put(s, Lost(r, i, f))
  BY DEF LoseHistory, LoseRead, Lost
<1>12. PICK f : Put(s, Lost(r, i, f))
  BY <1>2
<1>3. PICK new : new = Lost(r, i, f)
  OBVIOUS
<1>4. Put(s, new)
  BY <1>12, <1>3
<1> HIDE DEF r
<1>5. /\ Holds(new) /\ Asking(new)
      /\ new.link = r.link /\ new.rooms = r.rooms /\ new.joining = r.joining
      /\ new.inbox = r.inbox /\ new.shown = r.shown
      /\ r.reads # <<>> /\ Len(new.reads) = Len(r.reads) - 1
  <2>1. LostOne(Lost(r, i, f), r)
    BY <1>1, LostTells
  <2>2. LostOne(new, r)
    BY <1>3, <2>1
  <2> QED
    BY <2>2 DEF LostOne
<1>6. new.reads = <<>>
  BY <1>1, <1>5, SeqFacts DEF Asking
<1>7. LineOK(s, new)
  BY <1>1, <1>5, LineStays
<1>8. DOMAIN new.reads = {} /\ Len(new.reads) <= 1
  BY <1>6
<1>9. RoomOf(s, new.shown) = RoomOf(s, r.shown)
  BY <1>5
<1>10. DeskScreenOK(s, new)
  BY <1>0, <1>1, <1>5, <1>6, <1>8, <1>9 DEF DeskScreenOK, WidgetOK
<1>11. screen[s].link # "closed" /\ screen[s].shown = new.shown /\ losses' \in Nat
  BY <1>0, <1>1, <1>5 DEF WidgetOK, r
<1> QED
  BY <1>0, <1>4, <1>5, <1>7, <1>10, <1>11, DeskOne

LEMMA ShowHistoryKeeps ==
  ASSUME Wired, DeskInv, NEW s \in On(DeskScreens), ShowHistory(s), UNCHANGED scene
  PROVE  Wired' /\ DeskInv' /\ \A t \in scene.screens \ DeskScreens : screen'[t] = screen[t]
<1> DEFINE r == screen[s]
           c == r.reads[1].what
           got == r.reads[1].value
<1>0. /\ DeskKind[s] = "widget" /\ r.reads # <<>> /\ r.reads[1].served /\ UNCHANGED <<losses, cases, deskCalls>>
  BY DEF ShowHistory
<1>1. /\ Holds(r) /\ LineOK(s, r) /\ WidgetOK(s, r) /\ Asking(r) /\ Len(r.reads) <= 1 /\ losses \in Nat
  BY <1>0, DeskPage DEF DeskScreenOK
<1>2. DOMAIN r.reads = {1}
  BY <1>0, <1>1, SeqFacts DEF Asking
<1>3. /\ Opened(c) /\ c \in Cases /\ c # Nothing /\ got.status \in STATUSES /\ got.messages \in Seq(Utterance)
      /\ r.link # "closed" /\ OwnerOf[s] # Nothing /\ r.shown \in Widget
  BY <1>0, <1>1, <1>2, DeskAssumption DEF WidgetOK, Opened, History_
<1>4. PICK late \in BOOLEAN : late = (got.messages # <<>> /\ Last(got.messages).role = "ADMIN"
                                      /\ seen[s][c] # Last(got.messages).id)
  OBVIOUS
<1>5. PICK w : w = [r.shown EXCEPT !.id = c, !.status = got.status, !.entries = got.messages,
                                   !.unread = r.shown.unread \/ late]
  OBVIOUS
<1>6. PICK q : q = [r EXCEPT !.reads = <<>>, !.shown = w]
  OBVIOUS
<1>7. PutWidget(s, q)
  BY <1>4, <1>5, <1>6 DEF ShowHistory
<1>8. w \in Widget /\ w.id = c /\ w.status = got.status /\ w.entries = got.messages /\ (late => w.unread)
  <2>1. PICK u \in BOOLEAN : u = (r.shown.unread \/ late)
    BY <1>3 DEF Widget
  <2>2. w = [r.shown EXCEPT !.id = c, !.status = got.status, !.entries = got.messages, !.unread = u]
    <3> DEFINE With(z) == [r.shown EXCEPT !.id = c, !.status = got.status, !.entries = got.messages,
                                          !.unread = z]
    <3>1. w = With(r.shown.unread \/ late)
      BY <1>5
    <3> HIDE DEF With
    <3>2. w = With(u)
      BY <2>1, <3>1
    <3> QED
      BY <3>2 DEF With
  <2> QED
    BY <1>3, <2>1, <2>2 DEF Widget
<1>9. Noticed(s, w)
  BY <1>3, <1>4, <1>8 DEF Noticed
<1>10. /\ Holds(q) /\ q.reads = <<>> /\ q.shown = w /\ q.link = r.link /\ q.rooms = r.rooms
       /\ q.joining = r.joining /\ q.inbox = r.inbox
  BY <1>1, <1>5, <1>6 DEF Holds
<1>11. LineOK(s, q)
  BY <1>1, <1>10, LineStays
<1>12. WidgetNew(s, q)
  BY <1>3, <1>8, <1>9, <1>10, NoRequest DEF WidgetNew
<1>13. CallsMove(s, q.shown.id)
  BY <1>0, <1>3, <1>8, <1>10, CallsStill
<1> QED
  BY <1>0, <1>1, <1>3, <1>7, <1>10, <1>11, <1>12, <1>13, WidgetPut

\* A widget shows something else.
LEMMA WidgetShown ==
  ASSUME Wired, DeskInv, NEW s \in On(DeskScreens), DeskKind[s] = "widget", screen[s].link # "closed",
         NEW r, Holds(r), LineOK(s, r), r.link = screen[s].link, r.reads = screen[s].reads,
         NEW x \in Widget, NEW q, q = [r EXCEPT !.shown = x], PutWidget(s, q),
         Noticed(s, x) \/ InView(x), x.status # "AI_ONLY" => x.id # Nothing,
         x.id # Nothing => Opened(x.id), OwnerOf[s] = Nothing => x.status = "AI_ONLY",
         CallsMove(s, x.id), UNCHANGED <<scene, cases>>, losses' \in Nat
  PROVE  Wired' /\ DeskInv' /\ \A t \in scene.screens \ DeskScreens : screen'[t] = screen[t]
<1>1. /\ Asking(screen[s]) /\ Len(screen[s].reads) <= 1 /\ WidgetOK(s, screen[s])
  BY DeskPage DEF DeskScreenOK
<1>2. /\ Holds(q) /\ q.shown = x /\ q.link = r.link /\ q.rooms = r.rooms
      /\ q.joining = r.joining /\ q.inbox = r.inbox /\ q.reads = screen[s].reads
  BY DEF Holds
<1>3. LineOK(s, q)
  BY <1>2, LineStays
<1>4. Asking(q) /\ Len(q.reads) <= 1
  BY <1>1, <1>2 DEF Asking
<1>5. /\ OwnerOf[s] = Nothing => q.reads = <<>>
      /\ \A i \in DOMAIN q.reads : Opened(q.reads[i].what) /\ History_(q.reads[i])
  BY <1>1, <1>2 DEF WidgetOK
<1>6. WidgetNew(s, q)
  BY <1>2, <1>4, <1>5 DEF WidgetNew
<1>7. CallsMove(s, q.shown.id) /\ q.link = screen[s].link
  BY <1>2
<1> QED
  BY <1>2, <1>3, <1>6, <1>7, WidgetPut

LEMMA WidgetPage ==
  ASSUME Wired, DeskInv, NEW s \in On(DeskScreens), DeskKind[s] = "widget", screen[s].link # "closed"
  PROVE  /\ Holds(screen[s]) /\ LineOK(s, screen[s]) /\ losses \in Nat
         /\ screen[s].shown \in Widget /\ Noticed(s, screen[s].shown)
         /\ screen[s].shown.status # "AI_ONLY" => screen[s].shown.id # Nothing
         /\ screen[s].shown.id # Nothing => Opened(screen[s].shown.id)
         /\ OwnerOf[s] = Nothing => screen[s].shown.status = "AI_ONLY"
  BY DeskPage DEF DeskScreenOK, WidgetOK

LEMMA ToggleKeeps ==
  ASSUME Wired, DeskInv, NEW s \in On(DeskScreens), Toggle(s), UNCHANGED scene
  PROVE  Wired' /\ DeskInv' /\ \A t \in scene.screens \ DeskScreens : screen'[t] = screen[t]
<1> DEFINE r == screen[s]
           w == r.shown
<1>0. /\ DeskKind[s] = "widget" /\ r.link # "closed" /\ UNCHANGED <<losses, cases>>
  BY DEF Toggle
<1>1. /\ Holds(r) /\ LineOK(s, r) /\ losses \in Nat /\ w \in Widget /\ Noticed(s, w)
      /\ w.status # "AI_ONLY" => w.id # Nothing
      /\ w.id # Nothing => Opened(w.id)
      /\ OwnerOf[s] = Nothing => w.status = "AI_ONLY"
  BY <1>0, WidgetPage
<1>2. SUFFICES ASSUME NEW x, x \in Widget, PutWidget(s, [r EXCEPT !.shown = x]),
                      deskCalls' = deskCalls \/ deskCalls' = PanelGone(s),
                      x.id = w.id, x.status = w.status, Noticed(s, x) \/ InView(x)
               PROVE  Wired' /\ DeskInv' /\ \A t \in scene.screens \ DeskScreens : screen'[t] = screen[t]
  <2>1. CASE /\ ~w.open
             /\ PutWidget(s, [r EXCEPT !.shown = [w EXCEPT !.open = TRUE, !.unread = FALSE,
                                                        !.mode = IF w.unread THEN "AI" ELSE @]])
             /\ UNCHANGED deskCalls
    <3>1. PICK x : x = [w EXCEPT !.open = TRUE, !.unread = FALSE,
                                 !.mode = IF w.unread THEN "AI" ELSE @]
      OBVIOUS
    <3>2. /\ x \in Widget /\ x.id = w.id /\ x.status = w.status /\ x.entries = w.entries
          /\ x.open /\ (w.unread => x.mode = "AI")
      BY <1>1, <3>1 DEF Widget
    <3>3. Noticed(s, x) \/ InView(x)
      BY <1>1, <3>2 DEF Noticed, InView
    <3> QED
      BY <1>2, <2>1, <3>1, <3>2, <3>3
  <2>2. CASE /\ w.open
             /\ PutWidget(s, [r EXCEPT !.shown = [w EXCEPT !.open = FALSE, !.escalated = FALSE]])
             /\ deskCalls' = PanelGone(s)
    <3>1. PICK x : x = [w EXCEPT !.open = FALSE, !.escalated = FALSE]
      OBVIOUS
    <3>2. /\ x \in Widget /\ x.id = w.id /\ x.status = w.status /\ x.entries = w.entries
          /\ x.unread = w.unread
      BY <1>1, <3>1 DEF Widget
    <3>3. Noticed(s, x)
      BY <1>1, <3>2 DEF Noticed
    <3> QED
      BY <1>2, <2>2, <3>1, <3>2, <3>3
  <2>3. CASE /\ w.open /\ w.mode = "AI"
             /\ PutWidget(s, [r EXCEPT !.shown = [w EXCEPT !.mode = "CHAT", !.escalated = FALSE]])
             /\ deskCalls' = PanelGone(s)
    <3>1. PICK x : x = [w EXCEPT !.mode = "CHAT", !.escalated = FALSE]
      OBVIOUS
    <3>2. /\ x \in Widget /\ x.id = w.id /\ x.status = w.status /\ x.entries = w.entries
          /\ x.unread = w.unread
      BY <1>1, <3>1 DEF Widget
    <3>3. Noticed(s, x)
      BY <1>1, <3>2 DEF Noticed
    <3> QED
      BY <1>2, <2>3, <3>1, <3>2, <3>3
  <2>4. CASE /\ w.open /\ w.mode = "CHAT"
             /\ PutWidget(s, [r EXCEPT !.shown = [w EXCEPT !.mode = "AI", !.unread = FALSE]])
             /\ UNCHANGED deskCalls
    <3>1. PICK x : x = [w EXCEPT !.mode = "AI", !.unread = FALSE]
      OBVIOUS
    <3>2. /\ x \in Widget /\ x.id = w.id /\ x.status = w.status /\ x.entries = w.entries
          /\ x.open /\ x.mode = "AI"
      BY <1>1, <2>4, <3>1 DEF Widget
    <3>3. Noticed(s, x) \/ InView(x)
      BY <1>1, <3>2 DEF Noticed, InView
    <3> QED
      BY <1>2, <2>4, <3>1, <3>2, <3>3
  <2> QED
    BY <2>1, <2>2, <2>3, <2>4 DEF Toggle
<1>3. PICK q : q = [r EXCEPT !.shown = x]
  OBVIOUS
<1>4. PutWidget(s, q)
  BY <1>2, <1>3
<1>5. CallsMove(s, x.id)
  BY <1>0, <1>2, CallsStill
<1> HIDE DEF w
<1>6. /\ x.status # "AI_ONLY" => x.id # Nothing
      /\ x.id # Nothing => Opened(x.id)
      /\ OwnerOf[s] = Nothing => x.status = "AI_ONLY"
      /\ losses' \in Nat
  BY <1>0, <1>1, <1>2
<1> QED
  BY <1>0, <1>1, <1>2, <1>3, <1>4, <1>5, <1>6, WidgetShown

\* One call moves on while a screen changes.
LEMMA CallMoved ==
  ASSUME DeskInv, NEW s, screen[s].link # "closed", NEW k \in scene.calls, NEW x,
         deskCalls' = [deskCalls EXCEPT ![k] = x], CallOK(x), CallCan(x),
         x.pc # "emit", deskCalls[k].pc # "emit",
         NEW w, OwnerOf[s] = Nothing \/ (Opened(screen[s].shown.id) => Opened(w)),
         x.op = "escalate" => x.pc = "done" \/ (x.from = s /\ Opened(w))
  PROVE  CallsMove(s, w)
<1>1. /\ deskCalls = [j \in scene.calls |-> deskCalls[j]]
      /\ \A j \in scene.calls : CallOK(deskCalls[j])
                                /\ (deskCalls[j].pc # "idle" => CallCan(deskCalls[j]) /\ CallSeen(deskCalls[j]))
  BY DEF DeskInv, DeskRows, CallDoes
<1>2. /\ deskCalls' = [j \in scene.calls |-> deskCalls'[j]]
      /\ deskCalls'[k] = x /\ \A j \in scene.calls \ {k} : deskCalls'[j] = deskCalls[j]
  BY <1>1
<1>3. ASSUME NEW j \in scene.calls
      PROVE  /\ CallOK(deskCalls'[j]) /\ (deskCalls'[j].pc # "idle" => CallCan(deskCalls'[j]))
             /\ deskCalls'[j].pc = "emit" <=> deskCalls[j].pc = "emit"
             /\ deskCalls'[j].op = "escalate" /\ deskCalls'[j].pc \notin {"idle", "done"} =>
                  IF deskCalls'[j].from = s THEN Opened(w)
                  ELSE /\ deskCalls[j].op = "escalate" /\ deskCalls[j].pc \notin {"idle", "done"}
                       /\ deskCalls[j].from = deskCalls'[j].from
  <2>1. CASE j = k
    BY <1>2, <2>1
  <2>2. CASE j # k
    <3>1. deskCalls'[j] = deskCalls[j]
      BY <1>2, <2>2
    <3>2. ASSUME deskCalls[j].op = "escalate", deskCalls[j].pc \notin {"idle", "done"}, deskCalls[j].from = s
          PROVE  Opened(w)
      <4>1. Opened(screen[s].shown.id)
        BY <1>1, <3>2 DEF CallSeen
      <4>2. OwnerOf[s] # Nothing
        BY <1>1, <3>2 DEF CallCan
      <4> QED
        BY <4>1, <4>2
    <3> QED
      BY <1>1, <3>1, <3>2
  <2> QED
    BY <2>1, <2>2
<1> QED
  BY <1>2, <1>3 DEF CallsMove

LEMMA AppendedFacts ==
  ASSUME NEW S, NEW x \in Seq(S), NEW e \in S
  PROVE  Append(x, e) \in Seq(S) /\ Append(x, e) # <<>> /\ Last(Append(x, e)) = e
  BY DEF Last

LEMMA handleSendKeeps ==
  ASSUME Wired, DeskInv, NEW s \in On(DeskScreens), NEW k \in scene.calls, NEW body \in {"asks", "wants"},
         handleSend(s, k, body), UNCHANGED scene
  PROVE  Wired' /\ DeskInv' /\ \A t \in scene.screens \ DeskScreens : screen'[t] = screen[t]
<1> DEFINE r == screen[s]
           w == r.shown
           e == [role |-> "USER", body |-> body, id |-> <<"temp", k>>]
           y == [IdleCall EXCEPT !.pc = "load", !.op = IF w.status = "AI_ONLY" THEN "ask" ELSE "tell",
                   !.from = s, !.panel = TRUE, !.id = w.id, !.body = body,
                   !.earlier = LastOf(BodiesOf(w.entries, "ASSISTANT"), ESCALATION_THRESHOLD - 1)]
<1>0. /\ DeskKind[s] = "widget" /\ r.link # "closed" /\ UNCHANGED <<losses, cases>>
      /\ deskCalls[k].pc = "idle" /\ deskCalls' = [deskCalls EXCEPT ![k] = y]
      /\ PutWidget(s, [r EXCEPT !.shown.entries = Append(@, e)])
  BY DEF handleSend
<1>1. /\ Holds(r) /\ LineOK(s, r) /\ losses \in Nat /\ w \in Widget /\ Noticed(s, w)
      /\ w.status # "AI_ONLY" => w.id # Nothing
      /\ w.id # Nothing => Opened(w.id)
      /\ OwnerOf[s] = Nothing => w.status = "AI_ONLY"
  BY <1>0, WidgetPage
<1>2. e \in Utterance /\ e.role = "USER"
  <2>1. k \in DeskCalls
    BY RealtimeScenes DEF Wired
  <2> QED
    BY <2>1 DEF Utterance, EntryId, BODIES
<1> HIDE DEF e
<1>3. PICK x : x = [w EXCEPT !.entries = Append(w.entries, e)]
  OBVIOUS
<1>4. PICK q : q = [r EXCEPT !.shown = x]
  OBVIOUS
<1>5. q = [r EXCEPT !.shown.entries = Append(@, e)]
  BY <1>3, <1>4
<1>6. PutWidget(s, q)
  BY <1>0, <1>5
<1>7. /\ Append(w.entries, e) \in Seq(Utterance) /\ Append(w.entries, e) # <<>>
      /\ Last(Append(w.entries, e)) = e
  <2>1. w.entries \in Seq(Utterance)
    BY <1>1 DEF Widget
  <2> QED
    BY <1>2, <2>1, AppendedFacts
<1>8. x \in Widget /\ x.id = w.id /\ x.status = w.status /\ x.entries = Append(w.entries, e)
  BY <1>1, <1>3, <1>7 DEF Widget
<1>9. Noticed(s, x)
  BY <1>2, <1>7, <1>8 DEF Noticed
<1>10. CallsMove(s, x.id)
  <2>1. PICK c : c = y
    OBVIOUS
  <2>2. /\ c.pc = "load" /\ c.op = (IF w.status = "AI_ONLY" THEN "ask" ELSE "tell") /\ c.from = s
        /\ c.id = w.id /\ c.body = body /\ c.panel = TRUE /\ c.escalated = FALSE
        /\ c = [pc |-> c.pc, op |-> c.op, from |-> c.from, panel |-> c.panel, id |-> c.id, body |-> c.body,
                read |-> c.read, earlier |-> c.earlier, reply |-> c.reply, escalated |-> c.escalated]
    BY <2>1 DEF IdleCall
  <2>3. w.id \in Cases \cup {Nothing} /\ body \in BODIES
    BY <1>1 DEF Widget, BODIES
  <2>4. CallOK(c)
    BY <2>2, <2>3 DEF CallOK, DESK_OPS
  <2>5. CallCan(c)
    BY <1>0, <1>1, <2>2, <2>3 DEF CallCan, Opened, Speaks
  <2>6. c.op # "escalate" /\ c.pc # "emit" /\ deskCalls' = [deskCalls EXCEPT ![k] = c]
    BY <1>0, <2>1, <2>2
  <2> HIDE DEF y
  <2>7. deskCalls[k].pc # "emit" /\ (Opened(r.shown.id) => Opened(x.id))
    BY <1>0, <1>8
  <2> QED
    BY <1>0, <2>4, <2>5, <2>6, <2>7, CallMoved
<1>11. /\ x.status # "AI_ONLY" => x.id # Nothing
       /\ x.id # Nothing => Opened(x.id)
       /\ OwnerOf[s] = Nothing => x.status = "AI_ONLY"
       /\ losses' \in Nat
  BY <1>0, <1>1, <1>8
<1> QED
  BY <1>0, <1>1, <1>4, <1>6, <1>8, <1>9, <1>10, <1>11, WidgetShown

\* A press of a button is a call and nothing else.
LEMMA PressKeeps ==
  ASSUME Wired, DeskInv, NEW s \in On(DeskScreens), NEW k \in scene.calls, UNCHANGED scene,
         pressEscalate(s, k) \/ \E op \in {"claim", "reply", "resolve"} : pressThread(s, k, op)
  PROVE  Wired' /\ DeskInv' /\ screen' = screen
<1>1. UNCHANGED <<screen, losses, cases, stored, seen>> /\ deskCalls[k].pc = "idle" /\ losses \in Nat
      /\ screen[s].link # "closed"
  BY DEF pressEscalate, pressThread, channelVars, Wired
<1>2. PICK x : /\ deskCalls' = [deskCalls EXCEPT ![k] = x] /\ x.pc = "load"
               /\ CallOK(x) /\ CallCan(x) /\ CallSeen(x)
  <2>1. CASE pressEscalate(s, k)
    <3>1. PICK c : c = [IdleCall EXCEPT !.pc = "load", !.op = "escalate", !.from = s, !.id = screen[s].shown.id]
      OBVIOUS
    <3>2. /\ c.pc = "load" /\ c.op = "escalate" /\ c.from = s /\ c.id = screen[s].shown.id /\ c.body = Nothing
          /\ c.escalated = FALSE
          /\ c = [pc |-> c.pc, op |-> c.op, from |-> c.from, panel |-> c.panel, id |-> c.id, body |-> c.body,
                  read |-> c.read, earlier |-> c.earlier, reply |-> c.reply, escalated |-> c.escalated]
      BY <3>1 DEF IdleCall
    <3>3. DeskKind[s] = "widget" /\ OwnerOf[s] # Nothing /\ screen[s].shown.id # Nothing
          /\ deskCalls' = [deskCalls EXCEPT ![k] = c]
      BY <2>1, <3>1 DEF pressEscalate
    <3>4. Opened(screen[s].shown.id) /\ screen[s].shown.id \in Cases
      BY <1>1, <3>3, WidgetPage DEF Opened
    <3>5. CallOK(c)
      BY <3>2, <3>4 DEF CallOK, DESK_OPS
    <3>6. CallCan(c)
      BY <3>2, <3>3, <3>4 DEF CallCan, Speaks
    <3>7. CallSeen(c)
      BY <3>2, <3>4 DEF CallSeen
    <3> QED
      BY <3>2, <3>3, <3>5, <3>6, <3>7
  <2>2. CASE \E op \in {"claim", "reply", "resolve"} : pressThread(s, k, op)
    <3>0. PICK op \in {"claim", "reply", "resolve"} : pressThread(s, k, op)
      BY <2>2
    <3>1. PICK c : c = [IdleCall EXCEPT !.pc = "load", !.op = op, !.from = s, !.id = CaseOf[s],
                                        !.body = "says"]
      OBVIOUS
    <3>2. /\ c.pc = "load" /\ c.op = op /\ c.from = s /\ c.id = CaseOf[s] /\ c.body = "says"
          /\ c.escalated = FALSE
          /\ c = [pc |-> c.pc, op |-> c.op, from |-> c.from, panel |-> c.panel, id |-> c.id, body |-> c.body,
                  read |-> c.read, earlier |-> c.earlier, reply |-> c.reply, escalated |-> c.escalated]
      BY <3>1 DEF IdleCall
    <3>3. DeskKind[s] = "case" /\ deskCalls' = [deskCalls EXCEPT ![k] = c]
      BY <3>0, <3>1 DEF pressThread
    <3>4. Knows(CaseOf[s]) /\ CaseOf[s] \in Cases
      BY <1>1, <3>3, DeskPage DEF DeskScreenOK, Knows, Opened
    <3>5. CallOK(c)
      BY <3>2, <3>4 DEF CallOK, DESK_OPS, BODIES
    <3>6. CallCan(c)
      BY <3>2, <3>3, <3>4 DEF CallCan, Knows, Speaks, BODIES
    <3>7. CallSeen(c)
      BY <3>2 DEF CallSeen
    <3> QED
      BY <3>2, <3>3, <3>5, <3>6, <3>7
  <2> QED
    BY <2>1, <2>2
<1>3. /\ cases' = [c \in Cases |-> cases'[c]]
      /\ \A c \in Cases : CaseOK(c)' /\ (Knows(c) => Knows(c)') /\ (Opened(c) => Opened(c)')
      /\ listSessions' = listSessions
  BY <1>1, CasesStay
<1>4. CallCan(x)'
  BY <1>2, <1>3, CallCanStays
<1>5. losses' \in Nat /\ x.pc # "idle" /\ deskCalls[k].pc # "emit" /\ UNCHANGED <<screen, scene, stored, seen>>
  BY <1>1, <1>2
<1> QED
  BY <1>2, <1>3, <1>4, <1>5, DeskCall

\* A page of the desk asks again.
LEMMA InvalidatedDesk ==
  ASSUME NEW s \in On(DeskScreens), DeskKind[s] # "widget",
         NEW r, Holds(r), LineOK(s, r), Asking(r), Len(r.reads) <= 1,
         DeskKind[s] = "case" /\ r.link # "closed" => Knows(CaseOf[s]),
         DeskKind[s] = "queue" => r.behind \in BOOLEAN
  PROVE  LET q == invalidate(r)
         IN  Holds(q) /\ LineOK(s, q) /\ DeskScreenOK(s, q) /\ q.link = r.link
<1> DEFINE q == invalidate(r)
<1>1. /\ Holds(q) /\ SameButReads(q, r) /\ Asking(q)
      /\ q.reads # <<>> /\ Len(q.reads) = 1
      /\ ~Newest(q).served \/ Newest(q).overtaken
  BY InvalidateTells
<1> HIDE DEF q
<1>2. /\ q.link = r.link /\ q.rooms = r.rooms /\ q.joining = r.joining /\ q.inbox = r.inbox
      /\ q.behind = r.behind
  BY <1>1 DEF SameButReads
<1>3. LineOK(s, q)
  BY <1>2, LineStays
<1>4. QueueFollows(q)
  BY <1>1 DEF QueueFollows, QueueShows
<1>5. DeskScreenOK(s, q)
  BY <1>1, <1>2, <1>4 DEF DeskScreenOK
<1> QED
  BY <1>1, <1>2, <1>3, <1>5 DEF q

LEMMA DoneCall ==
  ASSUME DeskInv, NEW k \in scene.calls, deskCalls[k].pc \in {"answer", "refused"}, Step(k, "done")
  PROVE  \E x : /\ deskCalls' = [deskCalls EXCEPT ![k] = x] /\ CallOK(x) /\ CallCan(x) /\ CallSeen(x)
                /\ x.pc = "done" /\ deskCalls'[k] = x
                /\ \A j \in scene.calls \ {k} : deskCalls'[j] = deskCalls[j]
                /\ deskCalls' = [j \in scene.calls |-> deskCalls'[j]]
<1> DEFINE call == deskCalls[k]
<1>1. /\ CallOK(call) /\ CallCan(call) /\ deskCalls = [j \in scene.calls |-> deskCalls[j]]
  BY CallRow
<1>2. PICK x : x = [call EXCEPT !.pc = "done"]
  OBVIOUS
<1>3. deskCalls' = [deskCalls EXCEPT ![k] = x]
  BY <1>1, <1>2 DEF Step
<1> HIDE DEF call
<1>4. /\ x.pc = "done" /\ x.op = call.op /\ x.from = call.from /\ x.panel = call.panel /\ x.id = call.id
      /\ x.body = call.body /\ x.read = call.read /\ x.earlier = call.earlier /\ x.reply = call.reply
      /\ x.escalated = call.escalated
      /\ x = [pc |-> x.pc, op |-> x.op, from |-> x.from, panel |-> x.panel, id |-> x.id, body |-> x.body,
              read |-> x.read, earlier |-> x.earlier, reply |-> x.reply, escalated |-> x.escalated]
  BY <1>1, <1>2 DEF CallOK
<1>5. CallOK(x)
  BY <1>1, <1>4 DEF CallOK, call
<1>6. CallCan(x)
  BY <1>1, <1>4 DEF CallCan, Speaks, call
<1>7. CallSeen(x)
  BY <1>4 DEF CallSeen
<1>8. deskCalls'[k] = x /\ (\A j \in scene.calls \ {k} : deskCalls'[j] = deskCalls[j])
      /\ deskCalls' = [j \in scene.calls |-> deskCalls'[j]]
  BY <1>1, <1>3
<1> QED
  BY <1>3, <1>4, <1>5, <1>6, <1>7, <1>8

LEMMA ThreadAnswered ==
  ASSUME Wired, DeskInv, NEW k \in scene.calls, deskCalls[k].pc = "answer",
         UNCHANGED <<scene, cases, stored, seen, losses>>,
         NEW y, deskCalls' = [deskCalls EXCEPT ![k] = y], CallOK(y), CallCan(y), y.pc = "done",
         NEW s \in On(DeskScreens), DeskKind[s] = "case",
         screen' = [t \in DOMAIN screen |-> IF t = s \/ t \in Queues(s)
                                              THEN invalidate(screen[t]) ELSE screen[t]]
  PROVE  Wired' /\ DeskInv' /\ \A t \in scene.screens \ DeskScreens : screen'[t] = screen[t]
<1>0. /\ deskCalls' = [j \in scene.calls |-> deskCalls'[j]] /\ deskCalls'[k] = y
      /\ \A j \in scene.calls \ {k} : deskCalls'[j] = deskCalls[j]
  BY CallRow
<1>1. s \in scene.screens /\ losses \in Nat
  BY DEF Wired, On
<1>2. /\ screen = [t \in scene.screens |-> screen[t]] /\ seen = [t \in On(DeskScreens) |-> seen[t]]
      /\ \A t \in On(DeskScreens) : seen[t] = [c \in Cases |-> seen[t][c]]
      /\ stored \in [{t \in On(DeskScreens) : DeskKind[t] = "widget"} -> Cases \cup {Nothing}]
  BY DEF Wired, DeskInv, DeskRows
<1>3. ASSUME NEW t \in On(DeskScreens), DeskKind[t] # "widget"
      PROVE  /\ Holds(invalidate(screen[t])) /\ LineOK(t, invalidate(screen[t]))
             /\ DeskScreenOK(t, invalidate(screen[t]))
  <2>1. /\ Holds(screen[t]) /\ LineOK(t, screen[t]) /\ DeskScreenOK(t, screen[t])
        /\ Asking(screen[t]) /\ Len(screen[t].reads) <= 1
    BY DeskPage
  <2>2. /\ DeskKind[t] = "case" /\ screen[t].link # "closed" => Knows(CaseOf[t])
        /\ DeskKind[t] = "queue" => screen[t].behind \in BOOLEAN
    BY <2>1 DEF DeskScreenOK
  <2> QED
    BY <1>3, <2>1, <2>2, InvalidatedDesk
<1>4. /\ screen' = [t \in scene.screens |-> screen'[t]] /\ screen'[s] = invalidate(screen[s])
      /\ \A t \in scene.screens : \/ screen'[t] = screen[t]
                                  \/ t \in {s} \cup Queues(s) /\ screen'[t] = invalidate(screen[t])
  BY <1>1, <1>2
<1>5. \A t \in Queues(s) : t \in On(DeskScreens) /\ DeskKind[t] = "queue"
  BY <1>2 DEF Queues
<1>6. \A t \in scene.screens \ {s} :
         \/ screen'[t] = screen[t]
         \/ t \in On(DeskScreens) /\ DeskKind[t] = "queue" /\ Holds(screen'[t]) /\ LineOK(t, screen'[t])
            /\ DeskScreenOK(t, screen'[t])
  <2> TAKE t \in scene.screens \ {s}
  <2>1. CASE screen'[t] = screen[t]
    BY <2>1
  <2>2. CASE t \in Queues(s) /\ screen'[t] = invalidate(screen[t])
    <3>1. t \in On(DeskScreens) /\ DeskKind[t] = "queue"
      BY <1>5, <2>2
    <3> QED
      BY <1>3, <2>2, <3>1
  <2> QED
    BY <1>4, <2>1, <2>2
<1>7. Holds(screen'[s]) /\ LineOK(s, screen'[s]) /\ DeskScreenOK(s, screen'[s])
  BY <1>1, <1>3, <1>4
<1>8. DeskScreenOK(s, screen[s])'
  <2>1. PICK q : q = screen'[s]
    OBVIOUS
  <2>2. DeskScreenOK(s, q)
    BY <1>7, <2>1
  <2>3. DeskScreenOK(s, q)'
    BY <1>1, <2>2 DEF DeskScreenOK, Knows, Opened, Asking
  <2> QED
    BY <2>1, <2>3
<1>9. \A j \in scene.calls :
         /\ CallOK(deskCalls'[j]) /\ (deskCalls'[j].pc # "idle" => CallCan(deskCalls'[j]))
         /\ deskCalls'[j].pc = "emit" <=> deskCalls[j].pc = "emit"
         /\ deskCalls'[j].op = "escalate" /\ deskCalls'[j].pc \notin {"idle", "done"} =>
              IF deskCalls'[j].from = s THEN screen'[s].link # "closed" => Opened(screen'[s].shown.id)
              ELSE /\ deskCalls[j].op = "escalate" /\ deskCalls[j].pc \notin {"idle", "done"}
                   /\ deskCalls[j].from = deskCalls'[j].from
  <2> TAKE j \in scene.calls
  <2>1. CASE j = k
    BY <1>0, <2>1
  <2>2. CASE j # k
    <3>1. deskCalls'[j] = deskCalls[j] /\ CallOK(deskCalls[j])
          /\ (deskCalls[j].pc # "idle" => CallCan(deskCalls[j]))
      BY <1>0, <2>2, CallRow
    <3>2. deskCalls[j].op = "escalate" /\ deskCalls[j].pc # "idle" => deskCalls[j].from # s
      BY <1>1, <3>1 DEF CallCan
    <3> QED
      BY <3>1, <3>2
  <2> QED
    BY <2>1, <2>2
<1>10. /\ DOMAIN stored' = DOMAIN stored /\ (\A t \in DOMAIN stored : stored'[t] = stored[t])
       /\ stored' = [t \in DOMAIN stored' |-> stored'[t]]
       /\ seen' = [t \in On(DeskScreens) |-> seen'[t]]
       /\ \A t \in On(DeskScreens) : seen'[t] = [c \in Cases |-> seen'[t][c]]
       /\ \A t \in On(DeskScreens) \ {s} : DeskKind[t] = "widget" => seen'[t] = seen[t]
       /\ losses' \in Nat
  BY <1>1, <1>2
<1> QED
  BY <1>0, <1>4, <1>6, <1>7, <1>8, <1>9, <1>10, DeskMoves

LEMMA AnswerCallKeeps ==
  ASSUME Wired, DeskInv, NEW k \in scene.calls, AnswerCall(k), UNCHANGED scene
  PROVE  Wired' /\ DeskInv' /\ \A t \in scene.screens \ DeskScreens : screen'[t] = screen[t]
<1> DEFINE call == deskCalls[k]
           s == call.from
           r == screen[s]
           w == r.shown
<1>0. /\ UNCHANGED <<losses, cases>> /\ call.pc \in {"answer", "refused"} /\ losses \in Nat
      /\ Step(k, "done")
  BY DEF AnswerCall, Wired
<1>1. /\ CallOK(call) /\ CallCan(call) /\ CallSeen(call) /\ s \in On(DeskScreens) /\ call.op \in DESK_OPS
  BY <1>0, CallRow DEF CallOK
<1>2. PICK y : /\ deskCalls' = [deskCalls EXCEPT ![k] = y] /\ CallOK(y) /\ CallCan(y) /\ CallSeen(y)
               /\ y.pc = "done" /\ deskCalls'[k] = y
               /\ \A j \in scene.calls \ {k} : deskCalls'[j] = deskCalls[j]
               /\ deskCalls' = [j \in scene.calls |-> deskCalls'[j]]
  BY <1>0, DoneCall
<1>3. CASE call.pc = "refused" \/ r.link = "closed" \/ call.op = "tell"
  <2>1. UNCHANGED <<screen, stored, seen>>
    BY <1>0, <1>3 DEF AnswerCall, DESK_OPS
  <2>2. /\ cases' = [c \in Cases |-> cases'[c]]
        /\ \A c \in Cases : CaseOK(c)' /\ (Knows(c) => Knows(c)') /\ (Opened(c) => Opened(c)')
        /\ listSessions' = listSessions
    BY <1>0, CasesStay
  <2>3. CallCan(y)'
    BY <1>2, <2>2, CallCanStays
  <2>4. losses' \in Nat /\ y.pc # "idle" /\ call.pc # "emit"
    BY <1>0, <1>2
  <2>5. Wired' /\ DeskInv' /\ screen' = screen
    BY <1>2, <2>1, <2>2, <2>3, <2>4, DeskCall
  <2> QED
    BY <2>5
<1>4. CASE call.pc = "answer" /\ r.link # "closed" /\ call.op = "ask"
  <2>0. DeskKind[s] = "widget"
    BY <1>1, <1>4 DEF CallCan
  <2>1. /\ Holds(r) /\ LineOK(s, r) /\ w \in Widget
        /\ w.status # "AI_ONLY" => w.id # Nothing
        /\ OwnerOf[s] = Nothing => w.status = "AI_ONLY"
    BY <1>1, <1>4, <2>0, WidgetPage
  <2>2. /\ call.reply \in Utterance /\ call.reply.role = "ASSISTANT"
        /\ call.id # Nothing => Opened(call.id)
        /\ OwnerOf[s] # Nothing => Opened(call.id)
        /\ call.id \in Cases \cup {Nothing} /\ call.escalated \in BOOLEAN
    BY <1>1, <1>4 DEF CallCan, CallOK
  <2>3. PICK e \in BOOLEAN : e = IF call.panel THEN call.escalated ELSE w.escalated
    <3>1. w.escalated \in BOOLEAN
      BY <2>1 DEF Widget
    <3> QED
      BY <2>2, <3>1
  <2>4. PICK x : x = [w EXCEPT !.id = call.id, !.entries = Append(w.entries, call.reply), !.escalated = e]
    OBVIOUS
  <2>5. PICK q : q = [r EXCEPT !.shown = x]
    OBVIOUS
  <2>6. PutWidget(s, q)
    <3>1. PutWidget(s, [r EXCEPT !.shown = [w EXCEPT !.id = call.id, !.entries = Append(@, call.reply),
                          !.escalated = IF call.panel THEN call.escalated ELSE w.escalated]])
      BY <1>4 DEF AnswerCall
    <3> QED
      BY <2>3, <2>4, <2>5, <3>1
  <2>7. /\ Append(w.entries, call.reply) \in Seq(Utterance) /\ Append(w.entries, call.reply) # <<>>
        /\ Last(Append(w.entries, call.reply)) = call.reply
    <3>1. w.entries \in Seq(Utterance)
      <4>1. w \in Widget
        BY <2>1
      <4> QED
        BY <4>1 DEF Widget
    <3> QED
      BY <2>2, <3>1, AppendedFacts
  <2>8. x \in Widget /\ x.id = call.id /\ x.status = w.status /\ x.entries = Append(w.entries, call.reply)
    <3>1. PICK l : l = Append(w.entries, call.reply)
      OBVIOUS
    <3>2. x = [w EXCEPT !.id = call.id, !.entries = l, !.escalated = e] /\ l \in Seq(Utterance)
      BY <2>4, <2>7, <3>1
    <3>3. x \in Widget /\ x.id = call.id /\ x.status = w.status /\ x.entries = l
      BY <2>1, <2>2, <3>2 DEF Widget
    <3> QED
      BY <3>1, <3>3
  <2>9. Noticed(s, x)
    BY <2>2, <2>7, <2>8 DEF Noticed
  <2>10. CallsMove(s, x.id)
    <3>1. /\ OwnerOf[s] = Nothing \/ (Opened(w.id) => Opened(x.id))
          /\ y.pc # "emit" /\ call.pc # "emit" /\ y.pc = "done"
      BY <1>0, <1>2, <2>2, <2>8
    <3> QED
      BY <1>2, <1>4, <3>1, CallMoved
  <2>11. /\ x.status # "AI_ONLY" => x.id # Nothing
         /\ x.id # Nothing => Opened(x.id)
         /\ OwnerOf[s] = Nothing => x.status = "AI_ONLY"
         /\ losses' \in Nat
    BY <1>0, <2>1, <2>2, <2>8, DeskAssumption DEF Opened
  <2> HIDE DEF call
  <2> QED
    BY <1>0, <1>1, <1>4, <2>0, <2>1, <2>5, <2>6, <2>8, <2>9, <2>10, <2>11, WidgetShown
<1>5. CASE call.pc = "answer" /\ r.link # "closed" /\ call.op = "escalate"
  <2>0. DeskKind[s] = "widget" /\ OwnerOf[s] # Nothing /\ call.read.status \in STATUSES
        /\ Opened(w.id)
    BY <1>1, <1>5 DEF CallCan, CallSeen
  <2>1. Holds(r) /\ LineOK(s, r) /\ w \in Widget /\ Noticed(s, w)
    BY <1>1, <1>5, <2>0, WidgetPage
  <2>4. PICK x : x = [w EXCEPT !.status = call.read.status]
    OBVIOUS
  <2>5. PICK q : q = [r EXCEPT !.shown = x]
    OBVIOUS
  <2>6. PutWidget(s, q)
    <3>1. PutWidget(s, [r EXCEPT !.shown.status = call.read.status])
      BY <1>5 DEF AnswerCall
    <3> QED
      BY <2>4, <2>5, <3>1
  <2>8. x \in Widget /\ x.id = w.id /\ x.entries = w.entries /\ x.unread = w.unread
    BY <2>0, <2>1, <2>4 DEF Widget
  <2>9. Noticed(s, x)
    BY <2>1, <2>8 DEF Noticed
  <2>10. CallsMove(s, x.id)
    <3>1. /\ Opened(w.id) => Opened(x.id)
          /\ y.pc # "emit" /\ call.pc # "emit" /\ y.pc = "done"
      BY <1>0, <1>2, <2>8
    <3> QED
      BY <1>2, <1>5, <3>1, CallMoved
  <2>11. /\ x.status # "AI_ONLY" => x.id # Nothing
         /\ x.id # Nothing => Opened(x.id)
         /\ OwnerOf[s] = Nothing => x.status = "AI_ONLY"
         /\ losses' \in Nat
    BY <1>0, <2>0, <2>8, DeskAssumption DEF Opened
  <2> HIDE DEF call
  <2> QED
    BY <1>0, <1>1, <1>5, <2>0, <2>1, <2>5, <2>6, <2>8, <2>9, <2>10, <2>11, WidgetShown
<1>6. CASE call.pc = "answer" /\ r.link # "closed" /\ call.op \in {"claim", "reply", "resolve"}
  <2>0. /\ screen' = [t \in DOMAIN screen |-> IF t = s \/ t \in Queues(s)
                                                THEN invalidate(screen[t]) ELSE screen[t]]
        /\ UNCHANGED <<stored, seen>>
    BY <1>6 DEF AnswerCall
  <2>1. DeskKind[s] = "case"
    BY <1>1, <1>6 DEF CallCan
  <2>2. PICK u : u = s
    OBVIOUS
  <2> HIDE DEF s
  <2>3. /\ u \in On(DeskScreens) /\ DeskKind[u] = "case" /\ call.pc = "answer"
        /\ screen' = [t \in DOMAIN screen |-> IF t = u \/ t \in Queues(u)
                                                THEN invalidate(screen[t]) ELSE screen[t]]
    BY <1>1, <1>6, <2>0, <2>1, <2>2
  <2> QED
    BY <1>0, <1>2, <2>0, <2>3, ThreadAnswered
<1> QED
  BY <1>0, <1>1, <1>3, <1>4, <1>5, <1>6 DEF DESK_OPS

\* The pages of an administrator.
LEMMA DeskPageMoves ==
  ASSUME Wired, DeskInv, NEW s \in On(DeskScreens), DeskKind[s] # "widget", NEW new, Put(s, new),
         Holds(new), LineOK(s, new), DeskScreenOK(s, new),
         UNCHANGED <<scene, cases, seen, stored>>, losses' \in Nat,
         deskCalls' = deskCalls \/ deskCalls' = PanelGone(s)
  PROVE  Wired' /\ DeskInv' /\ \A t \in scene.screens \ DeskScreens : screen'[t] = screen[t]
BY DeskOne

LEMMA MountDeskKeeps ==
  ASSUME Wired, DeskInv, NEW s \in On(DeskScreens), MountDesk(s), UNCHANGED scene
  PROVE  Wired' /\ DeskInv' /\ \A t \in scene.screens \ DeskScreens : screen'[t] = screen[t]
<1>0. /\ DeskKind[s] # "widget" /\ UNCHANGED <<losses, cases, deskCalls, stored, seen>>
      /\ DeskKind[s] = "case" => cases[CaseOf[s]].status \in {"ESCALATED", "RESOLVED"}
      /\ losses \in Nat
  BY DEF MountDesk, deskVars, Wired
<1>1. PICK q : q = <<Request("query")>>
  OBVIOUS
<1>2. PICK new : new = [Closed EXCEPT !.link = "down", !.reads = q]
  OBVIOUS
<1>3. Put(s, new)
  BY <1>1, <1>2 DEF MountDesk
<1>4. /\ Holds(new) /\ new.link = "down" /\ new.rooms = {} /\ new.joining = {} /\ new.inbox = <<>>
      /\ new.reads = q /\ new.behind = FALSE
  BY <1>2, ClosedFacts DEF Holds, LINKS
<1>5. LineOK(s, new)
  BY <1>4, EmptyLine
<1>6. Asking(new) /\ Len(new.reads) <= 1
  <2>1. /\ IsList(q) /\ Len(q) = 1 /\ \A i \in DOMAIN q : q[i] = Request("query")
    BY <1>1, OneRequest
  <2>2. Requested(Request("query"))
    BY RequestIsOne
  <2> QED
    BY <1>4, <2>1, <2>2 DEF Asking
<1>7. DeskKind[s] = "case" => Knows(CaseOf[s])
  <2>1. DeskKind[s] = "case" => CaseOf[s] \in Cases
    BY DeskAssumption DEF On
  <2> QED
    BY <1>0, <2>1 DEF DeskInv, DeskRows, CaseOK, Knows, Opened
<1>8. DeskScreenOK(s, new)
  BY <1>0, <1>4, <1>6, <1>7 DEF DeskScreenOK, QueueFollows
<1>9. losses' \in Nat
  BY <1>0
<1> QED
  BY <1>0, <1>3, <1>4, <1>5, <1>8, <1>9, DeskPageMoves

LEMMA ServeDeskKeeps ==
  ASSUME Wired, DeskInv, NEW s \in On(DeskScreens), ServeDesk(s), UNCHANGED scene
  PROVE  Wired' /\ DeskInv' /\ \A t \in scene.screens \ DeskScreens : screen'[t] = screen[t]
<1> DEFINE r == screen[s]
<1>0. /\ DeskKind[s] # "widget" /\ UNCHANGED <<losses, cases, deskCalls, stored, seen>> /\ r.reads # <<>>
  BY DEF ServeDesk, deskVars
<1>1. /\ Holds(r) /\ LineOK(s, r) /\ DeskScreenOK(s, r) /\ Asking(r) /\ Len(r.reads) <= 1 /\ losses \in Nat
  BY DeskPage
<1>2. DOMAIN r.reads = {1} /\ 1 \in DOMAIN r.reads /\ Len(r.reads) = 1
  BY <1>0, <1>1, OneRead DEF Asking
<1>3. PICK v : v = IF DeskKind[s] = "queue" THEN listSessions ELSE getSession(CaseOf[s])
  OBVIOUS
<1>4. PICK new : new = Served(r, 1, v)
  OBVIOUS
<1>5. Put(s, new)
  BY <1>3, <1>4 DEF ServeDesk
<1> HIDE DEF r
<1>6. /\ Holds(new) /\ SameButReads(new, r) /\ Asking(new) /\ Len(new.reads) = Len(r.reads)
      /\ \A k \in DOMAIN new.reads : new.reads[k] = r.reads[k] \/ new.reads[k].value = v
      /\ new.reads # <<>> /\ DOMAIN new.reads = DOMAIN r.reads
  BY <1>1, <1>2, <1>4, ServedTells
<1>7. /\ new.link = r.link /\ new.rooms = r.rooms /\ new.joining = r.joining /\ new.inbox = r.inbox
      /\ new.behind = r.behind
  BY <1>6 DEF SameButReads
<1>8. LineOK(s, new)
  BY <1>1, <1>7, LineStays
<1>9. DeskKind[s] = "queue" => QueueFollows(new)
  <2>1. new.reads[1].value = v
    BY <1>2, <1>4, <1>1 DEF Served, Asking, Requested, Holds
  <2>2. Newest(new) = new.reads[1]
    BY <1>2, <1>6 DEF Newest
  <2> QED
    BY <1>3, <1>6, <2>1, <2>2 DEF QueueFollows, QueueShows
<1>10. DeskScreenOK(s, new)
  BY <1>0, <1>1, <1>2, <1>6, <1>7, <1>9 DEF DeskScreenOK
<1>11. losses' \in Nat
  BY <1>0, <1>1
<1> QED
  BY <1>0, <1>5, <1>6, <1>8, <1>10, <1>11, DeskPageMoves

LEMMA LeaveDeskKeeps ==
  ASSUME Wired, DeskInv, NEW s \in On(DeskScreens), LeaveDesk(s), UNCHANGED scene
  PROVE  Wired' /\ DeskInv' /\ \A t \in scene.screens \ DeskScreens : screen'[t] = screen[t]
<1>0. /\ losses' = losses + 1 /\ Put(s, Closed) /\ UNCHANGED <<cases, stored, seen>> /\ deskCalls' = PanelGone(s)
      /\ losses \in Nat
  BY DEF LeaveDesk, Unmount, Wired
<1>1. PICK new : new = Closed
  OBVIOUS
<1>2. /\ Holds(new) /\ new.link = "closed" /\ new.rooms = {} /\ new.joining = {} /\ new.inbox = <<>>
      /\ new.reads = <<>> /\ new.behind = FALSE
  BY <1>1, ClosedFacts
<1>3. LineOK(s, new)
  BY <1>2, EmptyLine
<1>4. Asking(new) /\ Len(new.reads) <= 1 /\ DOMAIN new.reads = {}
  BY <1>2, NoRequest
<1>5. DeskScreenOK(s, new)
  BY <1>2, <1>4 DEF DeskScreenOK, WidgetOK, QueueFollows
<1>6. losses' \in Nat /\ Put(s, new)
  BY <1>0, <1>1
<1> QED
  BY <1>0, <1>2, <1>3, <1>5, <1>6, DeskOne

LEMMA LoseDeskKeeps ==
  ASSUME Wired, DeskInv, NEW s \in On(DeskScreens), DeskKind[s] # "widget",
         LoseRead(s, LAMBDA what : FALSE), UNCHANGED <<deskVars, scene>>
  PROVE  Wired' /\ DeskInv' /\ \A t \in scene.screens \ DeskScreens : screen'[t] = screen[t]
<1> DEFINE r == screen[s]
<1>0. losses' = losses + 1 /\ UNCHANGED <<cases, deskCalls, stored, seen>>
  BY DEF LoseRead, deskVars
<1>1. /\ Holds(r) /\ LineOK(s, r) /\ DeskScreenOK(s, r) /\ Asking(r) /\ Len(r.reads) <= 1 /\ losses \in Nat
  BY DeskPage
<1>2. PICK i \in DOMAIN r.reads : \E f : Put(s, Lost(r, i, f))
  BY DEF LoseRead, Lost
<1>3. PICK f : Put(s, Lost(r, i, f))
  BY <1>2
<1>4. PICK new : new = Lost(r, i, f)
  OBVIOUS
<1>5. Put(s, new)
  BY <1>3, <1>4
<1> HIDE DEF r
<1>6. /\ Holds(new) /\ Asking(new) /\ new.behind = TRUE
      /\ new.link = r.link /\ new.rooms = r.rooms /\ new.joining = r.joining /\ new.inbox = r.inbox
      /\ r.reads # <<>> /\ Len(new.reads) = Len(r.reads) - 1
  <2>1. LostOne(Lost(r, i, f), r)
    BY <1>1, LostTells
  <2>2. LostOne(new, r)
    BY <1>4, <2>1
  <2> QED
    BY <2>2 DEF LostOne
<1>7. new.reads = <<>> /\ Len(new.reads) <= 1
  BY <1>1, <1>6, SeqFacts DEF Asking
<1>8. LineOK(s, new)
  BY <1>1, <1>6, LineStays
<1>9. DeskScreenOK(s, new)
  BY <1>1, <1>6, <1>7 DEF DeskScreenOK, QueueFollows, QueueShows
<1>10. losses' \in Nat
  BY <1>0, <1>1
<1> QED
  BY <1>0, <1>5, <1>6, <1>8, <1>9, <1>10, DeskPageMoves

\* A thread changes, and what it shows last is seen.
LEMMA ThreadPut ==
  ASSUME Wired, DeskInv, NEW s \in On(DeskScreens), DeskKind[s] = "case", NEW r, PutThread(s, r),
         Holds(r), LineOK(s, r), DeskScreenOK(s, r),
         UNCHANGED <<scene, cases, deskCalls, stored>>, losses' \in Nat
  PROVE  Wired' /\ DeskInv' /\ \A t \in scene.screens \ DeskScreens : screen'[t] = screen[t]
<1>0. /\ deskCalls = [j \in scene.calls |-> deskCalls[j]] /\ s \in scene.screens
      /\ \A j \in scene.calls : CallOK(deskCalls[j]) /\ (deskCalls[j].pc # "idle" => CallCan(deskCalls[j]))
  BY CallRow DEF DeskInv, DeskRows, On
<1> DEFINE now == threadMessages(r)
           new == now # <<>> /\ seen[s][CaseOf[s]] # Last(now).id
           last == Last(now).id
<1>1.   /\ seen' = IF new THEN [t \in DOMAIN seen |->
                             IF OwnerOf[t] = OwnerOf[s] THEN [seen[t] EXCEPT ![CaseOf[s]] = last]
                             ELSE seen[t]]
                   ELSE seen
        /\ screen' = [t \in DOMAIN screen |->
             CASE t = s -> r
               [] t \in Queues(s) /\ new -> invalidate(screen[t])
               [] OTHER -> screen[t]]
  BY DEF PutThread
<1> HIDE DEF now, new, last
<1>2. /\ screen = [t \in scene.screens |-> screen[t]] /\ seen = [t \in On(DeskScreens) |-> seen[t]]
      /\ \A t \in On(DeskScreens) : seen[t] = [c \in Cases |-> seen[t][c]]
      /\ stored \in [{t \in On(DeskScreens) : DeskKind[t] = "widget"} -> Cases \cup {Nothing}]
  BY DEF Wired, DeskInv, DeskRows
<1>3. ASSUME NEW t \in On(DeskScreens), DeskKind[t] # "widget"
      PROVE  /\ Holds(invalidate(screen[t])) /\ LineOK(t, invalidate(screen[t]))
             /\ DeskScreenOK(t, invalidate(screen[t]))
  <2>1. /\ Holds(screen[t]) /\ LineOK(t, screen[t]) /\ DeskScreenOK(t, screen[t])
        /\ Asking(screen[t]) /\ Len(screen[t].reads) <= 1
    BY DeskPage
  <2>2. /\ DeskKind[t] = "case" /\ screen[t].link # "closed" => Knows(CaseOf[t])
        /\ DeskKind[t] = "queue" => screen[t].behind \in BOOLEAN
    BY <2>1 DEF DeskScreenOK
  <2> QED
    BY <1>3, <2>1, <2>2, InvalidatedDesk
<1>4. /\ screen' = [t \in scene.screens |-> screen'[t]] /\ screen'[s] = r
      /\ \A t \in scene.screens \ {s} : \/ screen'[t] = screen[t]
                                        \/ t \in Queues(s) /\ screen'[t] = invalidate(screen[t])
  <2>1. screen' = [t \in scene.screens |-> CASE t = s -> r
                                             [] t \in Queues(s) /\ new -> invalidate(screen[t])
                                             [] OTHER -> screen[t]]
    BY <1>1, <1>2
  <2>2. s \notin Queues(s)
    BY DEF Queues
  <2>3. screen'[s] = r
    BY <1>0, <2>1, <2>2
  <2>4. ASSUME NEW t \in scene.screens \ {s}
        PROVE  \/ screen'[t] = screen[t]
               \/ t \in Queues(s) /\ screen'[t] = invalidate(screen[t])
    <3>1. CASE t \in Queues(s) /\ new
      BY <2>1, <3>1
    <3>2. CASE ~(t \in Queues(s) /\ new)
      BY <2>1, <3>2
    <3> QED
      BY <3>1, <3>2
  <2>5. screen' = [t \in scene.screens |-> screen'[t]]
    BY <2>1
  <2> QED
    BY <2>3, <2>4, <2>5
<1>5. \A t \in Queues(s) : t \in On(DeskScreens) /\ DeskKind[t] = "queue"
  BY <1>2 DEF Queues
<1>6. \A t \in scene.screens \ {s} :
         \/ screen'[t] = screen[t]
         \/ t \in On(DeskScreens) /\ DeskKind[t] = "queue" /\ Holds(screen'[t]) /\ LineOK(t, screen'[t])
            /\ DeskScreenOK(t, screen'[t])
  <2> TAKE t \in scene.screens \ {s}
  <2>1. CASE screen'[t] = screen[t]
    BY <2>1
  <2>2. CASE t \in Queues(s) /\ screen'[t] = invalidate(screen[t])
    <3>1. t \in On(DeskScreens) /\ DeskKind[t] = "queue"
      BY <1>5, <2>2
    <3> QED
      BY <1>3, <2>2, <3>1
  <2> QED
    BY <1>4, <2>1, <2>2
<1>7. Holds(screen'[s]) /\ LineOK(s, screen'[s])
  BY <1>4
<1>8. DeskScreenOK(s, screen[s])'
  <2>1. DeskScreenOK(s, r)'
    BY DEF DeskScreenOK, Knows, Opened, Asking
  <2> QED
    BY <1>4, <2>1
<1>9. \A j \in scene.calls :
         /\ CallOK(deskCalls'[j]) /\ (deskCalls'[j].pc # "idle" => CallCan(deskCalls'[j]))
         /\ deskCalls'[j].pc = "emit" <=> deskCalls[j].pc = "emit"
         /\ deskCalls'[j].op = "escalate" /\ deskCalls'[j].pc \notin {"idle", "done"} =>
              IF deskCalls'[j].from = s THEN screen'[s].link # "closed" => Opened(screen'[s].shown.id)
              ELSE /\ deskCalls[j].op = "escalate" /\ deskCalls[j].pc \notin {"idle", "done"}
                   /\ deskCalls[j].from = deskCalls'[j].from
  <2> TAKE j \in scene.calls
  <2>1. deskCalls[j].op = "escalate" /\ deskCalls[j].pc # "idle" => deskCalls[j].from # s
    BY <1>0 DEF CallCan
  <2> QED
    BY <1>0, <2>1
<1>10. /\ DOMAIN stored' = DOMAIN stored /\ (\A t \in DOMAIN stored : stored'[t] = stored[t])
       /\ stored' = [t \in DOMAIN stored' |-> stored'[t]]
  BY <1>2
<1>11. /\ seen' = [t \in On(DeskScreens) |-> seen'[t]]
       /\ \A t \in On(DeskScreens) : seen'[t] = [c \in Cases |-> seen'[t][c]]
       /\ \A t \in On(DeskScreens) \ {s} : DeskKind[t] = "widget" => seen'[t] = seen[t]
  <2>1. \A t \in On(DeskScreens) : DeskKind[t] = "widget" => OwnerOf[s] # OwnerOf[t]
    BY DeskAssumption DEF On
  <2>2. CASE new
    <3>1. seen' = [t \in On(DeskScreens) |->
                     IF OwnerOf[t] = OwnerOf[s] THEN [seen[t] EXCEPT ![CaseOf[s]] = last] ELSE seen[t]]
      BY <1>1, <1>2, <2>2
    <3>2. ASSUME NEW t \in On(DeskScreens)
          PROVE  seen'[t] = [c \in Cases |-> seen'[t][c]]
      <4>1. CASE OwnerOf[t] = OwnerOf[s]
        <5>1. PICK m : m = seen[t]
          OBVIOUS
        <5>2. seen'[t] = [m EXCEPT ![CaseOf[s]] = last] /\ m = [c \in Cases |-> m[c]]
          BY <1>2, <3>1, <4>1, <5>1
        <5> QED
          BY <5>2
      <4>2. CASE OwnerOf[t] # OwnerOf[s]
        BY <1>2, <3>1, <4>2
      <4> QED
        BY <4>1, <4>2
    <3> QED
      BY <2>1, <3>1, <3>2
  <2>3. CASE ~new
    BY <1>1, <1>2, <2>3
  <2> QED
    BY <2>2, <2>3
<1>12. deskCalls' = [k \in scene.calls |-> deskCalls'[k]]
  BY <1>0
<1> QED
  BY <1>4, <1>6, <1>7, <1>8, <1>9, <1>10, <1>11, <1>12, DeskMoves

LEMMA ShowDeskKeeps ==
  ASSUME Wired, DeskInv, NEW s \in On(DeskScreens), ShowDesk(s), UNCHANGED scene
  PROVE  Wired' /\ DeskInv' /\ \A t \in scene.screens \ DeskScreens : screen'[t] = screen[t]
<1> DEFINE r == screen[s]
           v == r.reads[1].value
<1>0. /\ DeskKind[s] # "widget" /\ UNCHANGED <<losses, cases, deskCalls, stored>> /\ r.reads # <<>>
      /\ r.reads[1].served
  BY DEF ShowDesk
<1>1. /\ Holds(r) /\ LineOK(s, r) /\ DeskScreenOK(s, r) /\ Asking(r) /\ Len(r.reads) <= 1 /\ losses \in Nat
      /\ DeskKind[s] \in {"widget", "case", "queue"}
  BY DeskPage
<1>2. DOMAIN r.reads = {1} /\ 1 \in DOMAIN r.reads /\ Len(r.reads) = 1
  BY <1>0, <1>1, OneRead DEF Asking
<1>3. PICK new : new = Arrived(r, 1, v)
  OBVIOUS
<1>4. IF DeskKind[s] = "case" THEN PutThread(s, new) ELSE Put(s, new) /\ UNCHANGED seen
  BY <1>3 DEF ShowDesk
<1> HIDE DEF r, v
<1>5. /\ Holds(new) /\ Asking(new) /\ new.behind \in BOOLEAN
      /\ new.link = r.link /\ new.rooms = r.rooms /\ new.joining = r.joining /\ new.inbox = r.inbox
      /\ new.shown = v /\ Len(new.reads) = Len(r.reads) - 1
      /\ new.reads = <<>> /\ ~new.behind => Newest(r) = r.reads[1] /\ ~Newest(r).overtaken
  <2>1. LET q == Arrived(r, 1, v)
        IN  /\ Holds(q) /\ Asking(q) /\ q.behind \in BOOLEAN
            /\ q.link = r.link /\ q.rooms = r.rooms /\ q.joining = r.joining /\ q.inbox = r.inbox
            /\ q.shown = v /\ Len(q.reads) = Len(r.reads) - 1
            /\ q.reads = <<>> /\ ~q.behind => Newest(r) = r.reads[1] /\ ~Newest(r).overtaken
    <3>1. Holds(r) /\ Asking(r)
      BY <1>1
    <3>2. 1 \in DOMAIN r.reads
      BY <1>2
    <3> QED
      BY <3>1, <3>2, ArrivedTells
  <2> QED
    BY <1>3, <2>1
<1>6. new.reads = <<>> /\ Len(new.reads) <= 1
  BY <1>2, <1>5, SeqFacts DEF Asking
<1>7. LineOK(s, new)
  BY <1>1, <1>5, LineStays
<1>8. DeskKind[s] = "queue" => QueueFollows(new)
  <2>1. SUFFICES ASSUME DeskKind[s] = "queue", new.link = "up", ~News(new, useSupportInboxChannel),
                        \A k \in scene.calls : deskCalls[k].pc # "emit", ~new.behind
                 PROVE  new.shown = listSessions
    BY <1>6 DEF QueueFollows, QueueShows
  <2>2. QueueShows(r)
    BY <1>1, <1>5, <2>1 DEF DeskScreenOK, QueueFollows, News
  <2>3. Newest(r) = r.reads[1] /\ ~Newest(r).overtaken /\ Newest(r).served
    BY <1>0, <1>5, <1>6, <2>1
  <2> QED
    BY <1>0, <1>5, <2>2, <2>3 DEF QueueShows, v
<1>9. DeskScreenOK(s, new)
  BY <1>0, <1>1, <1>5, <1>6, <1>8 DEF DeskScreenOK
<1>10. losses' \in Nat
  BY <1>0, <1>1
<1>11. CASE DeskKind[s] = "case"
  BY <1>0, <1>4, <1>5, <1>7, <1>9, <1>10, <1>11, ThreadPut
<1>12. CASE DeskKind[s] = "queue"
  <2>1. Put(s, new) /\ UNCHANGED seen
    BY <1>4, <1>12
  <2> QED
    BY <1>0, <1>5, <1>7, <1>9, <1>10, <2>1, DeskPageMoves
<1> QED
  BY <1>0, <1>1, <1>11, <1>12

LEMMA JoinCaseKeeps ==
  ASSUME Wired, DeskInv, NEW s \in On(DeskScreens), JoinCase(s), UNCHANGED scene
  PROVE  Wired' /\ DeskInv' /\ \A t \in scene.screens \ DeskScreens : screen'[t] = screen[t]
<1> DEFINE r == screen[s]
<1>0. UNCHANGED <<losses, cases, deskCalls, stored, seen>>
  BY DEF JoinCase, deskVars, JoinRoom
<1>1. /\ Holds(r) /\ LineOK(s, r) /\ DeskScreenOK(s, r) /\ losses \in Nat
  BY DeskPage
<1>2. PICK room \in r.joining : \E allowed :
        Put(s, [r EXCEPT !.joining = @ \ {room}, !.rooms = IF allowed THEN @ \cup {room} ELSE @])
  BY DEF JoinCase, JoinRoom
<1>a. PICK allowed : Put(s, [r EXCEPT !.joining = @ \ {room}, !.rooms = IF allowed THEN @ \cup {room} ELSE @])
  BY <1>2
<1>b. PICK m : m = IF allowed THEN r.rooms \cup {room} ELSE r.rooms
  OBVIOUS
<1>c. PICK new : new = [r EXCEPT !.joining = r.joining \ {room}, !.rooms = m]
  OBVIOUS
<1>3. Put(s, new) /\ r.rooms \subseteq m
  BY <1>a, <1>b, <1>c
<1> HIDE DEF r
<1>4. /\ Holds(new) /\ r.rooms \subseteq new.rooms /\ new.link = r.link /\ new.inbox = r.inbox /\ Stays(r, new)
  BY <1>1, <1>3, <1>c DEF Holds, Stays
<1>5. r.link = "up"
  BY <1>1, <1>2 DEF LineOK
<1>6. LineOK(s, new)
  BY <1>1, <1>4, <1>5 DEF LineOK
<1>7. DeskScreenOK(s, new)
  BY <1>1, <1>4 DEF DeskScreenOK, WidgetOK, Stays, Asking, QueueFollows, QueueShows, News, Newest
<1>8. losses' \in Nat /\ screen[s].link # "closed" /\ new.shown = screen[s].shown
  BY <1>0, <1>1, <1>4, <1>5 DEF Stays, r
<1> QED
  BY <1>0, <1>3, <1>4, <1>6, <1>7, <1>8, DeskOne

\* A page that only hears or joins is as good as it was.
LEMMA DeskStays ==
  ASSUME NEW s \in On(DeskScreens), DeskKind[s] # "queue", NEW r, DeskScreenOK(s, r), NEW q,
         q.link = r.link, q.shown = r.shown, q.reads = r.reads, q.behind = r.behind
  PROVE  DeskScreenOK(s, q)
BY DEF DeskScreenOK, WidgetOK, Asking

LEMMA HearDeskKeeps ==
  ASSUME Wired, DeskInv, NEW s \in On(DeskScreens), HearDesk(s), UNCHANGED scene
  PROVE  Wired' /\ DeskInv' /\ \A t \in scene.screens \ DeskScreens : screen'[t] = screen[t]
<1> DEFINE old == screen[s]
           e == Head(old.inbox)
<1>0. /\ UNCHANGED <<losses, cases, deskCalls>> /\ old.inbox # <<>>
  BY DEF HearDesk
<1>1. /\ Holds(old) /\ LineOK(s, old) /\ DeskScreenOK(s, old) /\ Asking(old) /\ Len(old.reads) <= 1
      /\ losses \in Nat /\ DeskKind[s] \in {"widget", "case", "queue"}
  BY DeskPage
<1>2. PICK r : r = [old EXCEPT !.inbox = Tail(@)]
  OBVIOUS
<1>3. /\ Holds(r) /\ Stays(old, r) /\ r.link = old.link /\ r.rooms = old.rooms /\ r.joining = old.joining
      /\ e \in Event /\ e = old.inbox[1] /\ 1 \in DOMAIN old.inbox
      /\ \A names : e.name \notin names /\ ~News(r, names) => ~News(old, names)
      /\ LineOK(s, r)
  BY <1>0, <1>1, <1>2, TakenFacts
<1>4. old.link \notin {"closed", "off"} /\ (e.name = "connection:ready" => old.link = "up")
  BY <1>0, <1>1, <1>3 DEF LineOK
<1>5. losses' \in Nat
  BY <1>0, <1>1
<1>6. Asking(r) /\ Len(r.reads) <= 1 /\ r.shown = old.shown /\ r.reads = old.reads /\ r.behind = old.behind
      /\ r.live = old.live
  BY <1>1, <1>3 DEF Stays, Asking
<1>7. CASE DeskKind[s] = "queue"
  <2>1. /\ Put(s, IF e.name \in useSupportInboxChannel THEN invalidate(r) ELSE r)
        /\ UNCHANGED <<stored, seen>>
    BY <1>2, <1>7 DEF HearDesk
  <2>2. r.behind \in BOOLEAN
    BY <1>1, <1>6, <1>7 DEF DeskScreenOK
  <2>3. CASE e.name \in useSupportInboxChannel
    <3>1. PICK new : new = invalidate(r)
      OBVIOUS
    <3>2. Holds(new) /\ LineOK(s, new) /\ DeskScreenOK(s, new)
      BY <1>3, <1>6, <1>7, <2>2, <3>1, InvalidatedDesk
    <3>3. Put(s, new) /\ DeskKind[s] # "widget"
      BY <1>7, <2>1, <2>3, <3>1
    <3> QED
      BY <1>0, <1>5, <2>1, <3>2, <3>3, DeskPageMoves
  <2>4. CASE e.name \notin useSupportInboxChannel
    <3>1. Put(s, r) /\ DeskKind[s] # "widget"
      BY <1>7, <2>1, <2>4
    <3>2. QueueFollows(r)
      <4>1. SUFFICES ASSUME r.link = "up", ~News(r, useSupportInboxChannel),
                            \A k \in scene.calls : deskCalls[k].pc # "emit"
                     PROVE  QueueShows(r)
        BY DEF QueueFollows
      <4>2. ~News(old, useSupportInboxChannel)
        BY <1>3, <2>4, <4>1
      <4>3. QueueShows(old)
        BY <1>1, <1>3, <1>7, <4>1, <4>2 DEF DeskScreenOK, QueueFollows
      <4> QED
        BY <1>6, <4>3 DEF QueueShows, Newest
    <3>3. DeskScreenOK(s, r)
      BY <1>6, <1>7, <2>2, <3>2 DEF DeskScreenOK
    <3> QED
      BY <1>0, <1>3, <1>5, <2>1, <3>1, <3>3, DeskPageMoves
  <2> QED
    BY <2>3, <2>4
<1>8. ASSUME NEW new, Put(s, new), Holds(new), LineOK(s, new), new.link = old.link,
             new.shown = old.shown, new.reads = old.reads, new.behind = old.behind,
             DeskKind[s] # "queue", UNCHANGED <<stored, seen>>
      PROVE  Wired' /\ DeskInv' /\ \A t \in scene.screens \ DeskScreens : screen'[t] = screen[t]
  <2>1. DeskScreenOK(s, new)
    BY <1>1, <1>8, DeskStays
  <2>2. screen[s].link # "closed" /\ (Opened(screen[s].shown.id) => Opened(new.shown.id))
    BY <1>4, <1>8
  <2> QED
    BY <1>0, <1>5, <1>8, <2>1, <2>2, DeskOne
<1>9. CASE DeskKind[s] # "queue" /\ e.name = "connection:ready"
  <2>1. PICK room : Put(s, JoinWhenReady(r, room)) /\ UNCHANGED <<stored, seen>>
    BY <1>2, <1>9 DEF HearDesk
  <2>2. PICK new : new = JoinWhenReady(r, room)
    OBVIOUS
  <2>3. /\ Holds(new) /\ new.link = r.link /\ new.rooms = r.rooms /\ new.inbox = r.inbox
        /\ new.shown = r.shown /\ new.reads = r.reads /\ new.behind = r.behind
    BY <1>3, <2>2 DEF JoinWhenReady, Holds
  <2>4. LineOK(s, new)
    BY <1>3, <1>4, <1>9, <2>3 DEF LineOK
  <2> QED
    BY <1>3, <1>6, <1>8, <1>9, <2>1, <2>2, <2>3, <2>4
<1>10. CASE DeskKind[s] = "case" /\ e.name = "support:message"
  <2>1. PutThread(s, [r EXCEPT !.live = Append(@, e.payload)]) /\ UNCHANGED stored
    BY <1>2, <1>10 DEF HearDesk
  <2>2. PICK new : new = [r EXCEPT !.live = Append(@, e.payload)]
    OBVIOUS
  <2>3. /\ Holds(new) /\ new.link = r.link /\ new.rooms = r.rooms /\ new.inbox = r.inbox
        /\ new.joining = r.joining
        /\ new.shown = r.shown /\ new.reads = r.reads /\ new.behind = r.behind
    BY <1>3, <2>2 DEF Holds
  <2>4. LineOK(s, new)
    BY <1>3, <2>3, LineStays
  <2>5. DeskScreenOK(s, new)
    BY <1>1, <1>3, <1>6, <1>10, <2>3, DeskStays
  <2>6. PutThread(s, new)
    BY <2>1, <2>2
  <2> QED
    BY <1>0, <1>5, <1>10, <2>1, <2>3, <2>4, <2>5, <2>6, ThreadPut
<1>11. CASE DeskKind[s] = "widget" /\ e.name = "support:message" /\ e.payload.role = "ADMIN"
  <2> DEFINE w == old.shown
  <2>1. /\ w \in Widget /\ Noticed(s, w)
        /\ w.status # "AI_ONLY" => w.id # Nothing
        /\ w.id # Nothing => Opened(w.id)
        /\ OwnerOf[s] = Nothing => w.status = "AI_ONLY"
    BY <1>4, <1>11, WidgetPage
  <2>2. PutWidget(s, onAdminMessage(r, e.payload))
    BY <1>2, <1>11 DEF HearDesk
  <2>3. PICK u \in BOOLEAN : u = (w.unread \/ ~(w.open /\ w.mode = "AI"))
    OBVIOUS
  <2>4. PICK x : x = [w EXCEPT !.entries = Append(@, e.payload), !.unread = u]
    OBVIOUS
  <2>5. PICK q : q = [r EXCEPT !.shown = x]
    OBVIOUS
  <2>6. PutWidget(s, q)
    BY <1>6, <2>2, <2>3, <2>4, <2>5 DEF onAdminMessage
  <2>7. e.payload \in Utterance
    BY <1>3, <1>11 DEF Event, Words, Utterance, EntryId
  <2>8. /\ Append(w.entries, e.payload) \in Seq(Utterance) /\ Append(w.entries, e.payload) # <<>>
        /\ Last(Append(w.entries, e.payload)) = e.payload
    <3>1. w.entries \in Seq(Utterance)
      BY <2>1 DEF Widget
    <3> QED
      BY <2>7, <3>1, AppendedFacts
  <2>9. /\ x \in Widget /\ x.id = w.id /\ x.status = w.status /\ x.entries = Append(w.entries, e.payload)
        /\ x.open = w.open /\ x.mode = w.mode /\ x.unread = u
    BY <2>1, <2>4, <2>8 DEF Widget
  <2>10. w.id # Nothing
    <3>1. RoomOf(s, w) # Nothing
      BY <1>1, <1>4, <1>11 DEF DeskScreenOK, WidgetOK, Holds, LINKS
    <3> QED
      BY <3>1 DEF RoomOf
  <2>11. Noticed(s, x) \/ InView(x)
    BY <1>11, <2>3, <2>8, <2>9, <2>10 DEF Noticed, InView
  <2>12. CallsMove(s, x.id)
    <3>1. screen[s].link # "closed" /\ (Opened(screen[s].shown.id) => Opened(x.id))
      BY <1>4, <2>9
    <3> QED
      BY <1>0, <3>1, CallsStill
  <2>13. /\ x.status # "AI_ONLY" => x.id # Nothing
         /\ x.id # Nothing => Opened(x.id)
         /\ OwnerOf[s] = Nothing => x.status = "AI_ONLY"
    BY <2>1, <2>9
  <2>14. r.link = screen[s].link /\ r.reads = screen[s].reads /\ screen[s].link # "closed"
    BY <1>3, <1>4, <1>6
  <2> QED
    BY <1>0, <1>3, <1>5, <1>11, <2>5, <2>6, <2>9, <2>11, <2>12, <2>13, <2>14, WidgetShown
<1>12. CASE /\ DeskKind[s] # "queue" /\ e.name # "connection:ready"
            /\ ~(DeskKind[s] = "case" /\ e.name = "support:message")
            /\ ~(DeskKind[s] = "widget" /\ e.name = "support:message" /\ e.payload.role = "ADMIN")
  <2>1. Put(s, r) /\ UNCHANGED <<stored, seen>>
    BY <1>2, <1>12 DEF HearDesk
  <2> QED
    BY <1>3, <1>6, <1>8, <1>12, <2>1
<1> QED
  BY <1>7, <1>9, <1>10, <1>11, <1>12

LEMMA DeskStepKeeps ==
  ASSUME Wired, DeskInv, DeskStep
  PROVE  Wired' /\ DeskInv' /\ \A t \in scene.screens \ DeskScreens : Carried(screen[t], screen'[t])
<1>0. UNCHANGED scene
  BY DEF DeskStep
<1>1. \A t \in scene.screens : Carried(screen[t], screen[t])
  BY CarriedSame DEF Wired
<1>2. CASE \E s \in On(DeskScreens) :
             \/ MountWidget(s)
             \/ ServeHistory(s)
             \/ ShowHistory(s)
             \/ LoseHistory(s)
             \/ Toggle(s)
             \/ MountDesk(s)
             \/ ServeDesk(s)
             \/ ShowDesk(s)
             \/ HearDesk(s)
             \/ JoinCase(s)
             \/ LeaveDesk(s)
  <2>1. PICK s \in On(DeskScreens) :
             \/ MountWidget(s)
             \/ ServeHistory(s)
             \/ ShowHistory(s)
             \/ LoseHistory(s)
             \/ Toggle(s)
             \/ MountDesk(s)
             \/ ServeDesk(s)
             \/ ShowDesk(s)
             \/ HearDesk(s)
             \/ JoinCase(s)
             \/ LeaveDesk(s)
    BY <1>2
  <2>2. Wired' /\ DeskInv' /\ \A t \in scene.screens \ DeskScreens : screen'[t] = screen[t]
    BY <1>0, <2>1, MountWidgetKeeps, ServeHistoryKeeps, ShowHistoryKeeps, LoseHistoryKeeps, ToggleKeeps,
       MountDeskKeeps, ServeDeskKeeps, ShowDeskKeeps, HearDeskKeeps, JoinCaseKeeps, LeaveDeskKeeps
  <2> QED
    BY <1>1, <2>2
<1>3. CASE \E s \in On(DeskScreens) :
             DeskKind[s] # "widget" /\ LoseRead(s, LAMBDA what : FALSE) /\ UNCHANGED deskVars
  <2>1. Wired' /\ DeskInv' /\ \A t \in scene.screens \ DeskScreens : screen'[t] = screen[t]
    BY <1>0, <1>3, LoseDeskKeeps
  <2> QED
    BY <1>1, <2>1
<1>4. CASE \E s \in On(DeskScreens) : \E k \in NextCall :
             \/ \E body \in {"asks", "wants"} : handleSend(s, k, body)
             \/ pressEscalate(s, k)
             \/ \E op \in {"claim", "reply", "resolve"} : pressThread(s, k, op)
  <2>1. PICK s \in On(DeskScreens), k \in scene.calls :
             \/ \E body \in {"asks", "wants"} : handleSend(s, k, body)
             \/ pressEscalate(s, k)
             \/ \E op \in {"claim", "reply", "resolve"} : pressThread(s, k, op)
    BY <1>4 DEF NextCall
  <2>2. CASE \E body \in {"asks", "wants"} : handleSend(s, k, body)
    <3>1. Wired' /\ DeskInv' /\ \A t \in scene.screens \ DeskScreens : screen'[t] = screen[t]
      BY <1>0, <2>2, handleSendKeeps
    <3> QED
      BY <1>1, <3>1
  <2>3. CASE pressEscalate(s, k) \/ \E op \in {"claim", "reply", "resolve"} : pressThread(s, k, op)
    <3>1. Wired' /\ DeskInv' /\ screen' = screen
      BY <1>0, <2>3, PressKeeps
    <3> QED
      BY <1>1, <3>1
  <2> QED
    BY <2>1, <2>2, <2>3
<1>5. CASE \E k \in scene.calls :
             LoadCase(k) \/ SaveQuestion(k) \/ Reply(k) \/ ReplyFails(k) \/ Verdict(k) \/ WriteCase(k)
  <2>1. Wired' /\ DeskInv' /\ screen' = screen
    BY <1>0, <1>5, LoadCaseKeeps, ThinkStepKeeps, ReplyKeeps, WriteCaseKeeps
  <2> QED
    BY <1>1, <2>1
<1>6. CASE \E k \in scene.calls : EmitCase(k)
  <2>1. Wired' /\ DeskInv' /\ \A t \in scene.screens : Carried(screen[t], screen'[t])
    BY <1>0, <1>6, EmitCaseKeeps
  <2> QED
    BY <2>1
<1>7. CASE \E k \in scene.calls : AnswerCall(k)
  <2>1. Wired' /\ DeskInv' /\ \A t \in scene.screens \ DeskScreens : screen'[t] = screen[t]
    BY <1>0, <1>7, AnswerCallKeeps
  <2> QED
    BY <1>1, <2>1
<1> QED
  BY <1>2, <1>3, <1>4, <1>5, <1>6, <1>7 DEF DeskStep

LEMMA HandoversAreEarned ==
  ASSUME DeskInv PROVE HandoverEarned
BY DEF DeskInv, DeskRows, CaseOK, HandoverEarned

LEMMA RepliesAreSeen ==
  ASSUME DeskInv PROVE RepliesAreNoticed
<1>1. DOMAIN stored = {s \in On(DeskScreens) : DeskKind[s] = "widget"}
  BY DEF DeskInv, DeskRows
<1>2. ASSUME NEW s \in DOMAIN stored, screen[s].link # "closed"
      PROVE  Noticed(s, screen[s].shown)
  BY <1>1, <1>2 DEF DeskInv, DeskScreenOK, WidgetOK
<1> QED
  BY <1>2 DEF RepliesAreNoticed, Noticed

LEMMA QueuesAreCurrent ==
  ASSUME DeskInv, NEW s \in On(DeskScreens) PROVE QueueIsCurrent(s)
<1>1. SUFFICES ASSUME DeskKind[s] = "queue", Resting(s), ~screen[s].behind,
                      \A k \in DOMAIN deskCalls : deskCalls[k].pc # "emit"
               PROVE  screen[s].shown = listSessions
  BY DEF QueueIsCurrent
<1>2. /\ DOMAIN deskCalls = scene.calls /\ Asking(screen[s]) /\ QueueFollows(screen[s])
  BY <1>1 DEF DeskInv, DeskRows, DeskScreenOK
<1>3. screen[s].link = "up" /\ screen[s].inbox = <<>> /\ DOMAIN screen[s].reads = {}
  BY <1>1 DEF Resting
<1>4. ~News(screen[s], useSupportInboxChannel)
  BY <1>3 DEF News
<1>5. screen[s].reads = <<>>
  <2>1. IsList(screen[s].reads)
    BY <1>2 DEF Asking
  <2> QED
    BY <1>3, <2>1, SeqFacts
<1> QED
  BY <1>1, <1>2, <1>3, <1>4, <1>5 DEF QueueFollows, QueueShows

-----------------------------------------------------------------------------
(***************************************************************************)
(* Talk                                                                    *)
(***************************************************************************)
LEMMA OtherFacts ==
  ASSUME NEW c \in Conversations, NEW u \in People(c)
  PROVE  /\ Other(c, u) \in People(c) /\ Other(c, u) # u
         /\ \A x \in People(c) : x # u => x = Other(c, u)
<1>1. \E x \in People(c) : x # u
  BY TalkAssumption DEF People
<1>2. Other(c, u) \in People(c) /\ Other(c, u) # u
  BY <1>1 DEF Other
<1> QED
  BY <1>2 DEF People

LEMMA MaxOfTwo ==
  ASSUME NEW a \in Nat, NEW b \in Nat
  PROVE  Max({a, b}) \in Nat /\ Max({a, b}) >= a /\ Max({a, b}) >= b
<1>1. \E x \in {a, b} : \A y \in {a, b} : x >= y
  <2>1. CASE a >= b
    BY <2>1
  <2>2. CASE b >= a
    BY <2>2
  <2> QED
    BY <2>1, <2>2
<1> QED
  BY <1>1 DEF Max

LEMMA MinOfTwo ==
  ASSUME NEW a \in Nat, NEW b \in Nat
  PROVE  Min({a, b}) \in Nat /\ Min({a, b}) <= a /\ Min({a, b}) <= b
<1>1. \E x \in {a, b} : \A y \in {a, b} : x <= y
  <2>1. CASE a <= b
    BY <2>1
  <2>2. CASE b <= a
    BY <2>2
  <2> QED
    BY <2>1, <2>2
<1> QED
  BY <1>1 DEF Min

LEMMA Counted ==
  ASSUME TalkRows, NEW user
  PROVE  /\ IsFiniteSet({i \in DOMAIN notices : notices[i].userId = user /\ ~notices[i].read})
         /\ unreadCount(user) \in Nat
<1>0. DOMAIN notices = 1..Len(notices) /\ Len(notices) \in Int /\ 1 \in Int
  BY DEF TalkRows
<1>1. IsFiniteSet(DOMAIN notices)
  BY <1>0, FS_Interval
<1>2. IsFiniteSet({i \in DOMAIN notices : notices[i].userId = user /\ ~notices[i].read})
  BY <1>1, FS_Subset
<1> QED
  BY <1>2, FS_CardinalityType DEF unreadCount

\* What is good stays so.
LEMMA GoodStays ==
  ASSUME NEW s,
         unreadCount(OwnerOf[s]) \in Nat, unreadCount(OwnerOf[s])' \in Nat,
         unreadCount(OwnerOf[s])' <= unreadCount(OwnerOf[s]),
         \/ unreadCount(OwnerOf[s])' = unreadCount(OwnerOf[s]) /\ (Marking(OwnerOf[s]) => Marking(OwnerOf[s])')
         \/ Marking(OwnerOf[s])',
         \A c \in Conversations :
           (messages'[c] # <<>> /\ OwnerOf[s] \in People(c) /\ Last(messages'[c]).sender # OwnerOf[s]) =>
             /\ messages[c] # <<>> /\ Last(messages[c]).sender # OwnerOf[s]
             /\ Len(messages'[c]) = Len(messages[c])
  PROVE  \A v : Good(s, v) => Good(s, v)'
<1> TAKE v
<1>1. SUFFICES ASSUME Good(s, v) PROVE Good(s, v)'
  OBVIOUS
<1>2. TalkKind[s] \in {"bell", "header"} => v \in Nat /\ v >= unreadCount(OwnerOf[s])'
  BY <1>1 DEF Good
<1>3. TalkKind[s] = "header" => v = unreadCount(OwnerOf[s])' \/ Marking(OwnerOf[s])'
  BY <1>1 DEF Good
<1>4. TalkKind[s] = "list" =>
        \A c \in Conversations :
          (messages'[c] # <<>> /\ OwnerOf[s] \in People(c) /\ Last(messages'[c]).sender # OwnerOf[s]) =>
            c \in DOMAIN v /\ v[c].last = Len(messages'[c])
  BY <1>1 DEF Good
<1> QED
  BY <1>2, <1>3, <1>4 DEF Good, People

LEMMA FollowsStays ==
  ASSUME NEW s, NEW q, Follows(s, q), Told(OwnerOf[s])' => Told(OwnerOf[s]),
         \A v : Good(s, v) => Good(s, v)'
  PROVE  Follows(s, q)'
<1>1. SUFFICES ASSUME q.link = "up", ~News(q, useUserChannel), Told(OwnerOf[s])'
               PROVE  Shows(s, q)'
  BY DEF Follows, News
<1>2. Shows(s, q)
  BY <1>1 DEF Follows
<1> QED
  BY <1>2 DEF Shows, Newest

LEMMA MutedFollows ==
  ASSUME NEW s, NEW q, q.link # "up" \/ News(q, useUserChannel) \/ TalkKind[s] \in {"thread", "notices"}
                       \/ (q.reads # <<>> /\ (~Newest(q).served \/ Newest(q).overtaken))
  PROVE  Follows(s, q)
BY DEF Follows, Shows, Good

LEMMA MutedNext ==
  ASSUME NEW s, NEW q, q.link # "up" \/ News(q, useUserChannel) \/ TalkKind[s] \in {"thread", "notices"}
                       \/ (q.reads # <<>> /\ (~Newest(q).served \/ Newest(q).overtaken))
                       \/ ~Told(OwnerOf[s])'
  PROVE  Follows(s, q)'
<1>1. News(q, useUserChannel)' = News(q, useUserChannel)
  BY DEF News
<1>2. TalkKind[s] \in {"thread", "notices"} => Shows(s, q)'
  BY DEF Shows, Good
<1>3. Newest(q)' = Newest(q)
  BY DEF Newest
<1>4. (q.reads # <<>> /\ (~Newest(q).served \/ Newest(q).overtaken)) => Shows(s, q)'
  BY <1>3 DEF Shows
<1> QED
  BY <1>1, <1>2, <1>4 DEF Follows

LEMMA GoodWhole ==
  ASSUME TalkRows, UNCHANGED <<messages, notices>>, NEW s, Marking(OwnerOf[s]) => Marking(OwnerOf[s])'
  PROVE  \A v : Good(s, v) => Good(s, v)'
<1>1. unreadCount(OwnerOf[s])' = unreadCount(OwnerOf[s]) /\ unreadCount(OwnerOf[s]) \in Nat
  BY Counted DEF unreadCount
<1>2. unreadCount(OwnerOf[s])' <= unreadCount(OwnerOf[s])
  BY <1>1
<1> QED
  BY <1>1, <1>2, GoodStays

\* A receipt stays good while messages stay where they are and pages only grow.
LEMMA ReceiptsStand ==
  ASSUME TalkRows, NEW x \in receipts,
         \A d \in Conversations : \A i \in DOMAIN messages[d] :
           i \in DOMAIN messages'[d] /\ messages'[d][i].sender = messages[d][i].sender,
         \A d \in Conversations : \A w \in People(d) : pages'[d][w] \in Nat /\ pages'[d][w] >= pages[d][w]
  PROVE  ReceiptOK(x)'
<1> DEFINE c == ThreadOf[x.from]
           u == OwnerOf[x.from]
<1>1. ReceiptOK(x)
  BY DEF TalkRows
<1>2. c \in Conversations /\ u \in People(c)
  BY <1>1, TalkAssumption DEF ReceiptOK, People
<1>3. pages[c][u] \in Nat
  BY <1>2 DEF TalkRows
<1>4. ASSUME NEW i \in x.answer.unread
      PROVE  i \in DOMAIN messages'[c] /\ messages'[c][i].sender # u /\ i <= pages'[c][u]
  <2>1. i \in DOMAIN messages[c] /\ messages[c][i].sender # u /\ i <= pages[c][u]
    BY <1>1, <1>4 DEF ReceiptOK
  <2>2. i \in Nat
    BY <1>2, <2>1 DEF TalkRows
  <2>3. pages'[c][u] \in Nat /\ pages'[c][u] >= pages[c][u]
    BY <1>2
  <2> HIDE DEF c, u
  <2> QED
    BY <1>2, <1>3, <2>1, <2>2, <2>3
<1> QED
  BY <1>1, <1>4 DEF ReceiptOK

LEMMA ReceiptsStay ==
  ASSUME TalkRows, UNCHANGED <<messages, pages>>, NEW x \in receipts
  PROVE  ReceiptOK(x)'
BY DEF TalkRows, ReceiptOK

\* The rows of a step that only opens conversations and moves a send.
LEMMA RowsStay ==
  ASSUME TalkRows, UNCHANGED <<scene, messages, notices, receipts, pages>>, opened \subseteq opened',
         sends' = [k \in scene.sends |-> sends'[k]], \A k \in scene.sends : SendOK(k)'
  PROVE  TalkRows'
<1>1. \A c \in Conversations : \A i \in DOMAIN messages[c] : MessageOK(c, i)'
  BY DEF TalkRows, MessageOK
<1>2. \A x \in receipts' : ReceiptOK(x)'
  BY ReceiptsStay
<1> QED
  BY <1>1, <1>2 DEF TalkRows

LEMMA SendsStay ==
  ASSUME TalkRows, UNCHANGED <<scene, sends>>
  PROVE  /\ sends' = [k \in scene.sends |-> sends'[k]] /\ \A k \in scene.sends : SendOK(k)'
         /\ \A u : Told(u)' <=> Told(u)
<1>1. \A k \in scene.sends : SendOK(k)'
  BY DEF TalkRows, SendOK, SendIs, On
<1> QED
  BY <1>1 DEF TalkRows, Told

LEMMA SendMoved ==
  ASSUME TalkRows, UNCHANGED scene, NEW k \in scene.sends, NEW x, SendIs(x), sends' = [sends EXCEPT ![k] = x]
  PROVE  /\ sends' = [j \in scene.sends |-> sends'[j]] /\ \A j \in scene.sends : SendOK(j)'
         /\ sends'[k] = x /\ \A j \in scene.sends \ {k} : sends'[j] = sends[j]
         /\ x.pc # "emit" /\ sends[k].pc # "emit" => \A u : Told(u)' <=> Told(u)
<1>1. sends = [j \in scene.sends |-> sends[j]] /\ \A j \in scene.sends : SendIs(sends[j])
  BY DEF TalkRows, SendOK
<1>2. /\ sends' = [j \in scene.sends |-> sends'[j]] /\ sends'[k] = x
      /\ \A j \in scene.sends \ {k} : sends'[j] = sends[j]
  BY <1>1
<1>3. \A y : SendIs(y) => SendIs(y)'
  BY DEF SendIs, On
<1>4. ASSUME NEW j \in scene.sends PROVE SendOK(j)'
  <2>1. PICK y : y = sends'[j]
    OBVIOUS
  <2>2. SendIs(y)
    BY <1>1, <1>2, <2>1
  <2>3. SendIs(y)'
    BY <1>3, <2>2
  <2> QED
    BY <2>1, <2>3 DEF SendOK
<1>5. ASSUME x.pc # "emit", sends[k].pc # "emit", NEW u PROVE Told(u)' <=> Told(u)
  BY <1>2, <1>5 DEF Told
<1> QED
  BY <1>2, <1>4, <1>5

\* What the lines bring, and sends that are told.
LEMMA TalkHeard ==
  ASSUME Wired, TalkInv, Wired', UNCHANGED <<scene, messages, notices, receipts, pages>>, opened \subseteq opened',
         \A s \in On(TalkScreens) : Carried(screen[s], screen'[s]),
         sends' = [k \in scene.sends |-> sends'[k]], \A k \in scene.sends : SendOK(k)',
         \A s \in On(TalkScreens) : \/ Told(OwnerOf[s])' => Told(OwnerOf[s])
                                    \/ screen'[s].link = "up" => News(screen'[s], useUserChannel)
  PROVE  TalkInv'
<1>0. On(TalkScreens)' = On(TalkScreens) /\ On(TalkScreens) \subseteq scene.screens
  BY DEF On
<1>1. \A s \in On(TalkScreens) : Holds(screen[s]) /\ Holds(screen'[s])
  BY <1>0 DEF Wired
<1>2. TalkRows'
  BY RowsStay DEF TalkInv
<1>3. \A u : Marking(u) => Marking(u)'
  BY <1>0 DEF Marking, Carried, Stays
<1>4. ASSUME NEW s \in On(TalkScreens) PROVE TalkScreenOK(s, screen[s])' /\ Follows(s, screen[s])'
  <2>1. PICK q : q = screen'[s]
    OBVIOUS
  <2>2. PICK r : r = screen[s]
    OBVIOUS
  <2>3. /\ TalkScreenOK(s, r) /\ Follows(s, r) /\ Holds(r) /\ Holds(q) /\ Carried(r, q)
    BY <1>1, <2>1, <2>2 DEF TalkInv
  <2>4. q.reads = r.reads /\ q.shown = r.shown /\ q.behind = r.behind
    BY <2>3 DEF Carried, Stays
  <2>5. TalkScreenOK(s, q)'
    BY <2>3, <2>4 DEF TalkScreenOK, Asking
  <2>6. Follows(s, q)'
    <3>1. CASE q.link = "up" /\ ~News(q, useUserChannel) /\ (Told(OwnerOf[s])' => Told(OwnerOf[s]))
      <4>1. "connection:ready" \in useUserChannel
        BY DEF useUserChannel
      <4>2. r.link = "up" /\ ~News(r, useUserChannel)
        BY <2>3, <3>1, <4>1, CarriedNews
      <4>3. Follows(s, q)
        BY <2>3, <2>4, <4>2 DEF Follows, Shows, Newest
      <4>4. \A v : Good(s, v) => Good(s, v)'
        BY <1>3, GoodWhole DEF TalkInv
      <4> QED
        BY <3>1, <4>3, <4>4, FollowsStays
    <3>2. CASE q.link # "up" \/ News(q, useUserChannel)
      BY <3>2, MutedNext
    <3> QED
      BY <2>1, <3>1, <3>2
  <2> QED
    BY <2>1, <2>5, <2>6
<1> QED
  BY <1>0, <1>2, <1>4 DEF TalkInv

LEMMA TalkCarried ==
  ASSUME Wired, TalkInv, Wired', UNCHANGED <<talkVars, scene>>,
         \A s \in On(TalkScreens) : Carried(screen[s], screen'[s])
  PROVE  TalkInv'
<1>1. UNCHANGED <<opened, messages, notices, sends, receipts, pages, scene>> /\ opened \subseteq opened' /\ TalkRows
  BY DEF talkVars, TalkInv
<1>2. /\ sends' = [k \in scene.sends |-> sends'[k]] /\ \A k \in scene.sends : SendOK(k)'
      /\ \A u : Told(u)' <=> Told(u)
  BY <1>1, SendsStay
<1> QED
  BY <1>1, <1>2, TalkHeard

LEMMA TalkRestart ==
  ASSUME Wired, TalkInv, Wired', RestartTalk, UNCHANGED <<opened, messages, notices, receipts, pages, scene>>,
         \A s \in On(TalkScreens) : Carried(screen[s], screen'[s]) /\ screen'[s].link # "up"
  PROVE  TalkInv'
<1>1. sends = [k \in scene.sends |-> sends[k]] /\ \A k \in scene.sends : SendIs(sends[k])
  BY DEF TalkInv, TalkRows, SendOK
<1>2. sends' = [k \in scene.sends |-> IF sends[k].pc \in {"commit", "emit", "answer"}
                                      THEN [sends[k] EXCEPT !.pc = "dead"] ELSE sends[k]]
  BY <1>1 DEF RestartTalk
<1>3. ASSUME NEW k \in scene.sends PROVE SendOK(k)'
  <2>1. PICK y : y = sends'[k]
    OBVIOUS
  <2>2. SendIs(y)
    <3>1. SendIs(sends[k])
      BY <1>1
    <3> QED
      BY <1>2, <2>1, <3>1 DEF SendIs
  <2>3. SendIs(y)'
    BY <2>2 DEF SendIs, On
  <2> QED
    BY <2>1, <2>3 DEF SendOK
<1>4. sends' = [k \in scene.sends |-> sends'[k]]
  BY <1>2
<1>5. opened \subseteq opened'
  OBVIOUS
<1> QED
  BY <1>3, <1>4, <1>5, TalkHeard

-----------------------------------------------------------------------------
\* A step of one screen, that leaves what was said.
LEMMA TalkOneRows ==
  ASSUME Wired, TalkInv, NEW s \in On(TalkScreens), NEW new, Put(s, new), Holds(new), LineOK(s, new),
         UNCHANGED <<scene, messages, notices>>, TalkRows', losses' \in Nat,
         \A u : Told(u)' <=> Told(u),
         TalkScreenOK(s, new), Follows(s, new),
         TalkKind[s] = "notices" => \/ new.reads # <<>> \/ new.behind
                                    \/ screen[s].reads = <<>> /\ ~screen[s].behind
  PROVE  Wired' /\ TalkInv' /\ \A t \in scene.screens \ TalkScreens : screen'[t] = screen[t]
<1>0. On(TalkScreens)' = On(TalkScreens) /\ On(TalkScreens) \subseteq scene.screens
      /\ s \in scene.screens /\ s \in TalkScreens
  BY DEF On
<1>1. Wired' /\ screen'[s] = new /\ \A t \in scene.screens \ {s} : screen'[t] = screen[t]
  BY <1>0, PutFacts
<1>2. TalkRows
  BY DEF TalkInv
<1>4. ASSUME NEW u, Marking(u) PROVE Marking(u)'
  <2>1. PICK t \in On(TalkScreens) : /\ TalkKind[t] = "notices" /\ OwnerOf[t] = u
                                     /\ screen[t].reads # <<>> \/ screen[t].behind
    BY <1>4 DEF Marking
  <2>2. screen'[t].reads # <<>> \/ screen'[t].behind
    BY <1>0, <1>1, <2>1
  <2> QED
    BY <1>0, <2>1, <2>2 DEF Marking
<1>5. ASSUME NEW t \in On(TalkScreens) PROVE TalkScreenOK(t, screen[t])' /\ Follows(t, screen[t])'
  <2>1. PICK q : q = screen'[t]
    OBVIOUS
  <2>2. TalkScreenOK(t, q) /\ Follows(t, q)
    BY <1>0, <1>1, <2>1 DEF TalkInv
  <2>3. TalkScreenOK(t, q)'
    BY <2>2 DEF TalkScreenOK, Asking
  <2>4. \A v : Good(t, v) => Good(t, v)'
    BY <1>2, <1>4, GoodWhole
  <2>5. Follows(t, q)'
    BY <2>2, <2>4, FollowsStays
  <2> QED
    BY <2>1, <2>3, <2>5
<1> QED
  BY <1>0, <1>1, <1>5 DEF TalkInv

\* One that leaves the rows.
LEMMA TalkOne ==
  ASSUME Wired, TalkInv, NEW s \in On(TalkScreens), NEW new, Put(s, new), Holds(new), LineOK(s, new),
         UNCHANGED <<scene, opened, messages, notices, receipts, pages>>, losses' \in Nat,
         sends' = [k \in scene.sends |-> sends'[k]], \A k \in scene.sends : SendOK(k)',
         \A u : Told(u)' <=> Told(u),
         TalkScreenOK(s, new), Follows(s, new),
         TalkKind[s] = "notices" => \/ new.reads # <<>> \/ new.behind
                                    \/ screen[s].reads = <<>> /\ ~screen[s].behind
  PROVE  Wired' /\ TalkInv' /\ \A t \in scene.screens \ TalkScreens : screen'[t] = screen[t]
<1>1. opened \subseteq opened' /\ TalkRows
  BY DEF TalkInv
<1>2. TalkRows'
  BY <1>1, RowsStay
<1> QED
  BY <1>2, TalkOneRows

LEMMA TalkPage ==
  ASSUME Wired, TalkInv, NEW s \in On(TalkScreens)
  PROVE  /\ Holds(screen[s]) /\ LineOK(s, screen[s]) /\ losses \in Nat
         /\ TalkScreenOK(s, screen[s]) /\ Follows(s, screen[s]) /\ Asking(screen[s])
         /\ s \in scene.screens /\ s \in TalkScreens
         /\ screen = [t \in scene.screens |-> screen[t]]
         /\ TalkKind[s] \in {"thread", "list", "bell", "header", "notices"}
         /\ TalkRows
BY TalkAssumption DEF TalkInv, TalkScreenOK, Wired, On

\* A step of one screen that leaves the sends too.
LEMMA TalkScreenStep ==
  ASSUME Wired, TalkInv, NEW s \in On(TalkScreens), NEW new, Put(s, new), Holds(new), LineOK(s, new),
         UNCHANGED <<talkVars, scene>>, losses' \in Nat,
         TalkScreenOK(s, new), Follows(s, new),
         TalkKind[s] = "notices" => \/ new.reads # <<>> \/ new.behind
                                    \/ screen[s].reads = <<>> /\ ~screen[s].behind
  PROVE  Wired' /\ TalkInv' /\ \A t \in scene.screens \ TalkScreens : screen'[t] = screen[t]
<1>1. UNCHANGED <<opened, messages, notices, sends, receipts, pages, scene>> /\ TalkRows
  BY DEF talkVars, TalkInv
<1>2. /\ sends' = [k \in scene.sends |-> sends'[k]] /\ \A k \in scene.sends : SendOK(k)'
      /\ \A u : Told(u)' <=> Told(u)
  BY <1>1, SendsStay
<1> QED
  BY <1>1, <1>2, TalkOne

\* A new request of a screen, behind the others.
LEMMA TalkAsks ==
  ASSUME NEW s \in On(TalkScreens), TalkKind[s] # "header", NEW r, Holds(r), LineOK(s, r), TalkScreenOK(s, r),
         NEW what, TalkKind[s] = "notices" => what.op \in NOTICE_OPS
  PROVE  LET q == refresh(r, what)
         IN  /\ Holds(q) /\ LineOK(s, q) /\ TalkScreenOK(s, q) /\ Follows(s, q) /\ q.reads # <<>>
             /\ SameButReads(q, r)
<1> DEFINE q == refresh(r, what)
           a == Request(what)
<1>1. Asking(r)
  BY DEF TalkScreenOK
<1>2. /\ Holds(q) /\ SameButReads(q, r) /\ Asking(q) /\ q.reads # <<>> /\ Newest(q) = a
      /\ \A i \in DOMAIN q.reads : q.reads[i] = a \/ (i \in DOMAIN r.reads /\ q.reads[i] = r.reads[i])
  BY <1>1, RefreshFacts
<1>3. ~a.served /\ a.what = what
  BY RequestIsOne
<1> HIDE DEF q, a
<1>4. LineOK(s, q)
  BY <1>2, LineStays DEF SameButReads
<1>5. TalkScreenOK(s, q)
  BY <1>2, <1>3 DEF TalkScreenOK, SameButReads
<1>6. Follows(s, q)
  BY <1>2, <1>3, MutedFollows
<1> QED
  BY <1>2, <1>4, <1>5, <1>6 DEF q

\* A screen that keeps its requests stays as it was.
LEMMA TalkStays ==
  ASSUME NEW s, NEW r, NEW q, TalkScreenOK(s, r), q.reads = r.reads, q.behind = r.behind
  PROVE  /\ TalkScreenOK(s, q)
         /\ (Follows(s, r) /\ q.link = r.link /\ q.shown = r.shown
             /\ (~News(q, useUserChannel) => ~News(r, useUserChannel))) => Follows(s, q)
BY DEF TalkScreenOK, Asking, Follows, Shows, Newest

LEMMA MountKeeps ==
  ASSUME Wired, TalkInv, NEW s \in On(TalkScreens), Mount(s), UNCHANGED scene
  PROVE  Wired' /\ TalkInv' /\ \A t \in scene.screens \ TalkScreens : screen'[t] = screen[t]
<1> DEFINE r == screen[s]
           first == FirstReads(TalkKind[s])
<1>0. /\ UNCHANGED <<losses, talkVars>> /\ r.link = "closed" /\ r.reads = <<>>
      /\ Put(s, [Closed EXCEPT !.link = "down", !.reads = first, !.behind = r.behind])
  BY DEF Mount
<1>1. TalkScreenOK(s, r) /\ losses \in Nat /\ r.behind \in BOOLEAN
  BY TalkPage DEF TalkScreenOK
<1>2. PICK new : new = [Closed EXCEPT !.link = "down", !.reads = first, !.behind = r.behind]
  OBVIOUS
<1>3. /\ Holds(new) /\ new.link = "down" /\ new.reads = first /\ new.behind = r.behind
      /\ new.rooms = {} /\ new.joining = {} /\ new.inbox = <<>>
  BY <1>2, ClosedFacts DEF Holds, LINKS
<1>4. LineOK(s, new)
  BY <1>3, EmptyLine
<1>5. PICK what : /\ what.op \in NOTICE_OPS \/ TalkKind[s] # "notices"
                  /\ first = <<Request(what)>> \/ (first = <<>> /\ TalkKind[s] # "notices")
  BY DEF FirstReads, Fetch, NOTICE_OPS
<1>6. /\ IsList(first) /\ Len(first) <= 1
      /\ \A i \in DOMAIN first : Requested(first[i]) /\ first[i].what = what
      /\ TalkKind[s] = "notices" => first # <<>>
  <2>1. CASE first = <<>> /\ TalkKind[s] # "notices"
    <3>1. new.reads = <<>>
      BY <1>3, <2>1
    <3>2. Asking(new) /\ Len(new.reads) = 0 /\ DOMAIN new.reads = {}
      BY <3>1, NoRequest
    <3> QED
      BY <1>3, <2>1, <3>2 DEF Asking
  <2>2. CASE first = <<Request(what)>>
    <3> DEFINE a == Request(what)
               x == <<Request(what)>>
    <3>1. Requested(a) /\ a.what = what
      BY RequestIsOne
    <3>2. IsList(x) /\ Len(x) = 1 /\ x # <<>> /\ \A i \in DOMAIN x : x[i] = a
      BY OneRequest
    <3> HIDE DEF a
    <3>3. first = x
      BY <2>2
    <3> HIDE DEF x, first
    <3>l. Len(x) <= 1
      BY <3>2
    <3>4. Len(first) <= 1 /\ first # <<>>
      BY <3>l, <3>2, <3>3, Zenon
    <3>5. \A i \in DOMAIN first : first[i] = a
      BY <3>2, <3>3
    <3>6. IsList(first)
      BY <3>2, <3>3
    <3> QED
      BY <3>1, <3>4, <3>5, <3>6
  <2> QED
    BY <1>5, <2>1, <2>2
<1> HIDE DEF first, r
<1>7. TalkScreenOK(s, new)
  BY <1>1, <1>3, <1>5, <1>6 DEF TalkScreenOK, Asking
<1>8. Follows(s, new)
  BY <1>3, MutedFollows
<1>9. Put(s, new) /\ losses' \in Nat
  BY <1>0, <1>1, <1>2
<1>10. TalkKind[s] = "notices" => new.reads # <<>>
  BY <1>3, <1>6
<1> QED
  BY <1>0, <1>3, <1>4, <1>7, <1>8, <1>9, <1>10, TalkScreenStep

LEMMA LeaveTalkKeeps ==
  ASSUME Wired, TalkInv, NEW s \in On(TalkScreens), LeaveTalk(s), UNCHANGED scene
  PROVE  Wired' /\ TalkInv' /\ \A t \in scene.screens \ TalkScreens : screen'[t] = screen[t]
<1> DEFINE r == screen[s]
<1>0. losses' = losses + 1 /\ UNCHANGED talkVars
  BY DEF LeaveTalk, Unmount
<1>1. TalkScreenOK(s, r) /\ losses \in Nat /\ r.behind \in BOOLEAN /\ Asking(r)
  BY TalkPage DEF TalkScreenOK
<1>2. PICK new : new = IF TalkKind[s] # "notices" THEN Closed
                       ELSE [Closed EXCEPT !.reads = r.reads, !.behind = r.behind]
  OBVIOUS
<1>3. Put(s, new)
  BY <1>2 DEF LeaveTalk, Unmount
<1>4. /\ Holds(new) /\ new.link = "closed" /\ new.rooms = {} /\ new.joining = {} /\ new.inbox = <<>>
      /\ TalkKind[s] = "notices" => new.reads = r.reads /\ new.behind = r.behind
      /\ TalkKind[s] # "notices" => new.reads = <<>> /\ new.behind = FALSE
  <2>1. CASE TalkKind[s] # "notices"
    BY <1>2, <2>1, ClosedFacts
  <2>2. CASE TalkKind[s] = "notices"
    BY <1>2, <2>2, ClosedFacts DEF Holds
  <2> QED
    BY <2>1, <2>2
<1> HIDE DEF r
<1>5. LineOK(s, new)
  BY <1>4, EmptyLine
<1>6. TalkScreenOK(s, new)
  <2>1. CASE TalkKind[s] # "notices"
    <3>1. new.reads = <<>> /\ new.behind = FALSE
      BY <1>4, <2>1
    <3>2. Asking(new) /\ Len(new.reads) = 0
      BY <3>1, NoRequest
    <3>3. Len(new.reads) <= 1
      BY <3>2
    <3> QED
      BY <2>1, <3>1, <3>2, <3>3 DEF TalkScreenOK
  <2>2. CASE TalkKind[s] = "notices"
    BY <1>1, <1>4, <2>2, TalkStays
  <2> QED
    BY <2>1, <2>2
<1>7. Follows(s, new)
  BY <1>4, MutedFollows
<1>8. losses' \in Nat
  BY <1>0, <1>1
<1>9. TalkKind[s] = "notices" => new.reads # <<>> \/ new.behind \/ (screen[s].reads = <<>> /\ ~screen[s].behind)
  BY <1>4 DEF r
<1> QED
  BY <1>0, <1>3, <1>4, <1>5, <1>6, <1>7, <1>8, <1>9, TalkScreenStep

LEMMA ShowReadKeeps ==
  ASSUME Wired, TalkInv, NEW s \in On(TalkScreens), ShowRead(s), UNCHANGED scene
  PROVE  Wired' /\ TalkInv' /\ \A t \in scene.screens \ TalkScreens : screen'[t] = screen[t]
<1> DEFINE r == screen[s]
<1>0. UNCHANGED <<losses, talkVars>> /\ TalkKind[s] # "notices"
  BY DEF ShowRead
<1>1. PICK i \in DOMAIN r.reads : r.reads[i].served /\ Put(s, Arrived(r, i, r.reads[i].value))
  BY DEF ShowRead
<1>2. PICK new : new = Arrived(r, i, r.reads[i].value)
  OBVIOUS
<1>3. /\ Holds(r) /\ LineOK(s, r) /\ TalkScreenOK(s, r) /\ Follows(s, r) /\ Asking(r) /\ losses \in Nat
  BY TalkPage
<1>4. Put(s, new) /\ losses' \in Nat
  BY <1>0, <1>1, <1>2, <1>3
<1> HIDE DEF r
<1>5. /\ Holds(new) /\ Asking(new) /\ new.behind \in BOOLEAN
      /\ new.link = r.link /\ new.rooms = r.rooms /\ new.joining = r.joining
      /\ new.inbox = r.inbox /\ new.shown = r.reads[i].value
      /\ r.reads # <<>> /\ Len(new.reads) = Len(r.reads) - 1
      /\ new.reads = <<>> /\ ~new.behind => Newest(r) = r.reads[i] /\ ~Newest(r).overtaken
      /\ new.reads # <<>> => Newest(new).overtaken \/ Newest(new) = Newest(r)
  BY <1>2, <1>3, ArrivedTells
<1>6. LineOK(s, new)
  BY <1>3, <1>5, LineStays
<1>7. TalkScreenOK(s, new)
  <2>1. Len(r.reads) \in Nat
    BY <1>3, SeqFacts DEF Asking
  <2> QED
    BY <1>0, <1>3, <1>5, <2>1 DEF TalkScreenOK
<1>8. Follows(s, new)
  <2>1. ASSUME new.link = "up", ~News(new, useUserChannel), Told(OwnerOf[s]) PROVE Shows(s, new)
    <3>1. Shows(s, r)
      BY <1>3, <1>5, <2>1 DEF Follows, News
    <3>2. new.reads = <<>> /\ ~new.behind => Good(s, new.shown)
      BY <1>1, <1>5, <3>1 DEF Shows
    <3>3. new.reads # <<>> /\ Newest(new).served /\ ~Newest(new).overtaken => Good(s, Newest(new).value)
      BY <1>5, <3>1 DEF Shows
    <3> QED
      BY <3>2, <3>3 DEF Shows
  <2> QED
    BY <2>1 DEF Follows
<1> QED
  BY <1>0, <1>4, <1>5, <1>6, <1>7, <1>8, TalkScreenStep

LEMMA LostRest ==
  ASSUME NEW r, Holds(r), Asking(r), NEW i \in DOMAIN r.reads, NEW f, NEW q, q = Lost(r, i, f)
  PROVE  /\ q.reads # <<>> => Newest(q).overtaken \/ Newest(q) = Newest(r)
         /\ \A j \in DOMAIN q.reads : \E k \in DOMAIN r.reads : q.reads[j].what = r.reads[k].what
<1> DEFINE w == Without(r, i)
<1>1. IsList(r.reads) /\ Len(r.reads) \in Nat /\ DOMAIN r.reads = 1..Len(r.reads)
  BY SeqFacts DEF Asking
<1>2. q.reads = w
  BY DEF Holds, Lost
<1>3. /\ Len(w) = Len(r.reads) - 1
      /\ \A j \in DOMAIN w : \E k \in DOMAIN r.reads : w[j].what = r.reads[k].what
      /\ w # <<>> => /\ i = Len(r.reads) => w[Len(w)].overtaken
                     /\ i # Len(r.reads) => w[Len(w)] = Newest(r)
  BY WithoutFacts
<1> HIDE DEF w
<1> QED
  BY <1>1, <1>2, <1>3 DEF Newest

LEMMA LoseTalkKeeps ==
  ASSUME Wired, TalkInv, NEW s \in On(TalkScreens), LoseTalk(s), UNCHANGED <<talkVars, scene>>
  PROVE  Wired' /\ TalkInv' /\ \A t \in scene.screens \ TalkScreens : screen'[t] = screen[t]
<1> DEFINE r == screen[s]
<1>0. losses' = losses + 1
  BY DEF LoseTalk, LoseRead
<1>1. PICK i \in DOMAIN r.reads : \E f : Put(s, Lost(r, i, f))
  BY DEF LoseTalk, LoseRead, Lost
<1>2. PICK f : Put(s, Lost(r, i, f))
  BY <1>1
<1>3. PICK new : new = Lost(r, i, f)
  OBVIOUS
<1>4. /\ Holds(r) /\ LineOK(s, r) /\ TalkScreenOK(s, r) /\ Follows(s, r) /\ Asking(r) /\ losses \in Nat
  BY TalkPage
<1>5. Put(s, new) /\ losses' \in Nat
  BY <1>0, <1>2, <1>3, <1>4
<1> HIDE DEF r
<1>6. /\ Holds(new) /\ Asking(new) /\ new.behind = TRUE
      /\ new.link = r.link /\ new.rooms = r.rooms /\ new.joining = r.joining
      /\ new.inbox = r.inbox /\ r.reads # <<>> /\ Len(new.reads) = Len(r.reads) - 1
  <2>1. LostOne(Lost(r, i, f), r)
    BY <1>4, LostTells
  <2>2. LostOne(new, r)
    BY <1>3, <2>1
  <2> QED
    BY <2>2 DEF LostOne
<1>n. /\ new.reads # <<>> => Newest(new).overtaken \/ Newest(new) = Newest(r)
      /\ \A j \in DOMAIN new.reads : \E k \in DOMAIN r.reads : new.reads[j].what = r.reads[k].what
  BY <1>3, <1>4, LostRest
<1>7. LineOK(s, new)
  BY <1>4, <1>6, LineStays
<1>8. TalkScreenOK(s, new)
  <2>1. Len(r.reads) \in Nat
    BY <1>4, SeqFacts DEF Asking
  <2>2. TalkKind[s] = "header" => Len(new.reads) <= 1
    BY <1>4, <1>6, <2>1 DEF TalkScreenOK
  <2>3. TalkKind[s] = "notices" => \A j \in DOMAIN new.reads : new.reads[j].what.op \in NOTICE_OPS
    BY <1>4, <1>n DEF TalkScreenOK
  <2> QED
    BY <1>6, <2>2, <2>3 DEF TalkScreenOK
<1>9. Follows(s, new)
  <2>1. ASSUME new.link = "up", ~News(new, useUserChannel), Told(OwnerOf[s]) PROVE Shows(s, new)
    <3>1. Shows(s, r)
      BY <1>4, <1>6, <2>1 DEF Follows, News
    <3> QED
      BY <1>6, <1>n, <3>1 DEF Shows
  <2> QED
    BY <2>1 DEF Follows
<1> QED
  BY <1>5, <1>6, <1>7, <1>8, <1>9, TalkScreenStep

\* A step after which the screen has the requests it had.
LEMMA TalkSame ==
  ASSUME Wired, TalkInv, NEW s \in On(TalkScreens), NEW new, Put(s, new), Holds(new), LineOK(s, new),
         UNCHANGED <<talkVars, scene, losses>>, new.link = screen[s].link, new.shown = screen[s].shown,
         new.reads = screen[s].reads, new.behind = screen[s].behind,
         ~News(new, useUserChannel) => ~News(screen[s], useUserChannel)
  PROVE  Wired' /\ TalkInv' /\ \A t \in scene.screens \ TalkScreens : screen'[t] = screen[t]
<1>1. TalkScreenOK(s, screen[s]) /\ Follows(s, screen[s]) /\ losses \in Nat
  BY TalkPage
<1>2. TalkScreenOK(s, new) /\ Follows(s, new)
  <2>1. PICK r : r = screen[s]
    OBVIOUS
  <2> QED
    BY <1>1, <2>1, TalkStays
<1>3. losses' \in Nat
  BY <1>1
<1>4. TalkKind[s] = "notices" => \/ new.reads # <<>> \/ new.behind
                                 \/ screen[s].reads = <<>> /\ ~screen[s].behind
  OBVIOUS
<1> QED
  BY <1>2, <1>3, <1>4, TalkScreenStep

LEMMA HearEventKeeps ==
  ASSUME Wired, TalkInv, NEW s \in On(TalkScreens), HearEvent(s), UNCHANGED scene
  PROVE  Wired' /\ TalkInv' /\ \A t \in scene.screens \ TalkScreens : screen'[t] = screen[t]
<1> DEFINE old == screen[s]
           e == Head(old.inbox)
<1>0. UNCHANGED <<losses, talkVars>> /\ old.inbox # <<>>
  BY DEF HearEvent
<1>1. /\ Holds(old) /\ LineOK(s, old) /\ TalkScreenOK(s, old) /\ losses \in Nat
      /\ TalkKind[s] \in {"thread", "list", "bell", "header", "notices"}
  BY TalkPage
<1>2. PICK r : r = [old EXCEPT !.inbox = Tail(@)]
  OBVIOUS
<1>3. /\ Holds(r) /\ Stays(old, r) /\ r.link = old.link /\ r.rooms = old.rooms /\ r.joining = old.joining
      /\ e \in Event /\ e = old.inbox[1] /\ 1 \in DOMAIN old.inbox
      /\ \A names : e.name \notin names /\ ~News(r, names) => ~News(old, names)
      /\ LineOK(s, r)
  BY <1>0, <1>1, <1>2, TakenFacts
<1>4. r.shown = old.shown /\ r.reads = old.reads /\ r.behind = old.behind
  BY <1>3 DEF Stays
<1>5. TalkScreenOK(s, r)
  BY <1>1, <1>4, TalkStays
<1>6. losses' \in Nat
  BY <1>0, <1>1
<1>7. CASE TalkKind[s] = "thread" /\ e.name = "connection:ready"
  <2>1. PICK new : new = JoinWhenReady(r, conversationRoom(ThreadOf[s]))
    OBVIOUS
  <2>2. Put(s, new)
    BY <1>2, <1>7, <2>1 DEF HearEvent, Heard
  <2>3. /\ Holds(new) /\ new.link = r.link /\ new.rooms = r.rooms /\ new.inbox = r.inbox
        /\ new.shown = r.shown /\ new.reads = r.reads /\ new.behind = r.behind
    BY <1>3, <2>1 DEF JoinWhenReady, Holds
  <2>4. old.link = "up"
    BY <1>1, <1>3, <1>7 DEF LineOK
  <2>5. LineOK(s, new)
    BY <1>3, <2>3, <2>4 DEF LineOK
  <2>6. TalkScreenOK(s, new)
    BY <1>5, <2>3, TalkStays
  <2>7. Follows(s, new)
    BY <1>7, MutedFollows
  <2>8. TalkKind[s] # "notices"
    BY <1>7
  <2> QED
    BY <1>0, <1>6, <2>2, <2>3, <2>5, <2>6, <2>7, <2>8, TalkScreenStep
<1>8. ASSUME NEW what, TalkKind[s] # "header", TalkKind[s] = "notices" => what.op \in NOTICE_OPS,
             Put(s, refresh(r, what))
      PROVE  Wired' /\ TalkInv' /\ \A t \in scene.screens \ TalkScreens : screen'[t] = screen[t]
  <2>1. PICK new : new = refresh(r, what)
    OBVIOUS
  <2>2. Holds(new) /\ LineOK(s, new) /\ TalkScreenOK(s, new) /\ Follows(s, new) /\ new.reads # <<>>
    BY <1>3, <1>5, <1>8, <2>1, TalkAsks
  <2>3. Put(s, new)
    BY <1>8, <2>1
  <2> QED
    BY <1>0, <1>6, <2>2, <2>3, TalkScreenStep
<1>9. CASE TalkKind[s] = "thread" /\ e.name = "message:sent"
  <2>1. Put(s, refresh(r, "page"))
    BY <1>2, <1>9 DEF HearEvent, Heard
  <2> QED
    BY <1>8, <1>9, <2>1
<1>10. CASE TalkKind[s] \in {"list", "bell"} /\ e.name \in useUserChannel
  <2>1. Put(s, refresh(r, "page"))
    BY <1>2, <1>10 DEF HearEvent, Heard
  <2> QED
    BY <1>8, <1>10, <2>1
<1>11. CASE TalkKind[s] = "notices" /\ e.name \in useUserChannel
  <2>1. Put(s, refresh(r, Fetch("refresh", Filter(r), 1)))
    BY <1>2, <1>11 DEF HearEvent, Heard
  <2>2. PICK what : what = Fetch("refresh", Filter(r), 1)
    OBVIOUS
  <2>3. what.op \in NOTICE_OPS
    BY <2>2 DEF Fetch, NOTICE_OPS
  <2> QED
    BY <1>8, <1>11, <2>1, <2>2, <2>3
<1>12. CASE TalkKind[s] = "header" /\ e.name \in useUserChannel
  <2>1. PICK new : new = invalidate(r)
    OBVIOUS
  <2>2. Put(s, new)
    BY <1>2, <1>12, <2>1 DEF HearEvent, Heard
  <2>3. Asking(r) /\ Len(r.reads) <= 1 /\ r.behind \in BOOLEAN
    BY <1>5, <1>12 DEF TalkScreenOK
  <2>4. /\ Holds(new) /\ SameButReads(new, r) /\ Asking(new) /\ new.reads # <<>> /\ Len(new.reads) = 1
        /\ ~Newest(new).served \/ Newest(new).overtaken
    BY <1>3, <2>1, <2>3, InvalidateTells
  <2>5. LineOK(s, new)
    BY <1>3, <2>4, LineStays DEF SameButReads
  <2>6. Len(new.reads) <= 1
    BY <2>4
  <2>7. TalkScreenOK(s, new)
    BY <1>12, <2>3, <2>4, <2>6 DEF TalkScreenOK, SameButReads
  <2>8. Follows(s, new)
    BY <2>4, MutedFollows
  <2>9. TalkKind[s] # "notices"
    BY <1>12
  <2> QED
    BY <1>0, <1>6, <2>2, <2>4, <2>5, <2>7, <2>8, <2>9, TalkScreenStep
<1>13. CASE /\ TalkKind[s] = "thread" => e.name \notin {"connection:ready", "message:sent"}
            /\ TalkKind[s] # "thread" => e.name \notin useUserChannel
  <2>1. Put(s, r)
    BY <1>1, <1>2, <1>13 DEF HearEvent, Heard
  <2>2. TalkKind[s] # "thread" => (~News(r, useUserChannel) => ~News(old, useUserChannel))
    BY <1>3, <1>13
  <2>3. Follows(s, r)
    <3>1. CASE TalkKind[s] = "thread"
      BY <3>1, MutedFollows
    <3>2. CASE TalkKind[s] # "thread"
      <4>1. Follows(s, old)
        BY TalkPage
      <4> QED
        BY <1>1, <1>3, <1>4, <2>2, <3>2, <4>1, TalkStays
    <3> QED
      BY <3>1, <3>2
  <2>4. TalkKind[s] = "notices" => r.reads # <<>> \/ r.behind \/ (screen[s].reads = <<>> /\ ~screen[s].behind)
    BY <1>4
  <2> QED
    BY <1>0, <1>3, <1>5, <1>6, <2>1, <2>3, <2>4, TalkScreenStep
<1> QED
  BY <1>1, <1>7, <1>9, <1>10, <1>11, <1>12, <1>13

LEMMA JoinThreadKeeps ==
  ASSUME Wired, TalkInv, NEW s \in On(TalkScreens), JoinThread(s), UNCHANGED scene
  PROVE  Wired' /\ TalkInv' /\ \A t \in scene.screens \ TalkScreens : screen'[t] = screen[t]
<1> DEFINE r == screen[s]
<1>0. UNCHANGED <<losses, talkVars>>
  BY DEF JoinThread, JoinRoom
<1>1. Holds(r) /\ LineOK(s, r) /\ losses \in Nat
  BY TalkPage
<1>2. PICK room \in r.joining : \E allowed :
        Put(s, [r EXCEPT !.joining = @ \ {room}, !.rooms = IF allowed THEN @ \cup {room} ELSE @])
  BY DEF JoinThread, JoinRoom
<1>a. PICK allowed : Put(s, [r EXCEPT !.joining = @ \ {room}, !.rooms = IF allowed THEN @ \cup {room} ELSE @])
  BY <1>2
<1>b. PICK m : m = IF allowed THEN r.rooms \cup {room} ELSE r.rooms
  OBVIOUS
<1>c. PICK new : new = [r EXCEPT !.joining = r.joining \ {room}, !.rooms = m]
  OBVIOUS
<1>3. Put(s, new) /\ r.rooms \subseteq m
  BY <1>a, <1>b, <1>c
<1> HIDE DEF r
<1>4. /\ Holds(new) /\ r.rooms \subseteq new.rooms /\ new.link = r.link /\ new.inbox = r.inbox /\ Stays(r, new)
  BY <1>1, <1>3, <1>c DEF Holds, Stays
<1>5. r.link = "up"
  BY <1>1, <1>2 DEF LineOK
<1>6. LineOK(s, new)
  BY <1>1, <1>4, <1>5 DEF LineOK
<1>7. /\ new.shown = screen[s].shown /\ new.reads = screen[s].reads /\ new.behind = screen[s].behind
      /\ new.link = screen[s].link
      /\ ~News(new, useUserChannel) => ~News(screen[s], useUserChannel)
  BY <1>4 DEF Stays, r, News
<1> QED
  BY <1>0, <1>3, <1>4, <1>6, <1>7, TalkSame

LEMMA PressKeepsTalk ==
  ASSUME Wired, TalkInv, NEW s \in On(TalkScreens), Press(s), UNCHANGED scene
  PROVE  Wired' /\ TalkInv' /\ \A t \in scene.screens \ TalkScreens : screen'[t] = screen[t]
<1> DEFINE r == screen[s]
<1>0. UNCHANGED <<losses, talkVars>> /\ TalkKind[s] = "notices"
  BY DEF Press
<1>1. Holds(r) /\ LineOK(s, r) /\ TalkScreenOK(s, r) /\ losses \in Nat
  BY TalkPage
<1>2. ASSUME NEW now, Holds(now), LineOK(s, now), TalkScreenOK(s, now), NEW what, what.op \in NOTICE_OPS,
             Put(s, refresh(now, what))
      PROVE  Wired' /\ TalkInv' /\ \A t \in scene.screens \ TalkScreens : screen'[t] = screen[t]
  <2>1. PICK new : new = refresh(now, what)
    OBVIOUS
  <2>2. Holds(new) /\ LineOK(s, new) /\ TalkScreenOK(s, new) /\ Follows(s, new) /\ new.reads # <<>>
    BY <1>0, <1>2, <2>1, TalkAsks
  <2>3. Put(s, new) /\ losses' \in Nat
    BY <1>0, <1>1, <1>2, <2>1
  <2> QED
    BY <1>0, <2>2, <2>3, TalkScreenStep
<1>3. \A op, only, page : Fetch(op, only, page).op = op
  BY DEF Fetch
<1>4. CASE LET now == [r EXCEPT !.shown.only = ~@]
           IN  Put(s, refresh(now, Fetch("reset", now.shown.only, 1)))
  <2>1. PICK x : [r EXCEPT !.shown.only = ~@] = [r EXCEPT !.shown = x]
    OBVIOUS
  <2>2. PICK now : now = [r EXCEPT !.shown.only = ~@]
    OBVIOUS
  <2>3. PICK what : what = Fetch("reset", now.shown.only, 1)
    OBVIOUS
  <2>4. what.op \in NOTICE_OPS
    BY <1>3, <2>3 DEF NOTICE_OPS
  <2>5. Put(s, refresh(now, what))
    BY <1>4, <2>2, <2>3
  <2>6. now = [r EXCEPT !.shown = x]
    BY <2>1, <2>2
  <2>7. /\ Holds(now) /\ now.link = r.link /\ now.rooms = r.rooms /\ now.joining = r.joining
        /\ now.inbox = r.inbox /\ now.reads = r.reads /\ now.behind = r.behind
    BY <1>1, <2>6 DEF Holds
  <2>8. LineOK(s, now)
    BY <1>1, <2>7, LineStays
  <2>9. TalkScreenOK(s, now)
    BY <1>1, <2>7, TalkStays
  <2> QED
    BY <1>2, <2>4, <2>5, <2>7, <2>8, <2>9
<1>5. CASE Put(s, refresh(r, Fetch("more", Filter(r), r.shown.pages + 1)))
  <2>1. PICK what : what = Fetch("more", Filter(r), r.shown.pages + 1)
    OBVIOUS
  <2>2. what.op \in NOTICE_OPS
    BY <1>3, <2>1 DEF NOTICE_OPS
  <2> QED
    BY <1>1, <1>2, <1>5, <2>1, <2>2
<1>6. ASSUME NEW i, Put(s, refresh(r, Fetch("one", Filter(r), r.shown.items[i].id)))
      PROVE  Wired' /\ TalkInv' /\ \A t \in scene.screens \ TalkScreens : screen'[t] = screen[t]
  <2>1. PICK what : what = Fetch("one", Filter(r), r.shown.items[i].id)
    OBVIOUS
  <2>2. what.op \in NOTICE_OPS
    BY <1>3, <2>1 DEF NOTICE_OPS
  <2> QED
    BY <1>1, <1>2, <1>6, <2>1, <2>2
<1>7. CASE Put(s, refresh(r, Fetch("all", FALSE, 1)))
  <2>1. PICK what : what = Fetch("all", FALSE, 1)
    OBVIOUS
  <2>2. what.op \in NOTICE_OPS
    BY <1>3, <2>1 DEF NOTICE_OPS
  <2> QED
    BY <1>1, <1>2, <1>7, <2>1, <2>2
<1> QED
  BY <1>4, <1>5, <1>6, <1>7 DEF Press

LEMMA SendRow ==
  ASSUME Wired, TalkInv, NEW k \in scene.sends
  PROVE  /\ SendIs(sends[k]) /\ TalkRows /\ sends = [j \in scene.sends |-> sends[j]]
         /\ screen = [t \in scene.screens |-> screen[t]] /\ losses \in Nat
BY DEF Wired, TalkInv, TalkRows, SendOK

LEMMA submitKeeps ==
  ASSUME Wired, TalkInv, NEW s \in On(TalkScreens), NEW k \in scene.sends, submit(s, k), UNCHANGED scene
  PROVE  Wired' /\ TalkInv' /\ \A t \in scene.screens \ TalkScreens : screen'[t] = screen[t]
<1> DEFINE r == screen[s]
<1>0. /\ UNCHANGED <<losses, opened, messages, notices, autoReply, receipts, pages>> /\ TalkKind[s] = "thread"
      /\ sends[k].pc = "idle" /\ r.link # "closed"
  BY DEF submit
<1>1. PICK x : x = [pc |-> "commit", conversation |-> ThreadOf[s], sender |-> OwnerOf[s], from |-> s]
  OBVIOUS
<1>2. sends' = [sends EXCEPT ![k] = x]
  BY <1>1 DEF submit
<1>3. PICK new : new = [r EXCEPT !.busy = TRUE]
  OBVIOUS
<1>4. Put(s, new)
  BY <1>3 DEF submit
<1>5. /\ Holds(r) /\ LineOK(s, r) /\ TalkScreenOK(s, r) /\ losses \in Nat /\ TalkRows
      /\ s \in TalkScreens /\ s \in Screens
  BY TalkPage, TalkAssumption
<1>6. SendIs(x)
  <2>1. ThreadOf[s] \in Conversations /\ OwnerOf[s] \in People(ThreadOf[s])
    BY <1>0, <1>5, TalkAssumption DEF People
  <2>2. OwnerOf[s] \in Persons
    BY <2>1 DEF Persons
  <2> QED
    BY <1>0, <1>1, <1>5, <2>1, <2>2 DEF SendIs
<1>7. x.pc # "emit" /\ sends[k].pc # "emit"
  BY <1>0, <1>1
<1>8. /\ sends' = [j \in scene.sends |-> sends'[j]] /\ \A j \in scene.sends : SendOK(j)'
      /\ \A u : Told(u)' <=> Told(u)
  BY <1>2, <1>5, <1>6, <1>7, SendMoved
<1> HIDE DEF r
<1>9. /\ Holds(new) /\ new.link = r.link /\ new.rooms = r.rooms /\ new.joining = r.joining
      /\ new.inbox = r.inbox /\ new.reads = r.reads /\ new.behind = r.behind
  BY <1>3, <1>5 DEF Holds
<1>10. LineOK(s, new)
  BY <1>5, <1>9, LineStays
<1>11. TalkScreenOK(s, new)
  BY <1>5, <1>9, TalkStays
<1>12. Follows(s, new) /\ TalkKind[s] # "notices"
  BY <1>0, MutedFollows
<1>13. losses' \in Nat
  BY <1>0, <1>5
<1> QED
  BY <1>0, <1>4, <1>8, <1>9, <1>10, <1>11, <1>12, <1>13, TalkOne

LEMMA AnswerSendKeeps ==
  ASSUME Wired, TalkInv, NEW k \in scene.sends, AnswerSend(k), UNCHANGED scene
  PROVE  Wired' /\ TalkInv' /\ \A t \in scene.screens \ TalkScreens : screen'[t] = screen[t]
<1> DEFINE s == sends[k].from
           r == screen[s]
<1>0. /\ UNCHANGED <<losses, opened, messages, notices, autoReply, receipts, pages>>
      /\ sends[k].pc \in {"answer", "dead"} /\ s # Nothing
  BY DEF AnswerSend
<1>1. PICK x : x = [sends[k] EXCEPT !.pc = "done"]
  OBVIOUS
<1>2. SendIs(sends[k]) /\ TalkRows
  BY SendRow
<1>3. sends' = [sends EXCEPT ![k] = x]
  <2>1. sends' = [sends EXCEPT ![k] = [sends[k] EXCEPT !.pc = "done"]]
    BY DEF AnswerSend
  <2> QED
    BY <1>1, <2>1
<1>4. SendIs(x) /\ x.pc = "done"
  BY <1>0, <1>1, <1>2 DEF SendIs
<1>5. s \in On(TalkScreens) /\ TalkKind[s] = "thread"
  BY <1>0, <1>2 DEF SendIs
<1>6. x.pc # "emit" /\ sends[k].pc # "emit"
  BY <1>0, <1>4
<1>7. /\ sends' = [j \in scene.sends |-> sends'[j]] /\ \A j \in scene.sends : SendOK(j)'
      /\ \A u : Told(u)' <=> Told(u)
  BY <1>2, <1>3, <1>4, <1>6, SendMoved
<1>8. /\ Holds(r) /\ LineOK(s, r) /\ TalkScreenOK(s, r) /\ losses \in Nat
  BY <1>5, TalkPage
<1>9. PICK after : after = [r EXCEPT !.busy = FALSE]
  OBVIOUS
<1>10. PICK new : new = IF r.link = "closed" THEN r
                        ELSE IF sends[k].pc = "answer" THEN refresh(after, "page")
                        ELSE [after EXCEPT !.failed = TRUE]
  OBVIOUS
<1>11. Put(s, new)
  BY <1>9, <1>10 DEF AnswerSend
<1>s. PICK t \in On(TalkScreens) : t = s /\ TalkKind[t] = "thread"
  BY <1>5
<1>t. losses' \in Nat /\ Put(t, new) /\ LineOK(t, r) /\ TalkScreenOK(t, r)
  BY <1>0, <1>8, <1>11, <1>s
<1> HIDE DEF r, s
<1>12. /\ Holds(after) /\ after.link = r.link /\ after.rooms = r.rooms /\ after.joining = r.joining
       /\ after.inbox = r.inbox /\ after.reads = r.reads /\ after.behind = r.behind
  BY <1>8, <1>9 DEF Holds
<1>13. LineOK(t, after) /\ TalkScreenOK(t, after)
  <2>1. LineOK(t, after)
    BY <1>t, <1>12, LineStays
  <2>2. TalkScreenOK(t, after)
    BY <1>t, <1>12, TalkStays
  <2> QED
    BY <2>1, <2>2
<1>14. Holds(new) /\ LineOK(t, new) /\ TalkScreenOK(t, new)
  <2>1. CASE r.link = "closed"
    BY <1>8, <1>t, <1>10, <2>1
  <2>2. CASE r.link # "closed" /\ sends[k].pc = "answer"
    <3>1. new = refresh(after, "page") /\ TalkKind[t] # "header" /\ TalkKind[t] # "notices"
      BY <1>10, <1>s, <2>2
    <3>2. LET q == refresh(after, "page") IN Holds(q) /\ LineOK(t, q) /\ TalkScreenOK(t, q)
      BY <1>12, <1>13, <3>1, TalkAsks
    <3> QED
      BY <3>1, <3>2
  <2>3. CASE r.link # "closed" /\ sends[k].pc # "answer"
    <3>1. new = [after EXCEPT !.failed = TRUE]
      BY <1>10, <2>3
    <3>2. /\ Holds(new) /\ new.link = after.link /\ new.rooms = after.rooms /\ new.joining = after.joining
          /\ new.inbox = after.inbox /\ new.reads = after.reads /\ new.behind = after.behind
      BY <1>12, <3>1 DEF Holds
    <3>3. LineOK(t, new)
      BY <1>13, <3>2, LineStays
    <3>4. TalkScreenOK(t, new)
      BY <1>13, <3>2, TalkStays
    <3> QED
      BY <3>2, <3>3, <3>4
  <2> QED
    BY <2>1, <2>2, <2>3
<1>15. Follows(t, new) /\ TalkKind[t] # "notices"
  BY <1>s, MutedFollows
<1> QED
  BY <1>0, <1>7, <1>t, <1>14, <1>15, TalkOne

\* What a read for the bell, the dot or the list returns is good.
LEMMA ViewIsGood ==
  ASSUME TalkRows, NEW s, TalkKind[s] \in {"list", "bell", "header"}
  PROVE  Good(s, View(s))
<1>1. CASE TalkKind[s] \in {"bell", "header"}
  <2>1. View(s) = unreadCount(OwnerOf[s]) /\ unreadCount(OwnerOf[s]) \in Nat
    BY <1>1, Counted DEF View
  <2> QED
    BY <1>1, <2>1 DEF Good
<1>2. CASE TalkKind[s] = "list"
  <2>1. View(s) = listConversations(OwnerOf[s])
    BY <1>2 DEF View
  <2>2. ASSUME NEW c \in Conversations, messages[c] # <<>>, OwnerOf[s] \in People(c)
        PROVE  c \in DOMAIN View(s) /\ View(s)[c].last = Len(messages[c])
    BY <2>1, <2>2 DEF TalkRows, listConversations
  <2> QED
    BY <1>2, <2>2 DEF Good
<1> QED
  BY <1>1, <1>2

LEMMA WiredSame ==
  ASSUME Wired, UNCHANGED <<channelVars, scene>>
  PROVE  Wired' /\ screen' = screen /\ losses' = losses
BY DEF Wired, channelVars, Holds, LineOK

\* What is known of the messages of a thread once those of a receipt are marked.
MarkedFor(m, x) ==
  LET c == ThreadOf[x.from]
  IN  /\ m \in Seq([sender : Persons, read : BOOLEAN]) /\ Len(m) = Len(messages[c])
      /\ m = <<>> <=> messages[c] = <<>>
      /\ DOMAIN m = DOMAIN messages[c]
      /\ \A i \in DOMAIN m : /\ m[i].sender = messages[c][i].sender
                             /\ m[i].read => messages[c][i].read \/ i \in x.answer.unread

\* The marks of a receipt.
LEMMA MarkedFacts ==
  ASSUME TalkRows, NEW x \in receipts
  PROVE  MarkedFor(MarkedRead(x), x)
<1> DEFINE S == [sender : Persons, read : BOOLEAN]
           old == messages[ThreadOf[x.from]]
           new == x.answer.unread
           m == MarkedRead(x)
<1>1. old \in Seq(S)
  <2>1. ReceiptOK(x)
    BY DEF TalkRows
  <2>2. ThreadOf[x.from] \in Conversations
    BY <2>1, TalkAssumption DEF ReceiptOK
  <2> QED
    BY <2>2 DEF TalkRows
<1>2. Len(old) \in Nat /\ DOMAIN old = 1..Len(old) /\ \A i \in DOMAIN old : old[i] \in S
  <2> HIDE DEF S, old
  <2> QED
    BY <1>1
<1>3. m = [i \in 1..Len(old) |-> [old[i] EXCEPT !.read = @ \/ i \in new]]
  BY <1>2 DEF MarkedRead
<1>4. ASSUME NEW i \in 1..Len(old)
      PROVE  /\ m[i] \in S /\ m[i].sender = old[i].sender
             /\ m[i].read => old[i].read \/ i \in new
  <2>1. old[i] \in S
    BY <1>2
  <2>2. CASE i \in new
    <3>1. m[i] = [old[i] EXCEPT !.read = TRUE]
      BY <1>3, <2>1, <2>2
    <3> QED
      BY <2>1, <2>2, <3>1
  <2>3. CASE i \notin new
    <3>1. m[i] = [old[i] EXCEPT !.read = @]
      BY <1>3, <2>1, <2>3
    <3> QED
      BY <2>1, <3>1
  <2> QED
    BY <2>2, <2>3
<1>5. m = [i \in 1..Len(old) |-> m[i]]
  BY <1>3
<1> HIDE DEF m, S, new
<1>6. IsList(m) /\ Len(m) = Len(old) /\ DOMAIN m = 1..Len(old)
  BY <1>2, <1>5, SeqIntro
<1>7. m \in [1..Len(old) -> S]
  BY <1>4, <1>5
<1>8. m \in Seq(S)
  BY <1>2, <1>7, SeqDef
<1>9. m = <<>> <=> old = <<>>
  <2>1. IsList(old)
    <3>1. old = [i \in 1..Len(old) |-> old[i]]
      BY <1>1, <1>2
    <3> QED
      BY <1>2, <3>1, SeqIntro
  <2>2. (m = <<>> <=> Len(m) = 0) /\ (old = <<>> <=> Len(old) = 0)
    BY <1>6, <2>1, SeqFacts
  <2> QED
    BY <1>6, <2>2
<1> QED
  BY <1>2, <1>4, <1>6, <1>8, <1>9 DEF MarkedFor, m, S, new

\* A page is read: what was said stays, the page counts as held, and what is new
\* on it is put down for marking.
LEMMA PageRead ==
  ASSUME TalkRows, NEW s \in TalkScreens, TalkKind[s] = "thread", UNCHANGED <<scene, opened, messages, notices, sends>>,
         pages' = [pages EXCEPT ![ThreadOf[s]][OwnerOf[s]] = Max({@, PageOf(ThreadOf[s])})],
         receipts' = receipts \cup {x \in {[from |-> s, answer |-> View(s)]} : x.answer.unread # {}}
  PROVE  TalkRows'
<1> DEFINE c == ThreadOf[s]
           u == OwnerOf[s]
<1>1. c \in Conversations /\ u \in People(c)
  BY TalkAssumption DEF People
<1>2. PICK n : n = PageOf(c)
  OBVIOUS
<1>3. n \in Nat
  <2>1. Len(messages[c]) \in Nat /\ ThreadPage \in Nat
    BY <1>1, TalkAssumption DEF TalkRows
  <2>2. Min({Len(messages[c]), ThreadPage}) \in Nat
    BY <2>1, MinOfTwo
  <2> QED
    BY <1>2, <2>2 DEF PageOf
<1>4. pages = [d \in Conversations |-> pages[d]] /\ \A d \in Conversations : pages[d] \in [People(d) -> Nat]
  BY DEF TalkRows
<1>5. PICK y : y = Max({pages[c][u], n})
  OBVIOUS
<1>6. y \in Nat /\ y >= pages[c][u] /\ y >= n /\ pages[c][u] \in Nat
  <2>1. pages[c][u] \in Nat
    BY <1>1, <1>4
  <2> QED
    BY <1>3, <1>5, <2>1, MaxOfTwo
<1>7. pages' = [pages EXCEPT ![c] = [pages[c] EXCEPT ![u] = y]]
  BY <1>2, <1>5
<1>8. ASSUME NEW i \in View(s).unread
      PROVE  i \in DOMAIN messages[c] /\ messages[c][i].sender # u /\ i <= n
  <2>1. View(s).unread = {j \in 1..n : messages[c][j].sender # u /\ ~messages[c][j].read}
    BY <1>2 DEF View, listMessages
  <2>2. Len(messages[c]) \in Nat /\ DOMAIN messages[c] = 1..Len(messages[c])
    BY <1>1 DEF TalkRows
  <2>3. n <= Len(messages[c])
    BY <1>2, <2>2, MinOfTwo, TalkAssumption DEF PageOf
  <2>4. i \in 1..n /\ messages[c][i].sender # u
    BY <1>8, <2>1
  <2> HIDE DEF c, u
  <2> QED
    BY <1>3, <2>2, <2>3, <2>4
<1> HIDE DEF c, u
<1>9. /\ pages' = [d \in Conversations |-> pages'[d]]
      /\ \A d \in Conversations \ {c} : pages'[d] = pages[d]
      /\ pages'[c] = [pages[c] EXCEPT ![u] = y]
  BY <1>1, <1>4, <1>7
<1>10. pages'[c] \in [People(c) -> Nat] /\ pages'[c][u] = y /\ \A w \in People(c) \ {u} : pages'[c][w] = pages[c][w]
  <2>1. PICK old, row, P : old = pages[c] /\ row = pages'[c] /\ P = People(c)
    OBVIOUS
  <2>2. old \in [P -> Nat] /\ row = [old EXCEPT ![u] = y] /\ u \in P /\ y \in Nat
    BY <1>1, <1>4, <1>6, <1>9, <2>1
  <2>3. row \in [P -> Nat] /\ row[u] = y /\ \A w \in P \ {u} : row[w] = old[w]
    BY <2>2
  <2> QED
    BY <2>1, <2>3
<1>11. ASSUME NEW d \in Conversations, NEW w \in People(d)
       PROVE  pages[d][w] \in Nat /\ pages'[d][w] \in Nat /\ pages'[d][w] >= pages[d][w]
  <2>1. pages[d][w] \in Nat
    BY <1>4
  <2>2. CASE d = c /\ w = u
    BY <1>6, <1>10, <2>2
  <2>3. CASE ~(d = c /\ w = u)
    <3>1. pages'[d][w] = pages[d][w]
      BY <1>9, <1>10, <2>3
    <3> QED
      BY <2>1, <3>1
  <2> QED
    BY <2>2, <2>3
<1>12. ASSUME NEW d \in Conversations, NEW i \in DOMAIN messages[d] PROVE MessageOK(d, i)'
  <2>1. PICK w : w = messages[d][i].sender
    OBVIOUS
  <2>2. w \in People(d) /\ (messages[d][i].read => i <= pages[d][Other(d, w)]) /\ i \in Nat
    BY <2>1 DEF TalkRows, MessageOK
  <2>3. Other(d, w) \in People(d)
    BY <2>2, OtherFacts
  <2>4. messages[d][i].read => i <= pages'[d][Other(d, w)]
    <3>1. PICK p, q : p = pages[d][Other(d, w)] /\ q = pages'[d][Other(d, w)]
      OBVIOUS
    <3>2. p \in Nat /\ q \in Nat /\ q >= p
      BY <1>11, <2>3, <3>1
    <3> QED
      BY <2>2, <3>1, <3>2
  <2> QED
    BY <2>1, <2>2, <2>4 DEF MessageOK
<1>13. ASSUME NEW x \in receipts' PROVE ReceiptOK(x)'
  <2>1. CASE x \in receipts
    BY <1>11, <2>1, ReceiptsStand
  <2>2. CASE x \notin receipts
    <3>1. x.from = s /\ x.answer.unread = View(s).unread
      BY <2>2
    <3>2. ASSUME NEW i \in x.answer.unread
          PROVE  i \in DOMAIN messages[c] /\ messages[c][i].sender # u /\ i <= pages'[c][u]
      <4>1. i \in DOMAIN messages[c] /\ messages[c][i].sender # u /\ i <= n
        BY <1>8, <3>1, <3>2
      <4>2. i \in Nat
        BY <1>1, <4>1 DEF TalkRows
      <4>3. i <= y
        BY <1>3, <1>6, <4>1, <4>2
      <4> QED
        BY <1>10, <4>1, <4>3
    <3> QED
      BY <3>1, <3>2 DEF ReceiptOK, c, u
  <2> QED
    BY <2>1, <2>2
<1>14. /\ sends' = [k \in scene.sends |-> sends'[k]] /\ \A k \in scene.sends : SendOK(k)'
  BY SendsStay
<1>15. \A d \in Conversations : pages'[d] \in [People(d) -> Nat]
  BY <1>4, <1>9, <1>10
<1> QED
  BY <1>9, <1>12, <1>13, <1>14, <1>15 DEF TalkRows

\* Marking changes neither who said what nor how much was said.
LEMMA MarkReadKeeps ==
  ASSUME Wired, TalkInv, NEW x \in receipts, MarkRead(x), UNCHANGED scene
  PROVE  Wired' /\ TalkInv' /\ \A t \in scene.screens : Carried(screen[t], screen'[t])
<1> DEFINE c == ThreadOf[x.from]
           u == OwnerOf[x.from]
           S == [sender : Persons, read : BOOLEAN]
<1>0. /\ UNCHANGED <<channelVars, opened, notices, sends, pages>> /\ receipts' \subseteq receipts
      /\ On(TalkScreens)' = On(TalkScreens) /\ TalkRows
  BY DEF MarkRead, On, TalkInv
<1>1. Wired' /\ screen' = screen
  BY <1>0, WiredSame
<1>2. ReceiptOK(x)
  BY <1>0 DEF TalkRows
<1>3. c \in Conversations /\ u \in People(c)
  BY <1>2, TalkAssumption DEF ReceiptOK, People
<1>4. PICK m : m = MarkedRead(x)
  OBVIOUS
<1>5. /\ m \in Seq(S) /\ Len(m) = Len(messages[c]) /\ (m = <<>> <=> messages[c] = <<>>)
      /\ DOMAIN m = DOMAIN messages[c]
      /\ \A i \in DOMAIN m : /\ m[i].sender = messages[c][i].sender
                             /\ m[i].read => messages[c][i].read \/ i \in x.answer.unread
  <2>1. MarkedFor(m, x)
    BY <1>0, <1>4, MarkedFacts
  <2> QED
    BY <2>1 DEF MarkedFor
<1>6. \A i \in x.answer.unread : messages[c][i].sender # u /\ i <= pages[c][u]
  BY <1>2 DEF ReceiptOK
<1>7. messages' = [messages EXCEPT ![c] = m]
  BY <1>4 DEF MarkRead
<1> HIDE DEF c, u, S
<1>8. /\ messages' \in [Conversations -> Seq(S)] /\ messages'[c] = m
      /\ \A d \in Conversations \ {c} : messages'[d] = messages[d]
  <2>1. m \in Seq(S) /\ messages \in [Conversations -> Seq(S)]
    BY <1>0, <1>5 DEF TalkRows, S
  <2> QED
    BY <1>3, <1>7, <2>1
<1>9. ASSUME NEW d \in Conversations, NEW i \in DOMAIN messages'[d] PROVE MessageOK(d, i)'
  <2>1. CASE d # c
    <3>1. MessageOK(d, i) /\ messages'[d] = messages[d]
      BY <1>0, <1>8, <1>9, <2>1 DEF TalkRows
    <3> QED
      BY <1>0, <3>1 DEF MessageOK
  <2>2. CASE d = c
    <3>1. /\ i \in DOMAIN messages[c] /\ messages'[c][i].sender = messages[c][i].sender
          /\ messages'[c][i].read => messages[c][i].read \/ i \in x.answer.unread
      BY <1>5, <1>8, <1>9, <2>2
    <3>2. PICK w : w = messages[c][i].sender
      OBVIOUS
    <3>3. w \in People(c) /\ (messages[c][i].read => i <= pages[c][Other(c, w)])
      BY <1>0, <1>3, <3>1, <3>2 DEF TalkRows, MessageOK
    <3>4. i \in x.answer.unread => i <= pages[c][Other(c, w)]
      BY <1>3, <1>6, <3>2, <3>3, OtherFacts
    <3> QED
      BY <1>0, <2>2, <3>1, <3>2, <3>3, <3>4 DEF MessageOK
  <2> QED
    BY <2>1, <2>2
<1>10. ASSUME NEW y \in receipts' PROVE ReceiptOK(y)'
  <2>1. \A d \in Conversations : \A i \in DOMAIN messages[d] :
          i \in DOMAIN messages'[d] /\ messages'[d][i].sender = messages[d][i].sender
    BY <1>5, <1>8
  <2>2. \A d \in Conversations : \A w \in People(d) : pages'[d][w] \in Nat /\ pages'[d][w] >= pages[d][w]
    BY <1>0 DEF TalkRows
  <2> QED
    BY <1>0, <2>1, <2>2, ReceiptsStand
<1>11. \A d \in Conversations : messages'[d] # <<>> => d \in opened
  BY <1>0, <1>5, <1>8 DEF TalkRows
<1>12. /\ sends' = [k \in scene.sends |-> sends'[k]] /\ \A k \in scene.sends : SendOK(k)'
       /\ \A w : Told(w)' <=> Told(w)
  BY <1>0, SendsStay
<1>13. TalkRows'
  BY <1>0, <1>8, <1>9, <1>10, <1>11, <1>12 DEF TalkRows, S
<1>14. \A w : Marking(w) => Marking(w)'
  BY <1>0, <1>1 DEF Marking
<1>15. ASSUME NEW d \in Conversations, messages'[d] # <<>>
       PROVE  messages[d] # <<>> /\ Last(messages'[d]).sender = Last(messages[d]).sender
              /\ Len(messages'[d]) = Len(messages[d])
  <2>1. CASE d # c
    BY <1>8, <1>15, <2>1
  <2>2. CASE d = c
    <3>1. m # <<>> /\ messages[c] # <<>> /\ Len(m) = Len(messages[c])
      BY <1>5, <1>8, <1>15, <2>2
    <3>2. Len(m) \in DOMAIN m
      <4>1. m \in Seq(S)
        BY <1>5
      <4> QED
        BY <3>1, <4>1
    <3>3. Last(m) = m[Len(m)] /\ Last(messages[c]) = messages[c][Len(m)]
      BY <3>1 DEF Last
    <3> QED
      BY <1>5, <1>8, <2>2, <3>1, <3>2, <3>3
  <2> QED
    BY <2>1, <2>2
<1>16. ASSUME NEW t \in On(TalkScreens) PROVE TalkScreenOK(t, screen[t])' /\ Follows(t, screen[t])'
  <2>1. PICK q : q = screen[t]
    OBVIOUS
  <2>2. TalkScreenOK(t, q) /\ Follows(t, q)
    BY <2>1 DEF TalkInv
  <2>3. TalkScreenOK(t, q)'
    BY <2>2 DEF TalkScreenOK, Asking
  <2>4. unreadCount(OwnerOf[t])' = unreadCount(OwnerOf[t]) /\ unreadCount(OwnerOf[t]) \in Nat
    BY <1>0, Counted DEF unreadCount
  <2>5. unreadCount(OwnerOf[t])' \in Nat /\ unreadCount(OwnerOf[t])' <= unreadCount(OwnerOf[t])
    BY <2>4
  <2>6. \A v : Good(t, v) => Good(t, v)'
    BY <1>14, <1>15, <2>4, <2>5, GoodStays
  <2>7. Follows(t, q)'
    BY <1>12, <2>2, <2>6, FollowsStays
  <2> QED
    BY <1>1, <2>1, <2>3, <2>7
<1>17. \A t \in On(TalkScreens)' : TalkScreenOK(t, screen[t])' /\ Follows(t, screen[t])'
  BY <1>0, <1>16
<1>18. \A t \in scene.screens : Carried(screen[t], screen'[t])
  BY <1>1, CarriedSame DEF Wired
<1> QED
  BY <1>1, <1>13, <1>17, <1>18 DEF TalkInv

LEMMA ServeReadKeeps ==
  ASSUME Wired, TalkInv, NEW s \in On(TalkScreens), ServeRead(s), UNCHANGED scene
  PROVE  Wired' /\ TalkInv' /\ \A t \in scene.screens \ TalkScreens : screen'[t] = screen[t]
<1> DEFINE r == screen[s]
<1>0. UNCHANGED <<losses, opened, messages, notices, autoReply, sends>> /\ TalkKind[s] # "notices"
  BY DEF ServeRead
<1>1. PICK v : v = View(s)
  OBVIOUS
<1>2. PICK i \in DOMAIN r.reads : ~r.reads[i].served /\ Put(s, Served(r, i, v))
  BY <1>1 DEF ServeRead
<1>3. PICK new : new = Served(r, i, v)
  OBVIOUS
<1>4. /\ Holds(r) /\ LineOK(s, r) /\ TalkScreenOK(s, r) /\ Follows(s, r) /\ Asking(r) /\ losses \in Nat
      /\ TalkKind[s] \in {"thread", "list", "bell", "header", "notices"} /\ TalkRows /\ s \in TalkScreens
  BY TalkPage
<1>5. Put(s, new) /\ losses' \in Nat
  BY <1>0, <1>2, <1>3, <1>4
<1>r. /\ TalkKind[s] = "thread" =>
           /\ pages' = [pages EXCEPT ![ThreadOf[s]][OwnerOf[s]] = Max({@, PageOf(ThreadOf[s])})]
           /\ receipts' = receipts \cup {x \in {[from |-> s, answer |-> View(s)]} : x.answer.unread # {}}
      /\ TalkKind[s] # "thread" => UNCHANGED <<receipts, pages>>
  BY DEF ServeRead
<1> HIDE DEF r
<1>6. /\ Holds(new) /\ SameButReads(new, r) /\ Asking(new) /\ Len(new.reads) = Len(r.reads)
      /\ new.reads # <<>> /\ r.reads # <<>>
      /\ Newest(new) = Newest(r) \/ (Newest(new).value = v /\ Newest(new).overtaken = Newest(r).overtaken)
  BY <1>3, <1>4, ServedTells
<1>7. LineOK(s, new)
  BY <1>4, <1>6, LineStays DEF SameButReads
<1>8. TalkScreenOK(s, new)
  BY <1>0, <1>4, <1>6 DEF TalkScreenOK, SameButReads
<1>9. CASE TalkKind[s] = "thread"
  <2>1. TalkRows'
    BY <1>0, <1>4, <1>9, <1>r, PageRead
  <2>2. Follows(s, new)
    BY <1>9, MutedFollows
  <2>3. \A u : Told(u)' <=> Told(u)
    BY <1>0, <1>4, SendsStay
  <2> QED
    BY <1>0, <1>5, <1>6, <1>7, <1>8, <2>1, <2>2, <2>3, TalkOneRows
<1>10. CASE TalkKind[s] # "thread"
  <2>1. UNCHANGED <<receipts, pages>> /\ TalkKind[s] \in {"list", "bell", "header"}
    BY <1>0, <1>4, <1>10, <1>r
  <2>2. Good(s, v)
    BY <1>1, <1>4, <2>1, ViewIsGood
  <2>3. ASSUME new.link = "up", ~News(new, useUserChannel), Told(OwnerOf[s]) PROVE Shows(s, new)
    <3>1. Shows(s, r)
      BY <1>4, <1>6, <2>3 DEF Follows, News, SameButReads
    <3> QED
      BY <1>6, <2>2, <3>1 DEF Shows
  <2>4. Follows(s, new)
    BY <2>3 DEF Follows
  <2>5. UNCHANGED <<talkVars, scene>>
    BY <1>0, <2>1 DEF talkVars
  <2> QED
    BY <1>0, <1>5, <1>6, <1>7, <1>8, <2>4, <2>5, TalkScreenStep
<1> QED
  BY <1>9, <1>10

\* Marks only take away from what is unread, and only of the one who makes them.
LEMMA NoticesMarked ==
  ASSUME TalkRows, NEW marks, NEW u,
         notices' = [j \in DOMAIN notices |-> [notices[j] EXCEPT !.read = @ \/ j \in marks]],
         \A j \in marks : notices[j].userId = u
  PROVE  /\ notices' \in Seq([id : {0}, userId : Persons, read : BOOLEAN])
         /\ \A w : /\ unreadCount(w) \in Nat /\ unreadCount(w)' \in Nat
                   /\ unreadCount(w)' <= unreadCount(w)
                   /\ w # u => unreadCount(w)' = unreadCount(w)
<1> DEFINE S == [id : {0}, userId : Persons, read : BOOLEAN]
           old == notices
<1>1. old \in Seq(S)
  BY DEF TalkRows
<1>2. Len(old) \in Nat /\ DOMAIN old = 1..Len(old) /\ \A j \in DOMAIN old : old[j] \in S
  <2> HIDE DEF S, old
  <2> QED
    BY <1>1
<1>3. PICK m : m = notices'
  OBVIOUS
<1>4. m = [j \in 1..Len(old) |-> [old[j] EXCEPT !.read = @ \/ j \in marks]]
  BY <1>2, <1>3
<1>5. ASSUME NEW j \in 1..Len(old)
      PROVE  /\ m[j] \in S /\ m[j].userId = old[j].userId
             /\ j \in marks => m[j].read
             /\ j \notin marks => m[j].read = old[j].read
             /\ old[j].read => m[j].read
  <2>1. old[j] \in S
    BY <1>2
  <2>2. CASE j \in marks
    <3>1. m[j] = [old[j] EXCEPT !.read = TRUE]
      BY <1>4, <2>1, <2>2
    <3> QED
      BY <2>1, <2>2, <3>1
  <2>3. CASE j \notin marks
    <3>1. m[j] = [old[j] EXCEPT !.read = @]
      BY <1>4, <2>1, <2>3
    <3> QED
      BY <2>1, <2>3, <3>1
  <2> QED
    BY <2>2, <2>3
<1>6. m = [j \in 1..Len(old) |-> m[j]] /\ DOMAIN m = 1..Len(old)
  BY <1>4
<1>7. m \in Seq(S)
  <2> HIDE DEF S, old
  <2>1. m \in [1..Len(old) -> S]
    BY <1>5, <1>6
  <2> QED
    BY <1>2, <2>1, SeqDef
<1>8. ASSUME NEW w
      PROVE  /\ unreadCount(w) \in Nat /\ unreadCount(w)' \in Nat
             /\ unreadCount(w)' <= unreadCount(w)
             /\ w # u => unreadCount(w)' = unreadCount(w)
  <2> DEFINE A == {j \in DOMAIN notices : notices[j].userId = w /\ ~notices[j].read}
             B == {j \in DOMAIN m : m[j].userId = w /\ ~m[j].read}
  <2>1. IsFiniteSet(A) /\ unreadCount(w) \in Nat
    BY Counted
  <2>2. B \subseteq A
    BY <1>2, <1>5, <1>6
  <2>3. w # u => B = A
    BY <1>2, <1>5, <1>6
  <2>4. unreadCount(w) = Cardinality(A)
    BY DEF unreadCount
  <2>5. unreadCount(w)' = Cardinality(B)
    BY <1>3 DEF unreadCount
  <2> HIDE DEF A, B
  <2>6. IsFiniteSet(B) /\ Cardinality(B) <= Cardinality(A)
    BY <2>1, <2>2, FS_Subset
  <2>7. Cardinality(B) \in Nat
    BY <2>6, FS_CardinalityType
  <2> QED
    BY <2>1, <2>3, <2>4, <2>5, <2>6, <2>7
<1> QED
  BY <1>3, <1>7, <1>8

LEMMA ServeNoticesKeeps ==
  ASSUME Wired, TalkInv, NEW s \in On(TalkScreens), ServeNotices(s), UNCHANGED scene
  PROVE  Wired' /\ TalkInv' /\ \A t \in scene.screens \ TalkScreens : screen'[t] = screen[t]
<1> DEFINE r == screen[s]
           marked(i) == {j \in DOMAIN notices :
                           /\ notices[j].userId = OwnerOf[s]
                           /\ r.reads[i].what.op = "all" \/ (r.reads[i].what.op = "one" /\ r.reads[i].what.page = j)}
<1>0. UNCHANGED <<losses, opened, messages, autoReply, sends, receipts, pages>> /\ TalkKind[s] = "notices"
  BY DEF ServeNotices
<1>1. PICK i \in DOMAIN r.reads :
        /\ Put(s, Served(r, i, IF r.reads[i].what.op \in {"one", "all"} THEN Nothing
                               ELSE listNotices(OwnerOf[s], r.reads[i].what.only, r.reads[i].what.page)))
        /\ notices' = [j \in DOMAIN notices |-> [notices[j] EXCEPT !.read = @ \/ j \in marked(i)]]
  BY DEF ServeNotices
<1>2. PICK v : v = IF r.reads[i].what.op \in {"one", "all"} THEN Nothing
                   ELSE listNotices(OwnerOf[s], r.reads[i].what.only, r.reads[i].what.page)
  OBVIOUS
<1>3. PICK marks : marks = marked(i)
  OBVIOUS
<1>4. /\ notices' = [j \in DOMAIN notices |-> [notices[j] EXCEPT !.read = @ \/ j \in marks]]
      /\ \A j \in marks : notices[j].userId = OwnerOf[s]
  BY <1>1, <1>3
<1>5. PICK new : new = Served(r, i, v)
  OBVIOUS
<1>6. Put(s, new)
  BY <1>1, <1>2, <1>5
<1>7. /\ Holds(r) /\ LineOK(s, r) /\ TalkScreenOK(s, r) /\ Asking(r) /\ losses' \in Nat /\ TalkRows
      /\ s \in scene.screens /\ s \in TalkScreens
  BY <1>0, TalkPage
<1> HIDE DEF r, marked
<1>8. /\ Holds(new) /\ SameButReads(new, r) /\ Asking(new) /\ new.reads # <<>>
      /\ DOMAIN new.reads = DOMAIN r.reads
      /\ \A j \in DOMAIN new.reads : new.reads[j].what = r.reads[j].what
  BY <1>5, <1>7, ServedTells
<1>9. LineOK(s, new)
  BY <1>7, <1>8, LineStays DEF SameButReads
<1>10. TalkScreenOK(s, new)
  BY <1>0, <1>7, <1>8 DEF TalkScreenOK, SameButReads
<1>11. Wired' /\ screen'[s] = new /\ \A t \in scene.screens \ {s} : screen'[t] = screen[t]
  BY <1>6, <1>7, <1>8, <1>9, PutFacts
<1>12. /\ notices' \in Seq([id : {0}, userId : Persons, read : BOOLEAN])
       /\ \A w : /\ unreadCount(w) \in Nat /\ unreadCount(w)' \in Nat
                 /\ unreadCount(w)' <= unreadCount(w)
                 /\ w # OwnerOf[s] => unreadCount(w)' = unreadCount(w)
  BY <1>4, <1>7, NoticesMarked
<1>13. /\ sends' = [k \in scene.sends |-> sends'[k]] /\ \A k \in scene.sends : SendOK(k)'
       /\ \A w : Told(w)' <=> Told(w)
  BY <1>0, <1>7, SendsStay
<1>14. \A c \in Conversations : \A j \in DOMAIN messages[c] : MessageOK(c, j)'
  BY <1>0, <1>7 DEF TalkRows, MessageOK
<1>r. \A x \in receipts' : ReceiptOK(x)'
  BY <1>0, <1>7, ReceiptsStay
<1>15. TalkRows'
  BY <1>0, <1>7, <1>12, <1>13, <1>14, <1>r DEF TalkRows
<1>16. On(TalkScreens)' = On(TalkScreens)
  BY DEF On
<1>17. Marking(OwnerOf[s])' /\ \A w : Marking(w) => Marking(w)'
  BY <1>0, <1>7, <1>8, <1>11, <1>16 DEF Marking, On
<1>18. ASSUME NEW t \in On(TalkScreens) PROVE TalkScreenOK(t, screen[t])' /\ Follows(t, screen[t])'
  <2>1. PICK q : q = screen'[t]
    OBVIOUS
  <2>2. TalkScreenOK(t, q)
    BY <1>10, <1>11, <2>1 DEF TalkInv, On
  <2>3. TalkScreenOK(t, q)'
    BY <2>2 DEF TalkScreenOK, Asking
  <2>4. Follows(t, q)'
    <3>1. CASE t = s
      BY <1>0, <3>1, MutedNext
    <3>2. CASE t # s
      <4>1. q = screen[t]
        BY <1>11, <2>1, <3>2 DEF On
      <4>2. Follows(t, q)
        BY <4>1 DEF TalkInv
      <4>3. /\ unreadCount(OwnerOf[t]) \in Nat /\ unreadCount(OwnerOf[t])' \in Nat
            /\ unreadCount(OwnerOf[t])' <= unreadCount(OwnerOf[t])
        BY <1>12
      <4>4. \/ unreadCount(OwnerOf[t])' = unreadCount(OwnerOf[t]) /\ (Marking(OwnerOf[t]) => Marking(OwnerOf[t])')
            \/ Marking(OwnerOf[t])'
        BY <1>12, <1>17
      <4>5. \A v_1 : Good(t, v_1) => Good(t, v_1)'
        BY <1>0, <4>3, <4>4, GoodStays
      <4> QED
        BY <1>13, <4>2, <4>5, FollowsStays
    <3> QED
      BY <3>1, <3>2
  <2> QED
    BY <2>1, <2>3, <2>4
<1>19. \A t \in scene.screens \ TalkScreens : screen'[t] = screen[t]
  BY <1>7, <1>11
<1>20. \A t \in On(TalkScreens)' : TalkScreenOK(t, screen[t])' /\ Follows(t, screen[t])'
  BY <1>16, <1>18
<1> QED
  BY <1>11, <1>15, <1>19, <1>20 DEF TalkInv

\* The list absorbs an answer, and the header's dot of the same person asks again.
LEMMA AbsorbedKeeps ==
  ASSUME Wired, TalkInv, NEW s \in On(TalkScreens), TalkKind[s] = "notices", NEW new, Absorbed(s, new),
         Holds(new), LineOK(s, new), TalkScreenOK(s, new), UNCHANGED <<losses, talkVars, scene>>
  PROVE  Wired' /\ TalkInv' /\ \A t \in scene.screens \ TalkScreens : screen'[t] = screen[t]
<1> DEFINE D == scene.screens
           dot(t) == /\ t \in TalkScreens \ {s} /\ TalkKind[t] = "header" /\ OwnerOf[t] = OwnerOf[s]
                     /\ screen[t].link # "closed"
<1>0. /\ s \in D /\ s \in TalkScreens /\ screen = [t \in D |-> screen[t]] /\ losses' \in Nat /\ TalkRows
      /\ UNCHANGED <<opened, messages, notices, sends, receipts, pages>>
  BY TalkPage DEF talkVars
<1>1. screen' = [t \in D |-> IF t = s THEN new ELSE IF dot(t) THEN invalidate(screen[t]) ELSE screen[t]]
  BY <1>0 DEF Absorbed
<1>2. /\ screen' = [t \in D |-> screen'[t]] /\ screen'[s] = new
      /\ \A t \in D \ {s} : /\ dot(t) => screen'[t] = invalidate(screen[t])
                            /\ ~dot(t) => screen'[t] = screen[t]
  BY <1>0, <1>1
<1>3. On(TalkScreens)' = On(TalkScreens)
  BY DEF On
<1>4. ASSUME NEW t \in D \ {s}, dot(t)
      PROVE  /\ Holds(screen'[t]) /\ LineOK(t, screen'[t]) /\ TalkScreenOK(t, screen'[t])
             /\ screen'[t].reads # <<>>
             /\ ~Newest(screen'[t]).served \/ Newest(screen'[t]).overtaken
  <2>1. PICK r : r = screen[t]
    OBVIOUS
  <2>2. PICK q : q = invalidate(r)
    OBVIOUS
  <2>3. t \in On(TalkScreens)
    BY <1>4 DEF On
  <2>4. Holds(r) /\ LineOK(t, r) /\ TalkScreenOK(t, r)
    BY <2>1, <2>3, TalkPage
  <2>5. Asking(r) /\ Len(r.reads) <= 1 /\ r.behind \in BOOLEAN
    BY <1>4, <2>4 DEF TalkScreenOK
  <2>6. /\ Holds(q) /\ SameButReads(q, r) /\ Asking(q) /\ q.reads # <<>> /\ Len(q.reads) = 1
        /\ ~Newest(q).served \/ Newest(q).overtaken
    BY <2>2, <2>4, <2>5, InvalidateTells
  <2>7. LineOK(t, q)
    BY <2>4, <2>6, LineStays DEF SameButReads
  <2>8. Len(q.reads) <= 1 /\ q.behind \in BOOLEAN
    BY <2>5, <2>6 DEF SameButReads
  <2>9. TalkScreenOK(t, q)
    BY <1>4, <2>6, <2>8 DEF TalkScreenOK
  <2>10. screen'[t] = q
    BY <1>2, <1>4, <2>1, <2>2
  <2> QED
    BY <2>6, <2>7, <2>9, <2>10
<1> HIDE DEF dot
<1>5. \A t \in D : Holds(screen'[t]) /\ LineOK(t, screen'[t])
  BY <1>2, <1>4 DEF Wired
<1>6. Wired'
  BY <1>0, <1>2, <1>5 DEF Wired
<1>7. TalkRows'
  <2>1. opened \subseteq opened' /\ sends' = [k \in scene.sends |-> sends'[k]] /\ \A k \in scene.sends : SendOK(k)'
    BY <1>0, SendsStay
  <2> QED
    BY <1>0, <2>1, RowsStay
<1>8. \A t \in D \ TalkScreens : screen'[t] = screen[t]
  BY <1>0, <1>2 DEF dot
<1>9. ASSUME NEW u, u # OwnerOf[s], Marking(u) PROVE Marking(u)'
  <2>1. PICK t \in On(TalkScreens) : /\ TalkKind[t] = "notices" /\ OwnerOf[t] = u
                                     /\ screen[t].reads # <<>> \/ screen[t].behind
    BY <1>9 DEF Marking
  <2>2. t \in D \ {s} /\ ~dot(t)
    BY <1>9, <2>1 DEF dot, On
  <2>3. screen'[t] = screen[t]
    BY <1>2, <2>2
  <2> QED
    BY <1>3, <2>1, <2>3 DEF Marking
<1>10. ASSUME NEW t \in On(TalkScreens) PROVE TalkScreenOK(t, screen[t])' /\ Follows(t, screen[t])'
  <2>0. t \in D /\ t \in TalkScreens /\ TalkScreenOK(t, screen[t]) /\ Follows(t, screen[t])
    BY TalkPage
  <2>1. PICK q : q = screen'[t]
    OBVIOUS
  <2>2. TalkScreenOK(t, q)
    BY <1>2, <1>4, <2>0, <2>1
  <2>3. TalkScreenOK(t, q)'
    BY <2>2 DEF TalkScreenOK, Asking
  <2>4. Follows(t, q)'
    <3>1. CASE t = s
      BY <3>1, MutedNext
    <3>2. CASE t # s /\ dot(t)
      BY <1>4, <2>0, <2>1, <3>2, MutedNext
    <3>3. CASE t # s /\ ~dot(t)
      <4>1. q = screen[t]
        BY <1>2, <2>0, <2>1, <3>3
      <4>2. CASE TalkKind[t] = "header" /\ OwnerOf[t] = OwnerOf[s]
        <5>1. q.link = "closed"
          BY <2>0, <3>3, <4>1, <4>2 DEF dot
        <5>2. q.link # "up"
          BY <5>1
        <5> QED
          BY <5>2, MutedNext
      <4>3. CASE ~(TalkKind[t] = "header" /\ OwnerOf[t] = OwnerOf[s])
        <5>1. \A v : Good(t, v) => Good(t, v)'
          <6>1. CASE OwnerOf[t] # OwnerOf[s]
            BY <1>0, <1>9, <6>1, GoodWhole
          <6>2. CASE TalkKind[t] # "header"
            <7>1. unreadCount(OwnerOf[t])' = unreadCount(OwnerOf[t])
              BY <1>0 DEF unreadCount
            <7> QED
              BY <1>0, <6>2, <7>1 DEF Good, People
          <6> QED
            BY <4>3, <6>1, <6>2
        <5>2. Told(OwnerOf[t])' => Told(OwnerOf[t])
          BY <1>0, SendsStay
        <5>3. Follows(t, q)
          BY <2>0, <4>1
        <5> QED
          BY <5>1, <5>2, <5>3, FollowsStays
      <4> QED
        BY <4>2, <4>3
    <3> QED
      BY <3>1, <3>2, <3>3
  <2> QED
    BY <2>1, <2>3, <2>4
<1>11. \A t \in On(TalkScreens)' : TalkScreenOK(t, screen[t])' /\ Follows(t, screen[t])'
  BY <1>3, <1>10
<1> QED
  BY <1>6, <1>7, <1>8, <1>11 DEF TalkInv

\* What is left of the list's requests once one of them is over.
LEMMA NoticesOver ==
  ASSUME NEW s \in On(TalkScreens), TalkKind[s] = "notices", NEW r, Holds(r), LineOK(s, r), TalkScreenOK(s, r),
         NEW i \in DOMAIN r.reads, NEW v
  PROVE  /\ LET q == [r EXCEPT !.reads = Removed(@, i)]
            IN  Holds(q) /\ LineOK(s, q) /\ TalkScreenOK(s, q) /\ q.shown = r.shown /\ q.link = r.link
         /\ LET q == [[r EXCEPT !.reads = Removed(@, i)] EXCEPT !.shown = v]
            IN  Holds(q) /\ LineOK(s, q) /\ TalkScreenOK(s, q)
         /\ LET q == Arrived(r, i, v) IN Holds(q) /\ LineOK(s, q) /\ TalkScreenOK(s, q)
<1>1. /\ Asking(r) /\ r.behind \in BOOLEAN
      /\ \A j \in DOMAIN r.reads : Requested(r.reads[j]) /\ r.reads[j].what.op \in NOTICE_OPS
  BY DEF TalkScreenOK, Asking
<1>2. PICK new : new = Removed(r.reads, i)
  OBVIOUS
<1>3. IsList(new) /\ \A j \in DOMAIN new : \E k \in DOMAIN r.reads : new[j] = r.reads[k]
  <2>1. Asking(r)
    BY <1>1
  <2>2. /\ IsList(Removed(r.reads, i))
        /\ \A j \in DOMAIN Removed(r.reads, i) : \E k \in DOMAIN r.reads : Removed(r.reads, i)[j] = r.reads[k]
    BY <2>1, RemovedFacts
  <2> QED
    BY <1>2, <2>2
<1>4. IsList(new) /\ \A j \in DOMAIN new : Requested(new[j]) /\ new[j].what.op \in NOTICE_OPS
  BY <1>1, <1>3
<1>5. PICK over : over = [r EXCEPT !.reads = new]
  OBVIOUS
<1>6. Holds(over) /\ over.reads = new /\ SameButReads(over, r)
  BY <1>5, PutReads
<1>7. LineOK(s, over)
  BY <1>6, LineStays DEF SameButReads
<1>8. TalkScreenOK(s, over)
  BY <1>1, <1>4, <1>6 DEF TalkScreenOK, Asking, SameButReads
<1>9. over = [r EXCEPT !.reads = Removed(@, i)]
  BY <1>2, <1>5 DEF Holds
<1>10. ASSUME NEW q, q = [over EXCEPT !.shown = v]
       PROVE  Holds(q) /\ LineOK(s, q) /\ TalkScreenOK(s, q)
  <2>1. /\ Holds(q) /\ q.link = over.link /\ q.rooms = over.rooms /\ q.joining = over.joining
        /\ q.inbox = over.inbox /\ q.reads = over.reads /\ q.behind = over.behind
    BY <1>6, <1>10 DEF Holds
  <2>2. LineOK(s, q)
    BY <1>7, <2>1, LineStays
  <2>3. TalkScreenOK(s, q)
    BY <1>8, <2>1 DEF TalkScreenOK, Asking
  <2> QED
    BY <2>1, <2>2, <2>3
<1>11. ASSUME NEW q, q = Arrived(r, i, v) PROVE Holds(q) /\ LineOK(s, q) /\ TalkScreenOK(s, q)
  <2>1. /\ Holds(q) /\ Asking(q) /\ q.behind \in BOOLEAN
        /\ q.link = r.link /\ q.rooms = r.rooms /\ q.joining = r.joining /\ q.inbox = r.inbox
        /\ \A j \in DOMAIN q.reads : \E k \in DOMAIN r.reads : q.reads[j].what = r.reads[k].what
    BY <1>1, <1>11, ArrivedTells
  <2>2. LineOK(s, q)
    BY <2>1, LineStays
  <2>3. \A j \in DOMAIN q.reads : q.reads[j].what.op \in NOTICE_OPS
    BY <1>1, <2>1
  <2>4. TalkScreenOK(s, q)
    BY <2>1, <2>3 DEF TalkScreenOK
  <2> QED
    BY <2>1, <2>2, <2>4
<1>12. /\ Holds(over) /\ LineOK(s, over) /\ TalkScreenOK(s, over) /\ over.shown = r.shown /\ over.link = r.link
  BY <1>6, <1>7, <1>8 DEF SameButReads
<1>13. LET q == [over EXCEPT !.shown = v] IN Holds(q) /\ LineOK(s, q) /\ TalkScreenOK(s, q)
  BY <1>10
<1>14. LET q == Arrived(r, i, v) IN Holds(q) /\ LineOK(s, q) /\ TalkScreenOK(s, q)
  BY <1>11
<1> QED
  BY <1>9, <1>12, <1>13, <1>14

LEMMA ShowNoticesKeeps ==
  ASSUME Wired, TalkInv, NEW s \in On(TalkScreens), ShowNotices(s), UNCHANGED scene
  PROVE  Wired' /\ TalkInv' /\ \A t \in scene.screens \ TalkScreens : screen'[t] = screen[t]
<1> DEFINE r == screen[s]
           had == IF r.shown = Nothing THEN <<>> ELSE r.shown.items
           page(i, items, n) == [items |-> items, unread |-> r.reads[i].value.unread,
                                 total |-> r.reads[i].value.total, pages |-> n, only |-> Filter(r)]
           over(i) == [r EXCEPT !.reads = Removed(@, i)]
           first(i) == page(i, r.reads[i].value.items, 1)
           fresh(i) == page(i, concatUnique(r.reads[i].value.items, had),
                            IF r.shown = Nothing THEN 1 ELSE r.shown.pages)
           more(i) == page(i, concatUnique(had, r.reads[i].value.items), r.reads[i].what.page)
<1>0. UNCHANGED <<losses, talkVars>> /\ TalkKind[s] = "notices"
  BY DEF ShowNotices
<1>1. /\ Holds(r) /\ LineOK(s, r) /\ TalkScreenOK(s, r) /\ Asking(r) /\ losses' \in Nat
      /\ \A i \in DOMAIN r.reads : r.reads[i].what.op \in NOTICE_OPS
  <2> HIDE DEF had, page, over, first, fresh, more
  <2>1. /\ Holds(r) /\ LineOK(s, r) /\ TalkScreenOK(s, r) /\ Asking(r) /\ losses \in Nat
    BY TalkPage
  <2>2. losses' \in Nat
    BY <1>0, <2>1
  <2>3. \A i \in DOMAIN r.reads : r.reads[i].what.op \in NOTICE_OPS
    BY <1>0, <2>1 DEF TalkScreenOK
  <2> QED
    BY <2>1, <2>2, <2>3
<1>2. PICK i \in DOMAIN r.reads :
        CASE r.link = "closed" /\ r.reads[i].what.op # "all" -> Absorbed(s, over(i))
          [] r.link # "closed" /\ r.reads[i].what.op = "reset" -> Absorbed(s, Arrived(r, i, first(i)))
          [] r.link # "closed" /\ r.reads[i].what.op = "refresh" -> Absorbed(s, Arrived(r, i, fresh(i)))
          [] r.link # "closed" /\ r.reads[i].what.op = "more" -> Absorbed(s, Arrived(r, i, more(i)))
          [] r.link # "closed" /\ r.reads[i].what.op = "one" ->
               Absorbed(s, [over(i) EXCEPT !.shown = Patched(@, r.reads[i].what)])
          [] r.reads[i].what.op = "all" -> Put(s, refresh(over(i), Fetch("reset", Filter(r), 1)))
  BY DEF ShowNotices
<1>3. PICK op : op = r.reads[i].what.op
  OBVIOUS
<1>4. op \in NOTICE_OPS
  BY <1>1, <1>3
<1>5. PICK patched : patched = Patched(r.shown, r.reads[i].what)
  OBVIOUS
<1>6. PICK rest : rest = over(i)
  OBVIOUS
<1>7. Holds(rest) /\ LineOK(s, rest) /\ TalkScreenOK(s, rest) /\ rest.shown = r.shown
  BY <1>0, <1>1, <1>6, NoticesOver
<1>8. [rest EXCEPT !.shown = Patched(@, r.reads[i].what)] = [rest EXCEPT !.shown = patched]
  BY <1>5, <1>7 DEF Holds
<1>9. PICK one : one = [rest EXCEPT !.shown = patched]
  OBVIOUS
<1>10. Holds(one) /\ LineOK(s, one) /\ TalkScreenOK(s, one)
  BY <1>0, <1>1, <1>6, <1>9, NoticesOver
<1>11. PICK a : a = first(i)
  OBVIOUS
<1>12. PICK b : b = fresh(i)
  OBVIOUS
<1>13. PICK c : c = more(i)
  OBVIOUS
<1>14. PICK new : new = refresh(rest, Fetch("reset", Filter(r), 1))
  OBVIOUS
<1> HIDE DEF r, first, fresh, more, over, had, page
<1>15. \/ Absorbed(s, rest)
       \/ Absorbed(s, Arrived(r, i, a))
       \/ Absorbed(s, Arrived(r, i, b))
       \/ Absorbed(s, Arrived(r, i, c))
       \/ Absorbed(s, one)
       \/ op = "all" /\ Put(s, new)
  <2>1. CASE r.link = "closed" /\ op # "all"
    BY <1>2, <1>3, <1>6, <2>1
  <2>2. CASE r.link # "closed" /\ op = "reset"
    BY <1>2, <1>3, <1>11, <2>2
  <2>3. CASE r.link # "closed" /\ op = "refresh"
    BY <1>2, <1>3, <1>12, <2>3
  <2>4. CASE r.link # "closed" /\ op = "more"
    BY <1>2, <1>3, <1>13, <2>4
  <2>5. CASE r.link # "closed" /\ op = "one"
    BY <1>2, <1>3, <1>6, <1>8, <1>9, <2>5
  <2>6. CASE op = "all"
    BY <1>2, <1>3, <1>6, <1>14, <2>6
  <2> QED
    BY <1>4, <2>1, <2>2, <2>3, <2>4, <2>5, <2>6 DEF NOTICE_OPS
<1>16. ASSUME NEW v PROVE Holds(Arrived(r, i, v)) /\ LineOK(s, Arrived(r, i, v)) /\ TalkScreenOK(s, Arrived(r, i, v))
  BY <1>0, <1>1, NoticesOver
<1>17. CASE \E v : Absorbed(s, Arrived(r, i, v))
  <2>1. PICK v : Absorbed(s, Arrived(r, i, v))
    BY <1>17
  <2>2. PICK q : q = Arrived(r, i, v)
    OBVIOUS
  <2>3. Absorbed(s, q) /\ Holds(q) /\ LineOK(s, q) /\ TalkScreenOK(s, q)
    BY <1>16, <2>1, <2>2
  <2> QED
    BY <1>0, <2>3, AbsorbedKeeps
<1>18. CASE Absorbed(s, rest)
  BY <1>0, <1>7, <1>18, AbsorbedKeeps
<1>19. CASE Absorbed(s, one)
  BY <1>0, <1>10, <1>19, AbsorbedKeeps
<1>20. CASE op = "all" /\ Put(s, new)
  <2>1. Fetch("reset", Filter(r), 1).op \in NOTICE_OPS
    BY DEF Fetch, NOTICE_OPS
  <2>2. TalkKind[s] # "header"
    BY <1>0
  <2>3. Holds(new) /\ LineOK(s, new) /\ TalkScreenOK(s, new) /\ Follows(s, new) /\ new.reads # <<>>
    BY <1>7, <1>14, <2>1, <2>2, TalkAsks
  <2> QED
    BY <1>0, <1>1, <1>20, <2>3, TalkScreenStep
<1> QED
  BY <1>15, <1>17, <1>18, <1>19, <1>20

\* A message and its notice are written together.
LEMMA RowsSaid ==
  ASSUME TalkRows, UNCHANGED <<scene, opened, receipts, pages>>, NEW c \in opened \cap Conversations, NEW u \in People(c),
         messages' = [messages EXCEPT ![c] = Append(@, [sender |-> u, read |-> FALSE])],
         notices' = Append(notices, [id |-> 0, userId |-> Other(c, u), read |-> FALSE]),
         sends' = [k \in scene.sends |-> sends'[k]], \A k \in scene.sends : SendOK(k)'
  PROVE  /\ TalkRows'
         /\ messages'[c] # <<>> /\ Last(messages'[c]).sender = u
         /\ \A d \in Conversations \ {c} : messages'[d] = messages[d]
         /\ \A w : w # Other(c, u) => unreadCount(w)' = unreadCount(w)
<1> DEFINE m == [sender |-> u, read |-> FALSE]
           n == [id |-> 0, userId |-> Other(c, u), read |-> FALSE]
           M == [sender : Persons, read : BOOLEAN]
           N == [id : {0}, userId : Persons, read : BOOLEAN]
           old == messages[c]
           rows == notices
<1>1. Other(c, u) \in People(c) /\ Other(c, u) # u /\ c \in Conversations /\ c \in opened
  BY OtherFacts
<1>2. m \in M /\ n \in N /\ m.sender = u /\ ~m.read /\ n.userId = Other(c, u)
  BY <1>1 DEF Persons
<1>3. messages \in [Conversations -> Seq(M)] /\ rows \in Seq(N)
  BY DEF TalkRows
<1>4. messages' = [messages EXCEPT ![c] = Append(old, m)] /\ notices' = Append(rows, n)
  OBVIOUS
<1> HIDE DEF m, n, M, N
<1>5. old \in Seq(M)
  BY <1>1, <1>3
<1>6. \A d \in Conversations \ {c} : messages'[d] = messages[d]
  BY <1>3, <1>4
<1>7. messages'[c] = Append(old, m)
  BY <1>1, <1>3, <1>4
<1> HIDE DEF old, rows
<1>8. PICK new : new = Append(old, m)
  OBVIOUS
<1>9. /\ new \in Seq(M) /\ Len(new) = Len(old) + 1 /\ Len(old) \in Nat
      /\ new[Len(old) + 1] = m /\ \A i \in 1..Len(old) : new[i] = old[i]
      /\ DOMAIN new = 1..(Len(old) + 1) /\ DOMAIN old = 1..Len(old) /\ new # <<>>
  BY <1>2, <1>5, <1>8
<1>10. Last(new) = m
  BY <1>9 DEF Last
<1>11. messages' \in [Conversations -> Seq(M)]
  BY <1>1, <1>3, <1>4, <1>8, <1>9
<1>12. PICK all : all = Append(rows, n)
  OBVIOUS
<1>13. /\ all \in Seq(N) /\ Len(rows) \in Nat
       /\ all[Len(rows) + 1] = n /\ \A i \in 1..Len(rows) : all[i] = rows[i]
       /\ DOMAIN all = 1..(Len(rows) + 1) /\ DOMAIN rows = 1..Len(rows)
  BY <1>2, <1>3, <1>12
<1>14. \A d \in Conversations : messages'[d] # <<>> => d \in opened
  BY <1>1, <1>6 DEF TalkRows
<1>15. ASSUME NEW d \in Conversations, NEW i \in DOMAIN messages'[d] PROVE MessageOK(d, i)'
  <2>1. CASE d # c
    <3>1. messages'[d] = messages[d] /\ i \in DOMAIN messages[d]
      BY <1>6, <1>15, <2>1
    <3>2. MessageOK(d, i)
      BY <3>1 DEF TalkRows
    <3> QED
      BY <3>1, <3>2 DEF MessageOK, People, Other
  <2>2. CASE d = c /\ i \in 1..Len(old)
    <3>1. messages'[d][i] = messages[d][i] /\ i \in DOMAIN messages[d]
      BY <1>7, <1>8, <1>9, <2>2 DEF old
    <3>2. MessageOK(d, i)
      BY <3>1 DEF TalkRows
    <3> QED
      BY <3>1, <3>2 DEF MessageOK, People, Other
  <2>3. CASE d = c /\ i = Len(old) + 1
    <3>1. messages'[d][i] = m
      BY <1>7, <1>8, <1>9, <2>3
    <3> QED
      BY <1>2, <2>3, <3>1 DEF MessageOK, People
  <2> QED
    BY <1>7, <1>8, <1>9, <2>1, <2>2, <2>3
<1>16. TalkRows'
  <2>1. \A d \in Conversations : /\ pages'[d] \in [People(d) -> Nat]
                                 /\ messages'[d] # <<>> => d \in opened'
                                 /\ \A i \in DOMAIN messages'[d] : MessageOK(d, i)'
    BY <1>14, <1>15 DEF TalkRows
  <2>2. pages' = [d \in Conversations |-> pages'[d]]
    BY DEF TalkRows
  <2>3. messages' \in [Conversations -> Seq([sender : Persons, read : BOOLEAN])]
    BY <1>11 DEF M
  <2>4. notices' \in Seq([id : {0}, userId : Persons, read : BOOLEAN])
    BY <1>4, <1>12, <1>13 DEF N
  <2>5. ASSUME NEW x \in receipts' PROVE ReceiptOK(x)'
    <3>1. \A d \in Conversations : \A i \in DOMAIN messages[d] :
            i \in DOMAIN messages'[d] /\ messages'[d][i].sender = messages[d][i].sender
      BY <1>6, <1>7, <1>8, <1>9 DEF old
    <3>2. \A d \in Conversations : \A w \in People(d) : pages'[d][w] \in Nat /\ pages'[d][w] >= pages[d][w]
      BY DEF TalkRows
    <3> QED
      BY <3>1, <3>2, ReceiptsStand
  <2> QED
    BY <2>1, <2>2, <2>3, <2>4, <2>5 DEF TalkRows, Persons, People
<1>17. ASSUME NEW w, w # Other(c, u) PROVE unreadCount(w)' = unreadCount(w)
  <2>1. {i \in DOMAIN all : all[i].userId = w /\ ~all[i].read}
          = {i \in DOMAIN rows : rows[i].userId = w /\ ~rows[i].read}
    <3>1. \A i : i \in 1..(Len(rows) + 1) <=> (i \in 1..Len(rows) \/ i = Len(rows) + 1)
      BY <1>13
    <3>2. all[Len(rows) + 1].userId # w
      BY <1>2, <1>13, <1>17
    <3> QED
      BY <1>13, <3>1, <3>2
  <2>2. unreadCount(w)' = Cardinality({i \in DOMAIN all : all[i].userId = w /\ ~all[i].read})
    BY <1>4, <1>12 DEF unreadCount
  <2>3. unreadCount(w) = Cardinality({i \in DOMAIN rows : rows[i].userId = w /\ ~rows[i].read})
    BY DEF unreadCount, rows
  <2> QED
    BY <2>1, <2>2, <2>3
<1>18. messages'[c] # <<>> /\ Last(messages'[c]).sender = u
  BY <1>2, <1>7, <1>8, <1>9, <1>10
<1> QED
  BY <1>6, <1>16, <1>17, <1>18

LEMMA sendMessageKeeps ==
  ASSUME Wired, TalkInv, NEW k \in scene.sends, sendMessage(k), UNCHANGED scene
  PROVE  Wired' /\ TalkInv' /\ \A t \in scene.screens : Carried(screen[t], screen'[t])
<1>0. /\ UNCHANGED <<channelVars, opened, autoReply, receipts, pages>> /\ TalkRows
      /\ On(TalkScreens)' = On(TalkScreens)
  BY DEF sendMessage, TalkInv, On
<1>1. PICK c : c = sends[k].conversation
  OBVIOUS
<1>2. PICK u : u = sends[k].sender
  OBVIOUS
<1>3. SendIs(sends[k]) /\ sends = [j \in scene.sends |-> sends[j]]
  BY <1>0 DEF TalkRows, SendOK
<1>4. /\ sends[k].pc = "commit" /\ c \in opened /\ u \in People(c)
      /\ messages' = [messages EXCEPT ![c] = Append(@, [sender |-> u, read |-> FALSE])]
      /\ notices' = Append(notices, [id |-> 0, userId |-> Other(c, u), read |-> FALSE])
      /\ sends' = [sends EXCEPT ![k].pc = "emit"]
  BY <1>1, <1>2 DEF sendMessage
<1>5. c \in Conversations
  BY <1>1, <1>3, <1>4 DEF SendIs
<1>6. PICK x : x = [sends[k] EXCEPT !.pc = "emit"]
  OBVIOUS
<1>7. SendIs(x) /\ x.pc = "emit" /\ x.conversation = c /\ x.sender = u
  BY <1>1, <1>2, <1>3, <1>4, <1>6 DEF SendIs
<1>8. sends' = [sends EXCEPT ![k] = x]
  BY <1>3, <1>4, <1>6
<1>9. /\ sends' = [j \in scene.sends |-> sends'[j]] /\ \A j \in scene.sends : SendOK(j)'
      /\ sends'[k] = x /\ \A j \in scene.sends \ {k} : sends'[j] = sends[j]
  BY <1>0, <1>7, <1>8, SendMoved
<1>10. /\ TalkRows'
       /\ messages'[c] # <<>> /\ Last(messages'[c]).sender = u
       /\ \A d \in Conversations \ {c} : messages'[d] = messages[d]
       /\ \A w : w # Other(c, u) => unreadCount(w)' = unreadCount(w)
  BY <1>0, <1>4, <1>5, <1>9, RowsSaid
<1>11. Wired' /\ screen' = screen
  BY <1>0, WiredSame
<1>12. \A w : Marking(w)' <=> Marking(w)
  BY <1>0, <1>11 DEF Marking
<1>13. ASSUME NEW t \in On(TalkScreens) PROVE TalkScreenOK(t, screen[t])' /\ Follows(t, screen[t])'
  <2>1. PICK q : q = screen[t]
    OBVIOUS
  <2>2. TalkScreenOK(t, q) /\ Follows(t, q)
    BY <2>1 DEF TalkInv
  <2>3. TalkScreenOK(t, q)'
    BY <2>2 DEF TalkScreenOK, Asking
  <2>4. Follows(t, q)'
    <3>1. CASE OwnerOf[t] = Other(c, u)
      <4>1. ~Told(OwnerOf[t])'
        <5>1. sends'[k].pc = "emit" /\ Other(sends'[k].conversation, sends'[k].sender) = OwnerOf[t]
          BY <1>7, <1>9, <3>1
        <5> QED
          BY <1>0, <5>1 DEF Told, Other, People
      <4> QED
        BY <4>1, MutedNext
    <3>2. CASE OwnerOf[t] # Other(c, u)
      <4>1. unreadCount(OwnerOf[t])' = unreadCount(OwnerOf[t]) /\ unreadCount(OwnerOf[t]) \in Nat
        BY <1>0, <1>10, <3>2, Counted
      <4>2. unreadCount(OwnerOf[t])' <= unreadCount(OwnerOf[t])
        BY <4>1
      <4>3. ASSUME NEW d \in Conversations, messages'[d] # <<>>, OwnerOf[t] \in People(d),
                   Last(messages'[d]).sender # OwnerOf[t]
            PROVE  /\ messages[d] # <<>> /\ Last(messages[d]).sender # OwnerOf[t]
                   /\ Len(messages'[d]) = Len(messages[d])
        <5>1. d # c
          BY <1>4, <1>5, <1>10, <3>2, <4>3, OtherFacts
        <5> QED
          BY <1>10, <4>3, <5>1
      <4>4. \A v : Good(t, v) => Good(t, v)'
        BY <1>12, <4>1, <4>2, <4>3, GoodStays
      <4>5. ASSUME Told(OwnerOf[t])', NEW j \in scene.sends, sends[j].pc = "emit"
            PROVE  Other(sends[j].conversation, sends[j].sender) # OwnerOf[t]
        <5>1. sends'[j] = sends[j]
          BY <1>4, <1>9, <4>5
        <5>2. \A i \in scene.sends : sends'[i].pc = "emit" =>
                Other(sends'[i].conversation, sends'[i].sender) # OwnerOf[t]
          BY <4>5 DEF Told, Other, People
        <5> QED
          BY <4>5, <5>1, <5>2
      <4>6. Told(OwnerOf[t])' => Told(OwnerOf[t])
        BY <4>5 DEF Told
      <4> QED
        BY <2>2, <4>4, <4>6, FollowsStays
    <3> QED
      BY <3>1, <3>2
  <2> QED
    BY <1>11, <2>1, <2>3, <2>4
<1>14. \A t \in On(TalkScreens)' : TalkScreenOK(t, screen[t])' /\ Follows(t, screen[t])'
  BY <1>0, <1>13
<1>15. \A t \in scene.screens : Carried(screen[t], screen'[t])
  BY <1>11, CarriedSame DEF Wired
<1> QED
  BY <1>10, <1>11, <1>14, <1>15 DEF TalkInv

\* The room hears of the message, then its recipient.
LEMMA EmitMessageKeeps ==
  ASSUME Wired, TalkInv, NEW k \in scene.sends, EmitMessage(k), UNCHANGED scene
  PROVE  Wired' /\ TalkInv' /\ \A t \in scene.screens : Carried(screen[t], screen'[t])
<1> DEFINE D == scene.screens
           name == "notification:created"
<1>0. /\ UNCHANGED <<losses, opened, messages, notices, autoReply, receipts, pages>> /\ TalkRows /\ losses \in Nat
      /\ On(TalkScreens) \subseteq D
  BY DEF EmitMessage, TalkInv, Wired, On
<1>1. PICK c : c = sends[k].conversation
  OBVIOUS
<1>2. PICK who : who = Other(c, sends[k].sender)
  OBVIOUS
<1>3. SendIs(sends[k]) /\ sends = [j \in scene.sends |-> sends[j]] /\ sends[k].pc = "emit"
  BY <1>0 DEF TalkRows, SendOK, EmitMessage
<1>4. PICK x : x = [sends[k] EXCEPT !.pc = IF sends[k].from = Nothing THEN "done" ELSE "answer"]
  OBVIOUS
<1>5. SendIs(x) /\ x.pc # "emit"
  BY <1>3, <1>4 DEF SendIs
<1>6. sends' = [sends EXCEPT ![k] = x]
  BY <1>3, <1>4 DEF EmitMessage
<1>7. /\ sends' = [j \in scene.sends |-> sends'[j]] /\ \A j \in scene.sends : SendOK(j)'
      /\ sends'[k] = x /\ \A j \in scene.sends \ {k} : sends'[j] = sends[j]
  BY <1>0, <1>5, <1>6, SendMoved
<1>8. /\ screen = [s \in D |-> screen[s]]
      /\ \A s \in D : Holds(screen[s]) /\ LineOK(s, screen[s])
  BY WiredFacts
<1>9. PICK told : told = emitToRooms(screen, {conversationRoom(c)}, "message:sent", Nothing)
  OBVIOUS
<1>10. told = [s \in D |-> told[s]] /\ \A s \in D : Heard_(screen, told, s, {conversationRoom(c)}, "message:sent")
  <2> DEFINE q == emitToRooms(screen, {conversationRoom(c)}, "message:sent", Nothing)
  <2>1. [name |-> "message:sent", payload |-> Nothing] \in Event
    BY DEF Event
  <2>2. q = [s \in D |-> q[s]] /\ \A s \in D : Heard_(screen, q, s, {conversationRoom(c)}, "message:sent")
    BY <1>8, <2>1, EmitFacts
  <2>3. told = q
    BY <1>9
  <2> HIDE DEF q
  <2> QED
    BY <2>2, <2>3
<1>11. screen' = [s \in D |-> screen'[s]] /\ \A s \in D : Heard_(told, screen', s, {userRoom(who)}, name)
  <2> DEFINE q == emitToRooms(told, {userRoom(who)}, name, Nothing)
  <2>1. [name |-> name, payload |-> Nothing] \in Event
    BY DEF Event
  <2>2. \A s \in D : Holds(told[s]) /\ LineOK(s, told[s])
    BY <1>10 DEF Heard_
  <2>3. q = [s \in D |-> q[s]] /\ \A s \in D : Heard_(told, q, s, {userRoom(who)}, name)
    BY <1>10, <2>1, <2>2, EmitFacts
  <2>4. screen' = q
    BY <1>1, <1>2, <1>9 DEF EmitMessage, emitToRoom
  <2> HIDE DEF q
  <2> QED
    BY <2>3, <2>4
<1>12. Wired'
  BY <1>0, <1>11 DEF Wired, Heard_
<1>13. ASSUME NEW s \in D PROVE Carried(screen[s], screen'[s])
  <2>1. Holds(screen[s]) /\ Holds(told[s]) /\ Holds(screen'[s])
    BY <1>8, <1>10, <1>11 DEF Heard_
  <2>2. Carried(screen[s], told[s]) /\ Carried(told[s], screen'[s])
    BY <1>10, <1>11 DEF Heard_
  <2> QED
    BY <2>1, <2>2, CarriedTrans
<1>14. ASSUME NEW s \in On(TalkScreens)
       PROVE  \/ Told(OwnerOf[s])' => Told(OwnerOf[s])
              \/ screen'[s].link = "up" => News(screen'[s], useUserChannel)
  <2>1. CASE OwnerOf[s] = who
    <3>1. ASSUME screen'[s].link = "up" PROVE News(screen'[s], useUserChannel)
      <4>1. s \in D
        BY <1>0
      <4>2. told[s].link = "up" /\ LineOK(s, told[s])
        BY <1>10, <1>11, <3>1, <4>1 DEF Heard_
      <4>3. userRoom(who) \in told[s].rooms
        BY <2>1, <4>2 DEF LineOK, RoomsFor
      <4>4. News(screen'[s], {name})
        BY <1>11, <4>1, <4>3 DEF Heard_
      <4> QED
        BY <4>4 DEF News, useUserChannel
    <3> QED
      BY <3>1
  <2>2. CASE OwnerOf[s] # who
    <3>1. ASSUME Told(OwnerOf[s])', NEW j \in scene.sends, sends[j].pc = "emit"
          PROVE  Other(sends[j].conversation, sends[j].sender) # OwnerOf[s]
      <4>1. CASE j = k
        BY <1>1, <1>2, <2>2, <4>1
      <4>2. CASE j # k
        <5>1. sends'[j] = sends[j]
          BY <1>7, <4>2
        <5>2. \A i \in scene.sends : sends'[i].pc = "emit" =>
                Other(sends'[i].conversation, sends'[i].sender) # OwnerOf[s]
          BY <3>1 DEF Told, Other, People
        <5> QED
          BY <3>1, <5>1, <5>2
      <4> QED
        BY <4>1, <4>2
    <3> QED
      BY <3>1 DEF Told
  <2> QED
    BY <2>1, <2>2
<1>15. opened \subseteq opened'
  BY <1>0
<1>16. \A s \in On(TalkScreens) : Carried(screen[s], screen'[s])
  BY <1>0, <1>13
<1>17. TalkInv'
  BY <1>0, <1>7, <1>12, <1>14, <1>15, <1>16, TalkHeard
<1>18. \A s \in D : Carried(screen[s], screen'[s])
  BY <1>13
<1> QED
  BY <1>12, <1>17, <1>18

\* A conversation is opened, a message set, an answer started: no screen moves.
LEMMA TalkRowsMove ==
  ASSUME Wired, TalkInv, UNCHANGED <<channelVars, scene, messages, notices, receipts, pages>>, opened \subseteq opened',
         sends' = [k \in scene.sends |-> sends'[k]], \A k \in scene.sends : SendOK(k)',
         \A u : Told(u)' => Told(u)
  PROVE  Wired' /\ TalkInv' /\ \A t \in scene.screens : Carried(screen[t], screen'[t])
<1>1. Wired' /\ screen' = screen
  BY WiredSame
<1>2. \A t \in scene.screens : Carried(screen[t], screen'[t])
  BY <1>1, CarriedSame DEF Wired
<1>3. \A s \in On(TalkScreens) : Carried(screen[s], screen'[s])
  BY <1>2 DEF On
<1>4. TalkInv'
  BY <1>1, <1>3, TalkHeard
<1> QED
  BY <1>1, <1>2, <1>4

LEMMA OpenConversationKeeps ==
  ASSUME Wired, TalkInv, UNCHANGED scene,
         \/ \E c : OpenConversation(c)
         \/ \E u : setAutoReplyMessage(u)
  PROVE  Wired' /\ TalkInv' /\ \A t \in scene.screens : Carried(screen[t], screen'[t])
<1>1. UNCHANGED <<channelVars, messages, notices, receipts, pages, sends>> /\ opened \subseteq opened' /\ TalkRows
  BY DEF OpenConversation, setAutoReplyMessage, TalkInv
<1>2. /\ sends' = [k \in scene.sends |-> sends'[k]] /\ \A k \in scene.sends : SendOK(k)'
      /\ \A u : Told(u)' <=> Told(u)
  BY <1>1, SendsStay
<1> QED
  BY <1>1, <1>2, TalkRowsMove

LEMMA sendPurchaseAutoReplyKeeps ==
  ASSUME Wired, TalkInv, NEW k \in scene.sends, NEW c \in Conversations, sendPurchaseAutoReply(k, c), UNCHANGED scene
  PROVE  Wired' /\ TalkInv' /\ \A t \in scene.screens : Carried(screen[t], screen'[t])
<1>1. UNCHANGED <<channelVars, messages, notices, receipts, pages>> /\ opened \subseteq opened' /\ TalkRows
  BY DEF sendPurchaseAutoReply, TalkInv
<1>2. PICK x : x = [pc |-> "commit", conversation |-> c, sender |-> Between[c].sellerId, from |-> Nothing]
  OBVIOUS
<1>3. SendIs(x) /\ x.pc # "emit"
  BY <1>2 DEF SendIs, Persons, People
<1>4. sends' = [sends EXCEPT ![k] = x] /\ sends[k].pc # "emit"
  BY <1>2 DEF sendPurchaseAutoReply
<1>5. /\ sends' = [j \in scene.sends |-> sends'[j]] /\ \A j \in scene.sends : SendOK(j)'
      /\ \A u : Told(u)' <=> Told(u)
  BY <1>1, <1>3, <1>4, SendMoved
<1> QED
  BY <1>1, <1>5, TalkRowsMove

LEMMA TalkStepKeeps ==
  ASSUME Wired, TalkInv, TalkStep
  PROVE  Wired' /\ TalkInv' /\ \A t \in scene.screens \ TalkScreens : Carried(screen[t], screen'[t])
<1>0. UNCHANGED scene
  BY DEF TalkStep
<1>1. \A t \in scene.screens : Carried(screen[t], screen[t])
  BY CarriedSame DEF Wired
<1>2. CASE \E s \in On(TalkScreens) :
             \/ Mount(s)
             \/ HearEvent(s)
             \/ JoinThread(s)
             \/ ServeRead(s)
             \/ ShowRead(s)
             \/ Press(s)
             \/ ServeNotices(s)
             \/ ShowNotices(s)
             \/ LoseTalk(s) /\ UNCHANGED talkVars
             \/ LeaveTalk(s)
  <2>1. PICK s \in On(TalkScreens) :
             \/ Mount(s)
             \/ HearEvent(s)
             \/ JoinThread(s)
             \/ ServeRead(s)
             \/ ShowRead(s)
             \/ Press(s)
             \/ ServeNotices(s)
             \/ ShowNotices(s)
             \/ LoseTalk(s) /\ UNCHANGED talkVars
             \/ LeaveTalk(s)
    BY <1>2
  <2>2. Wired' /\ TalkInv' /\ \A t \in scene.screens \ TalkScreens : screen'[t] = screen[t]
    BY <1>0, <2>1, MountKeeps, HearEventKeeps, JoinThreadKeeps, ServeReadKeeps, ShowReadKeeps, PressKeepsTalk,
       ServeNoticesKeeps, ShowNoticesKeeps, LoseTalkKeeps, LeaveTalkKeeps
  <2> QED
    BY <1>1, <2>2
<1>3. CASE \E s \in On(TalkScreens) : \E k \in NextSend : submit(s, k)
  <2>1. Wired' /\ TalkInv' /\ \A t \in scene.screens \ TalkScreens : screen'[t] = screen[t]
    BY <1>0, <1>3, submitKeeps DEF NextSend
  <2> QED
    BY <1>1, <2>1
<1>4. CASE \E k \in scene.sends : sendMessage(k) \/ EmitMessage(k)
  BY <1>0, <1>4, sendMessageKeeps, EmitMessageKeeps
<1>5. CASE \E k \in scene.sends : AnswerSend(k)
  <2>1. Wired' /\ TalkInv' /\ \A t \in scene.screens \ TalkScreens : screen'[t] = screen[t]
    BY <1>0, <1>5, AnswerSendKeeps
  <2> QED
    BY <1>1, <2>1
<1>6. CASE \E c \in scene.talks : OpenConversation(c)
  BY <1>0, <1>6, OpenConversationKeeps
<1>7. CASE \E c \in scene.talks : \E k \in NextSend : sendPurchaseAutoReply(k, c)
  <2>1. NextSend \subseteq scene.sends /\ scene.talks \subseteq Conversations
    BY RealtimeScenes DEF NextSend, Wired
  <2> QED
    BY <1>0, <1>7, <2>1, sendPurchaseAutoReplyKeeps
<1>8. CASE \E u \in scene.settings : setAutoReplyMessage(u)
  BY <1>0, <1>8, OpenConversationKeeps
<1>9. CASE \E x \in receipts : MarkRead(x)
  BY <1>0, <1>9, MarkReadKeeps
<1> QED
  BY <1>2, <1>3, <1>4, <1>5, <1>6, <1>7, <1>8, <1>9 DEF TalkStep

\* What the screens may say, from the invariant.
LEMMA ReceiptsAreTold ==
  ASSUME TalkInv PROVE ReceiptsAreEarned
BY DEF TalkInv, TalkRows, MessageOK, ReceiptsAreEarned

LEMMA TalksAreCurrent ==
  ASSUME Wired, TalkInv, NEW s \in On(TalkScreens) PROVE TalkIsCurrent(s)
<1> DEFINE me == OwnerOf[s]
           v == screen[s].shown
<1>1. SUFFICES ASSUME Resting(s), ~screen[s].behind, \A k \in DOMAIN sends : sends[k].pc # "emit"
               PROVE  /\ TalkKind[s] \in {"bell", "header"} => v # Nothing /\ v >= unreadCount(me)
                      /\ TalkKind[s] = "header" =>
                           v = unreadCount(me)
                           \/ \E t \in DOMAIN screen \cap TalkScreens :
                                /\ TalkKind[t] = "notices" /\ OwnerOf[t] = me
                                /\ screen[t].reads # <<>> \/ screen[t].behind
                      /\ TalkKind[s] = "list" =>
                           \A c \in Conversations :
                             (messages[c] # <<>> /\ me \in People(c) /\ Last(messages[c]).sender # me) =>
                               c \in DOMAIN v /\ v[c].last = Len(messages[c])
  BY DEF TalkIsCurrent
<1>2. /\ DOMAIN sends = scene.sends /\ Asking(screen[s]) /\ Follows(s, screen[s])
      /\ DOMAIN screen = scene.screens
  BY WiredFacts DEF TalkInv, TalkRows, TalkScreenOK
<1>3. screen[s].link = "up" /\ screen[s].inbox = <<>> /\ DOMAIN screen[s].reads = {}
  BY <1>1 DEF Resting
<1>4. ~News(screen[s], useUserChannel)
  BY <1>3 DEF News
<1>5. screen[s].reads = <<>>
  <2>1. IsList(screen[s].reads)
    BY <1>2 DEF Asking
  <2> QED
    BY <1>3, <2>1, SeqFacts
<1>6. Told(me)
  BY <1>1, <1>2 DEF Told
<1>7. Good(s, v)
  BY <1>1, <1>2, <1>3, <1>4, <1>5, <1>6 DEF Follows, Shows
<1>8. TalkKind[s] \in {"bell", "header"} => v # Nothing /\ v >= unreadCount(me)
  BY <1>7, ChannelsAssumption DEF Good
<1>9. TalkKind[s] = "header" =>
        v = unreadCount(me) \/ \E t \in DOMAIN screen \cap TalkScreens :
                                 /\ TalkKind[t] = "notices" /\ OwnerOf[t] = me
                                 /\ screen[t].reads # <<>> \/ screen[t].behind
  BY <1>2, <1>7 DEF Good, Marking, On
<1>10. TalkKind[s] = "list" =>
         \A c \in Conversations :
           (messages[c] # <<>> /\ me \in People(c) /\ Last(messages[c]).sender # me) =>
             c \in DOMAIN v /\ v[c].last = Len(messages[c])
  BY <1>7 DEF Good
<1> QED
  BY <1>8, <1>9, <1>10

-----------------------------------------------------------------------------
(***************************************************************************)
(* The start                                                               *)
(***************************************************************************)
LEMMA ClosedStart ==
  /\ Asking(Closed) /\ Closed.behind \in BOOLEAN /\ Len(Closed.reads) = 0 /\ DOMAIN Closed.reads = {}
  /\ ~Used(Closed) /\ \A s : LineOK(s, Closed)
<1>1. /\ Closed.reads = <<>> /\ Closed.behind = FALSE /\ Closed.link = "closed" /\ Closed.shown = Nothing
      /\ Closed.rooms = {} /\ Closed.joining = {} /\ Closed.inbox = <<>>
  BY ClosedFacts
<1>2. <<>> \in Seq(Range(<<>>)) /\ Len(<<>>) = 0 /\ DOMAIN <<>> = {}
  OBVIOUS
<1>3. \A s : LineOK(s, Closed)
  BY <1>1, NoLine
<1> QED
  BY <1>1, <1>2, <1>3 DEF Asking, IsList, Used

LEMMA TalkStarts ==
  ASSUME RealtimeInit PROVE TalkInv
<1>1. /\ screen = [s \in scene.screens |-> Closed] /\ scene \in Scenes
      /\ messages = scene.talk.messages /\ notices = scene.talk.notices /\ pages = scene.talk.pages
      /\ opened = scene.talk.opened /\ sends = [k \in scene.sends |-> IdleSend]
      /\ receipts = {}
  BY DEF RealtimeInit, ChannelsInit, TalkInit
<1>2. PastTalk(scene.talk)
  BY <1>1, RealtimePasts
<1>3. /\ messages \in [Conversations -> Seq([sender : Persons, read : BOOLEAN])]
      /\ notices \in Seq([id : {0}, userId : Persons, read : BOOLEAN])
      /\ pages = [c \in Conversations |-> pages[c]]
      /\ \A c \in Conversations : /\ pages[c] \in [People(c) -> Nat]
                                  /\ messages[c] # <<>> => c \in opened
                                  /\ \A i \in DOMAIN messages[c] : MessageOK(c, i)
  BY <1>1, <1>2 DEF PastTalk, Persons, MessageOK
<1>4. SendIs(IdleSend)
  BY DEF IdleSend, SendIs
<1>5. TalkRows
  BY <1>1, <1>3, <1>4 DEF TalkRows, SendOK
<1>6. ASSUME NEW s \in On(TalkScreens) PROVE TalkScreenOK(s, screen[s]) /\ Follows(s, screen[s])
  <2>1. screen[s] = Closed
    BY <1>1 DEF On
  <2>2. TalkScreenOK(s, Closed)
    BY ClosedStart DEF TalkScreenOK
  <2>3. Closed.link # "up"
    BY ClosedFacts
  <2>4. Follows(s, Closed)
    BY <2>3, MutedFollows
  <2> QED
    BY <2>1, <2>2, <2>4
<1> QED
  BY <1>5, <1>6 DEF TalkInv

LEMMA DeskStarts ==
  ASSUME RealtimeInit PROVE DeskInv
<1>1. /\ screen = [s \in scene.screens |-> Closed] /\ scene \in Scenes
      /\ cases \in scene.desk /\ deskCalls = [k \in scene.calls |-> IdleCall]
      /\ stored \in [{s \in DeskScreens \cap scene.screens : DeskKind[s] = "widget"} ->
                       {Nothing} \cup {c \in Cases : cases[c].status # "NONE"}]
      /\ \A s \in DOMAIN stored : stored[s] # Nothing => cases[stored[s]].userId = OwnerOf[s]
      /\ seen = [s \in DeskScreens \cap scene.screens |-> [c \in Cases |-> Nothing]]
  BY DEF RealtimeInit, ChannelsInit, DeskInit
<1>2. PastDesk(cases)
  BY <1>1, RealtimePasts
<1>3. cases = [c \in Cases |-> cases[c]]
  BY <1>2 DEF PastDesk
<1>4. ASSUME NEW c \in Cases PROVE CaseOK(c)
  <2>1. /\ cases[c] \in [status : {"NONE", "AI_ONLY", "ESCALATED", "RESOLVED"}, userId : {cases[c].userId},
                         assigned : Admins \cup {Nothing}, closedAt : Nat,
                         messages : Seq([role : {"USER", "ASSISTANT", "ADMIN"},
                                         body : Replies \cup {"asks", "wants", "says", "contact"}])]
        /\ cases[c].status = "NONE" => cases[c].messages = <<>>
        /\ cases[c].status # "NONE" => cases[c].userId # Nothing
        /\ cases[c].status \in {"ESCALATED", "RESOLVED"} => Earned(cases[c].messages)
    BY <1>2 DEF PastDesk
  <2>2. CaseRow(cases[c])
    BY <2>1 DEF CaseRow, STATUSES, Message, BODIES
  <2> QED
    BY <2>1, <2>2 DEF CaseOK
<1>5. CallOK(IdleCall) /\ IdleCall.pc = "idle"
  BY DEF CallOK, IdleCall, DESK_OPS
<1>6. On(DeskScreens) = DeskScreens \cap scene.screens
  BY DEF On
<1>7. /\ stored \in [{s \in On(DeskScreens) : DeskKind[s] = "widget"} -> Cases \cup {Nothing}]
      /\ \A s \in DOMAIN stored : /\ OwnerOf[s] = Nothing => stored[s] = Nothing
                                  /\ stored[s] # Nothing => Opened(stored[s])
  BY <1>1, <1>4, <1>6 DEF Opened, CaseOK
<1>8. seen = [s \in On(DeskScreens) |-> seen[s]] /\ \A s \in On(DeskScreens) : seen[s] = [c \in Cases |-> seen[s][c]]
  BY <1>1, <1>6
<1>9. DeskRows
  BY <1>1, <1>3, <1>4, <1>5, <1>7, <1>8 DEF DeskRows
<1>10. ASSUME NEW s \in On(DeskScreens) PROVE DeskScreenOK(s, screen[s])
  <2>1. screen[s] = Closed
    BY <1>1, <1>6
  <2>2. Closed.link = "closed" /\ Closed.reads = <<>>
    BY ClosedFacts
  <2>3. Asking(Closed) /\ Len(Closed.reads) <= 1 /\ Closed.behind \in BOOLEAN /\ DOMAIN Closed.reads = {}
    BY ClosedStart
  <2>4. WidgetOK(s, Closed)
    BY <2>2, <2>3 DEF WidgetOK
  <2>5. QueueFollows(Closed)
    BY <2>2 DEF QueueFollows
  <2> QED
    BY <2>1, <2>2, <2>3, <2>4, <2>5 DEF DeskScreenOK
<1> QED
  BY <1>9, <1>10 DEF DeskInv

LEMMA PagesStart ==
  ASSUME RealtimeInit PROVE OrderInv /\ HeartInv
<1>1. /\ screen = [s \in scene.screens |-> Closed] /\ scene \in Scenes /\ parcel \in scene.parcels
      /\ presses = [k \in scene.presses |-> [pc |-> "idle", from |-> Nothing, next |-> Nothing,
                                             seen |-> Nothing, answer |-> Nothing, left |-> FALSE]]
      /\ toggles = [k \in scene.toggles |-> IdleToggle]
  BY DEF RealtimeInit, ChannelsInit, OrdersInit, HeartsInit
<1>2. Closed.link = "closed" /\ ~Used(Closed)
  BY ClosedFacts, ClosedStart
<1>3. parcel \in ShipmentStatus
  BY <1>1, RealtimeScenes
<1>4. ASSUME NEW k \in scene.presses PROVE PressOK(k) /\ PressCached(k) /\ PressFollows(k, screen[presses[k].from])
  <2>1. presses[k] = [pc |-> "idle", from |-> Nothing, next |-> Nothing,
                      seen |-> Nothing, answer |-> Nothing, left |-> FALSE]
    BY <1>1
  <2> QED
    BY <2>1 DEF PressOK, PressCached, PressFollows
<1>5. ASSUME NEW s \in On(OrderScreens) PROVE PageOK(s, screen[s])
  <2>1. screen[s] = Closed
    BY <1>1 DEF On
  <2> QED
    BY <1>2, <2>1 DEF PageOK, PageFollows
<1>6. OrderInv
  BY <1>1, <1>3, <1>4, <1>5 DEF OrderInv
<1>7. ToggleOK(IdleToggle) /\ IdleToggle.pc = "idle"
  BY DEF ToggleOK, IdleToggle
<1>8. ASSUME NEW s \in On(HeartScreens) PROVE HeartsOK(s, screen[s])
  <2>1. screen[s] = Closed
    BY <1>1 DEF On
  <2> QED
    BY <1>2, <2>1 DEF HeartsOK, HeartsFollow
<1> QED
  BY <1>1, <1>6, <1>7, <1>8 DEF HeartInv

LEMMA RealtimeStarts ==
  ASSUME RealtimeInit PROVE RealtimeInv
<1>1. Wired
  <2>1. /\ screen = [s \in scene.screens |-> Closed] /\ scene \in Scenes /\ losses \in 0..MaxLosses
    BY DEF RealtimeInit, ChannelsInit
  <2>2. losses \in Nat
    BY <2>1, ChannelsAssumption
  <2> QED
    BY <2>1, <2>2, ClosedFacts, ClosedStart DEF Wired
<1> QED
  BY <1>1, TalkStarts, DeskStarts, PagesStart DEF RealtimeInv

-----------------------------------------------------------------------------
(***************************************************************************)
(* Every step                                                              *)
(***************************************************************************)
\* The screens of one part are not those of another.
LEMMA ScreensApart ==
  /\ On(TalkScreens) \subseteq scene.screens \ (DeskScreens \cup OrderScreens \cup HeartScreens)
  /\ On(DeskScreens) \subseteq scene.screens \ (TalkScreens \cup OrderScreens \cup HeartScreens)
  /\ On(OrderScreens) \subseteq scene.screens \ (TalkScreens \cup DeskScreens \cup HeartScreens)
  /\ On(HeartScreens) \subseteq scene.screens \ (TalkScreens \cup DeskScreens \cup OrderScreens)
<1>1. /\ TalkScreens \cap DeskScreens = {} /\ OrderScreens \cap HeartScreens = {}
      /\ (TalkScreens \cup DeskScreens) \cap (OrderScreens \cup HeartScreens) = {}
  BY RealtimeScenes
<1> QED
  BY <1>1 DEF On

LEMMA RestartKeeps ==
  ASSUME RealtimeInv, Restart PROVE RealtimeInv'
<1>1. /\ losses' = losses + 1 /\ screen' = AllDropped
      /\ RestartTalk /\ RestartDesk /\ RestartOrders /\ RestartHearts
      /\ UNCHANGED <<opened, messages, notices, autoReply, receipts, pages, cases, stored, seen, parcel, watched, scene>>
  BY DEF Restart
<1>2. Wired /\ TalkInv /\ DeskInv /\ OrderInv /\ HeartInv
  BY DEF RealtimeInv
<1>3. Wired' /\ \A s \in scene.screens : Carried(screen[s], screen'[s]) /\ screen'[s].link # "up"
  BY <1>1, <1>2, RestartCarries
<1>4. TalkInv'
  BY <1>1, <1>2, <1>3, TalkRestart DEF On
<1>5. DeskInv'
  BY <1>1, <1>2, <1>3, DeskRestart DEF On
<1>6. OrderInv'
  BY <1>1, <1>2, <1>3, OrderRestart DEF On
<1>7. HeartInv'
  BY <1>1, <1>2, <1>3, HeartRestart DEF On
<1> QED
  BY <1>3, <1>4, <1>5, <1>6, <1>7 DEF RealtimeInv

LEMMA RealtimeStepKeeps ==
  ASSUME RealtimeInv, [RealtimeNext]_realtimeVars PROVE RealtimeInv'
<1>0. Wired /\ TalkInv /\ DeskInv /\ OrderInv /\ HeartInv
  BY DEF RealtimeInv
<1>1. CASE TalkStep
  <2>1. Wired' /\ TalkInv' /\ \A t \in scene.screens \ TalkScreens : Carried(screen[t], screen'[t])
    BY <1>0, <1>1, TalkStepKeeps
  <2>2. UNCHANGED <<deskVars, orderVars, heartVars, scene>>
    BY <1>1 DEF TalkStep
  <2>3. DeskInv'
    BY <1>0, <2>1, <2>2, ScreensApart, DeskCarried
  <2>4. OrderInv'
    BY <1>0, <2>1, <2>2, ScreensApart, OrderCarried
  <2>5. HeartInv'
    BY <1>0, <2>1, <2>2, ScreensApart, HeartCarried
  <2> QED
    BY <2>1, <2>3, <2>4, <2>5 DEF RealtimeInv
<1>2. CASE DeskStep
  <2>1. Wired' /\ DeskInv' /\ \A t \in scene.screens \ DeskScreens : Carried(screen[t], screen'[t])
    BY <1>0, <1>2, DeskStepKeeps
  <2>2. UNCHANGED <<talkVars, orderVars, heartVars, scene>>
    BY <1>2 DEF DeskStep
  <2>3. TalkInv'
    BY <1>0, <2>1, <2>2, ScreensApart, TalkCarried
  <2>4. OrderInv'
    BY <1>0, <2>1, <2>2, ScreensApart, OrderCarried
  <2>5. HeartInv'
    BY <1>0, <2>1, <2>2, ScreensApart, HeartCarried
  <2> QED
    BY <2>1, <2>3, <2>4, <2>5 DEF RealtimeInv
<1>3. CASE OrderStep
  <2>1. Wired' /\ OrderInv' /\ \A t \in scene.screens \ OrderScreens : Carried(screen[t], screen'[t])
    BY <1>0, <1>3, OrderStepKeeps
  <2>2. UNCHANGED <<talkVars, deskVars, heartVars, scene>>
    BY <1>3 DEF OrderStep
  <2>3. TalkInv'
    BY <1>0, <2>1, <2>2, ScreensApart, TalkCarried
  <2>4. DeskInv'
    BY <1>0, <2>1, <2>2, ScreensApart, DeskCarried
  <2>5. HeartInv'
    BY <1>0, <2>1, <2>2, ScreensApart, HeartCarried
  <2> QED
    BY <2>1, <2>3, <2>4, <2>5 DEF RealtimeInv
<1>4. CASE HeartStep
  <2>1. Wired' /\ HeartInv' /\ \A t \in scene.screens \ HeartScreens : screen'[t] = screen[t]
    BY <1>0, <1>4, HeartStepKeeps
  <2>2. \A t \in scene.screens \ HeartScreens : Carried(screen[t], screen'[t])
    BY <1>0, <2>1, WiredFacts, CarriedSame
  <2>3. UNCHANGED <<talkVars, deskVars, orderVars, scene>>
    BY <1>4 DEF HeartStep
  <2>4. TalkInv'
    BY <1>0, <2>1, <2>2, <2>3, ScreensApart, TalkCarried
  <2>5. DeskInv'
    BY <1>0, <2>1, <2>2, <2>3, ScreensApart, DeskCarried
  <2>6. OrderInv'
    BY <1>0, <2>1, <2>2, <2>3, ScreensApart, OrderCarried
  <2> QED
    BY <2>1, <2>4, <2>5, <2>6 DEF RealtimeInv
<1>5. ASSUME Wired', \A t \in scene.screens : Carried(screen[t], screen'[t]),
             UNCHANGED <<talkVars, deskVars, orderVars, heartVars, scene>>
      PROVE  RealtimeInv'
  <2>1. TalkInv'
    BY <1>0, <1>5, TalkCarried DEF On
  <2>2. DeskInv'
    BY <1>0, <1>5, DeskCarried DEF On
  <2>3. OrderInv'
    BY <1>0, <1>5, OrderCarried DEF On
  <2>4. HeartInv'
    BY <1>0, <1>5, HeartCarried DEF On
  <2> QED
    BY <1>5, <2>1, <2>2, <2>3, <2>4 DEF RealtimeInv
<1>6. CASE SocketStep
  <2>1. Wired' /\ \A t \in scene.screens : Carried(screen[t], screen'[t])
    BY <1>0, <1>6, SocketStepCarries
  <2>2. UNCHANGED <<talkVars, deskVars, orderVars, heartVars, scene>>
    BY <1>6 DEF SocketStep
  <2> QED
    BY <1>5, <2>1, <2>2
<1>7. CASE UNCHANGED realtimeVars
  <2>1. UNCHANGED <<channelVars, talkVars, deskVars, orderVars, heartVars, scene>>
    BY <1>7 DEF realtimeVars
  <2>2. Wired' /\ screen' = screen
    BY <1>0, <2>1, WiredSame
  <2>3. \A t \in scene.screens : Carried(screen[t], screen'[t])
    BY <1>0, <2>2, WiredFacts, CarriedSame
  <2> QED
    BY <1>5, <2>1, <2>2, <2>3
<1>8. CASE Restart
  BY <1>8, RestartKeeps
<1> QED
  BY <1>1, <1>2, <1>3, <1>4, <1>6, <1>7, <1>8 DEF RealtimeNext

\* The invariant holds from any past the API can have left, through every mount,
\* loss, reconnection, overtaken answer and restart.
THEOREM RealtimeInductive == RealtimeSpec => []RealtimeInv
<1>1. RealtimeInit => RealtimeInv
  BY RealtimeStarts
<1>2. RealtimeInv /\ [RealtimeNext]_realtimeVars => RealtimeInv'
  BY RealtimeStepKeeps
<1> QED
  BY <1>1, <1>2, PTL DEF RealtimeSpec

\* A message is marked read only when a page that held it was read by the one it
\* was sent to, whatever is said or read in other tabs between the read of a page
\* and the write that marks it (listMessages).
THEOREM RealtimeReceiptsAreEarned == RealtimeSpec => []ReceiptsAreEarned
<1>1. RealtimeInv => ReceiptsAreEarned
  BY ReceiptsAreTold DEF RealtimeInv
<1> QED
  BY <1>1, RealtimeInductive, PTL

\* A case is handed to a person only if the assistant had failed on it, whatever
\* requests, replies, closings and restarts came in between (streamReply, escalate).
THEOREM RealtimeHandoverEarned == RealtimeSpec => []HandoverEarned
<1>1. RealtimeInv => HandoverEarned
  BY HandoversAreEarned DEF RealtimeInv
<1> QED
  BY <1>1, RealtimeInductive, PTL

\* An administrator's words at the end of the widget were looked at or are told by
\* the dot, by whichever way and in whichever order they came (SupportChatWidget).
THEOREM RealtimeRepliesAreNoticed == RealtimeSpec => []RepliesAreNoticed
<1>1. RealtimeInv => RepliesAreNoticed
  BY RepliesAreSeen DEF RealtimeInv
<1> QED
  BY <1>1, RealtimeInductive, PTL

\* Hearts, lists and badges end up those of the watchlist rows after any presses,
\* errors and overtaken reads (useWatchlistToggle: onMutate, onError, onSettled).
THEOREM RealtimeHeartsTellTheTruth == RealtimeSpec => []HeartsTellTheTruth
<1>1. RealtimeInv => HeartsTellTheTruth
  BY HeartsAreTold DEF RealtimeInv
<1> QED
  BY <1>1, RealtimeInductive, PTL

\* A step of the parcel that was answered is on the page it was pressed on, and
\* no later answer takes it back (ShipmentControls).
THEOREM RealtimePressesAreShown == RealtimeSpec => []PressesAreShown
<1>1. RealtimeInv => PressesAreShown
  BY PressesAreTold DEF RealtimeInv
<1> QED
  BY <1>1, RealtimeInductive, PTL

\* A connected screen with nothing under way shows what the API would answer:
\* whatever its socket missed is made good by the read that readiness starts
\* (useUserChannel, useSupportInboxChannel).
THEOREM RealtimeScreensAreCurrent == RealtimeSpec => []RestingScreensAreCurrent
<1>1. RealtimeInv => RestingScreensAreCurrent
  BY TalksAreCurrent, QueuesAreCurrent, PagesAreCurrent DEF RealtimeInv, RestingScreensAreCurrent
<1> QED
  BY <1>1, RealtimeInductive, PTL
=============================================================================
