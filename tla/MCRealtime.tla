----------------------------- MODULE MCRealtime -----------------------------
(* Scenes for Realtime: two people, one administrator, one guest.          *)
EXTENDS Realtime

CONSTANTS u1, u2, a1, c1, c2, th1, th2, li, be, he, no, w1, wg, ca, qu, or, se, s2, so, ha, hb, i1, i2, i3, k1, k2, k3

ScreenSet == {th1, th2, li, be, he, no, w1, wg, ca, qu, or, se, s2, so, ha, hb}
Owners == [s \in ScreenSet |-> CASE s \in {th1, w1, or} -> u1
                                 [] s \in {th2, li, be, he, no, se, s2, so, ha, hb} -> u2
                                 [] s \in {ca, qu} -> a1
                                 [] s = wg -> Nothing]
AdminSet == {a1}
TalkKinds == th1 :> "thread" @@ th2 :> "thread" @@ li :> "list" @@ be :> "bell" @@ he :> "header"
             @@ no :> "notices"
Threads == [s \in DOMAIN TalkKinds |-> c1]
Betweens == c1 :> [buyerId |-> u1, sellerId |-> u2] @@ c2 :> [buyerId |-> u2, sellerId |-> u1]
DeskKinds == w1 :> "widget" @@ wg :> "widget" @@ ca :> "case" @@ qu :> "queue"
OrderKinds == or :> "order" @@ se :> "selling" @@ s2 :> "selling" @@ so :> "sold"
Lists == [s \in DOMAIN OrderKinds |-> IF s = se THEN so ELSE Nothing]
Hearted == ha :> {i1, i2} @@ hb :> {i1, i3}
CaseThreads == [s \in DOMAIN DeskKinds |-> k1]

Row(status, said) == [NoCase EXCEPT !.status = status, !.userId = u1, !.messages = said]
Said(role, body) == [role |-> role, body |-> body]
None == [c \in Cases |-> NoCase]
Missed == [None EXCEPT ![k1] = Row("AI_ONLY", <<Said("USER", "asks"), Said("ASSISTANT", "fallback"),
                                                Said("USER", "asks"), Said("ASSISTANT", "fallback")>>)]
Open == [None EXCEPT ![k1] = Row("ESCALATED", <<Said("USER", "wants"), Said("ASSISTANT", "contact")>>)]
Shut == [None EXCEPT ![k1] = [Row("RESOLVED", <<Said("USER", "wants"), Said("ASSISTANT", "contact")>>)
                                EXCEPT !.closedAt = 2]]

Quiet == [opened |-> {c1}, messages |-> [c \in Conversations |-> <<>>], notices |-> <<>>,
          autoReply |-> {}, pages |-> [c \in Conversations |-> [u \in People(c) |-> 0]]]
\* One message from u1 to u2 in c2, and u1 set to answer a purchase.
Written1 == [opened |-> {c2}, autoReply |-> {u1}, pages |-> Quiet.pages,
             messages |-> (c1 :> <<>>) @@ (c2 :> <<[sender |-> u1, read |-> FALSE]>>),
             notices |-> <<[id |-> 0, userId |-> u2, read |-> FALSE]>>]

\* One from u2 to u1 in c1, and u2 set to answer.
Written2 == [Quiet EXCEPT !.messages[c1] = <<[sender |-> u2, read |-> FALSE]>>, !.autoReply = {u2}]

Chat(screens, ss, talks, settings, talk) ==
  [screens |-> screens, sends |-> ss, talks |-> talks, settings |-> settings, talk |-> talk,
   calls |-> {}, desk |-> {None}, presses |-> {}, parcels |-> {"PROCESSING"},
   groups |-> {}, toggles |-> {}, watched |-> {}, lost |-> 0]
Desk(screens, calls, desk) ==
  [screens |-> screens, sends |-> {}, talks |-> {}, settings |-> {}, talk |-> Quiet,
   calls |-> calls, desk |-> desk, presses |-> {}, parcels |-> {"PROCESSING"},
   groups |-> {}, toggles |-> {}, watched |-> {}, lost |-> 0]
Parcel(screens, ps, parcels, groups) ==
  [Chat(screens, {}, {}, {}, Quiet) EXCEPT !.presses = ps, !.parcels = parcels, !.groups = groups]
Heart(s, ts, before) == [Chat({s}, {}, {}, {}, Quiet) EXCEPT !.toggles = ts, !.watched = before]

\* A thread and the other side's list; both sides of a thread; pages of a thread.
TalkScene == Chat({th1, li}, {1}, {}, {}, Quiet)
PairScene == Chat({th1, th2}, {1}, {}, {}, Quiet)
ReceiptScene == Chat({th1}, {1, 2}, {c1}, {u2}, Written2)
\* The bell and the dot; the list of notifications, alone and under the dot.
BellScene == Chat({be, he}, {1}, {c2}, {}, Written1)
ListScene == [Chat({no}, {1}, {c2}, {}, Written1) EXCEPT !.lost = MaxLosses]
DotScene == [Chat({no, he}, {}, {}, {}, Written1) EXCEPT !.lost = MaxLosses]
LeftScene == Chat({no}, {}, {}, {}, Written1)
\* The widget before and after the handover; a guest's; an administrator's side.
AskScene == Desk({w1}, {1, 2}, {None, Missed, Open})
GuestScene == Desk({wg}, {1, 2, 3}, {None})
ReplyScene == Desk({w1, ca}, {1}, {Open})
ThreadScene == Desk({ca}, {1, 2}, {Open, Shut})
QueueScene == Desk({ca, qu}, {1}, {Open, Shut})
\* An order on both sides; in two tabs of the seller's; under the seller's
\* list; alone, with something lost.
SentScene == [Parcel({or, se}, {1}, {"PROCESSING"}, {}) EXCEPT !.lost = MaxLosses]
TabsScene == [Parcel({se, s2}, {1, 2}, {"IN_TRANSIT"}, {}) EXCEPT !.lost = MaxLosses]
SoldScene == Parcel({se, so}, {1}, {"IN_TRANSIT"}, {"moving"})
SoloScene == Parcel({se}, {1}, {"PROCESSING"}, {})
\* Two hearts that are lit; one that is not, beside one that cannot be.
HeartScenes == {Heart(ha, {1, 2}, {i1, i2}), Heart(hb, {1, 2}, {i3})}
AllScenes == {TalkScene, PairScene, ReceiptScene, BellScene, ListScene, DotScene, LeftScene,
              AskScene, GuestScene, ReplyScene, ThreadScene, QueueScene,
              SentScene, TabsScene, SoldScene, SoloScene} \cup HeartScenes
=============================================================================
