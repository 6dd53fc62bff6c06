------------------------------ MODULE Realtime ------------------------------
(***************************************************************************)
(* The screens that follow the API, over chat, notifications, support,     *)
(* orders and what is followed: they mount and leave in any order, sockets *)
(* drop and come back, answers overtake each other, the process restarts.  *)
(***************************************************************************)
EXTENDS Talk, SupportDesk, OrderPages, Hearts

CONSTANT Scenes   \* which screens, conversations and calls a behaviour has, and what came before

ASSUME RealtimeScenes ==
  /\ TalkScreens \cap DeskScreens = {} /\ OrderScreens \cap HeartScreens = {}
  /\ (TalkScreens \cup DeskScreens) \cap (OrderScreens \cup HeartScreens) = {}
  /\ Sends \subseteq Nat /\ DeskCalls \subseteq Nat
  /\ \A x \in Scenes : x.screens \subseteq Screens /\ x.sends \subseteq Sends
                       /\ x.calls \subseteq DeskCalls /\ x.presses \subseteq Presses
                       /\ x.toggles \subseteq Toggles /\ x.talks \subseteq Conversations
                       /\ x.groups \subseteq DOMAIN GROUPS /\ x.parcels \subseteq ShipmentStatus

VARIABLE scene

realtimeVars == <<channelVars, talkVars, deskVars, orderVars, heartVars, scene>>

RealtimeInit ==
  /\ scene \in Scenes
  /\ ChannelsInit(scene.screens) /\ losses = scene.lost
  /\ TalkInit(scene.sends, scene.talk)
  /\ DeskInit(scene.screens, scene.calls, scene.desk)
  /\ OrdersInit(scene.presses, scene.parcels)
  /\ HeartsInit(scene.toggles, scene.watched)

On(kinds) == scene.screens \cap kinds

\* Calls are told apart by number only: the next one is the least not yet made.
NextSend == {k \in scene.sends : \A j \in scene.sends : j < k => sends[j].pc # "idle"}
NextPress == {k \in scene.presses : \A j \in scene.presses : j < k => presses[j].pc # "idle"}
NextToggle == {k \in scene.toggles : \A j \in scene.toggles : j < k => toggles[j].pc # "idle"}
NextCall == {k \in scene.calls : \A j \in scene.calls : j < k => deskCalls[j].pc # "idle"}

\* Requests that fail without a word: the bell, the dot and the marks.
LoseTalk(s) ==
  LoseRead(s, LAMBDA what : \/ TalkKind[s] \in {"bell", "header"}
                            \/ TalkKind[s] = "notices" /\ what.op \in {"one", "all"})

TalkStep ==
  /\ \/ \E s \in On(TalkScreens) :
          \/ Mount(s)
          \/ HearEvent(s)
          \/ JoinThread(s)
          \/ ServeRead(s)
          \/ ShowRead(s)
          \/ Press(s)
          \/ ServeNotices(s)
          \/ ShowNotices(s)
          \/ LoseTalk(s) /\ UNCHANGED talkVars
          \/ LeaveTalk(s)
          \/ \E k \in NextSend : submit(s, k)
     \/ \E k \in scene.sends :
          \/ sendMessage(k)
          \/ EmitMessage(k)
          \/ AnswerSend(k)
     \/ \E x \in receipts : MarkRead(x)
     \/ \E c \in scene.talks :
          \/ OpenConversation(c)
          \/ \E k \in NextSend : sendPurchaseAutoReply(k, c)
     \/ \E u \in scene.settings : setAutoReplyMessage(u)
  /\ UNCHANGED <<deskVars, orderVars, heartVars, scene>>

DeskStep ==
  /\ \/ \E s \in On(DeskScreens) :
          \/ MountWidget(s)
          \/ ServeHistory(s)
          \/ ShowHistory(s)
          \/ LoseHistory(s)
          \/ Toggle(s)
          \/ MountDesk(s)
          \/ ServeDesk(s)
          \/ ShowDesk(s)
          \/ HearDesk(s)
          \/ JoinCase(s)
          \/ LeaveDesk(s)
          \/ DeskKind[s] # "widget" /\ LoseRead(s, LAMBDA what : FALSE) /\ UNCHANGED deskVars
          \/ \E k \in NextCall :
               \/ \E body \in {"asks", "wants"} : handleSend(s, k, body)
               \/ pressEscalate(s, k)
               \/ \E op \in {"claim", "reply", "resolve"} : pressThread(s, k, op)
     \/ \E k \in scene.calls :
          \/ LoadCase(k)
          \/ SaveQuestion(k)
          \/ Reply(k)
          \/ ReplyFails(k)
          \/ Verdict(k)
          \/ WriteCase(k)
          \/ EmitCase(k)
          \/ AnswerCall(k)
  /\ UNCHANGED <<talkVars, orderVars, heartVars, scene>>

OrderStep ==
  /\ \/ \E s \in On(OrderScreens) :
          \/ \E old \in BOOLEAN : MountPage(s, old)
          \/ LeavePage(s)
          \/ HearOrder(s)
          \/ \E group \in scene.groups : setGroup(s, group)
          \/ ServeOrder(s)
          \/ ShowOrder(s)
          \/ LoseOrder(s)
          \/ \E k \in NextPress : advance(s, k)
     \/ \E k \in scene.presses :
          \/ LoadParties(k)
          \/ updateStatus(k)
          \/ emitOrderStatusChanged(k, {OwnerOf[s] : s \in OrderScreens})
          \/ AnswerPress(k)
  /\ UNCHANGED <<talkVars, deskVars, heartVars, scene>>

HeartStep ==
  /\ \/ \E s \in On(HeartScreens) :
          \/ \E old \in BOOLEAN : MountHearts(s, old)
          \/ LeaveHearts(s)
          \/ ServeHearts(s)
          \/ ShowHearts(s)
          \/ \E k \in NextToggle, item \in HeartsOn[s] : toggle(s, k, item)
     \/ \E k \in scene.toggles :
          \/ ServeToggle(k)
          \/ LoseToggle(k)
          \/ SettleToggle(k)
  /\ UNCHANGED <<talkVars, deskVars, orderVars, scene>>

SocketStep ==
  /\ \E s \in scene.screens \ HeartScreens : handleConnection(s) \/ LoseSocket(s)
  /\ UNCHANGED <<talkVars, deskVars, orderVars, heartVars, scene>>

Restart ==
  /\ losses < MaxLosses
  /\ losses' = losses + 1
  /\ screen' = AllDropped
  /\ RestartTalk
  /\ RestartDesk
  /\ RestartOrders
  /\ RestartHearts
  /\ UNCHANGED <<opened, messages, notices, autoReply, receipts, pages, cases, stored, seen, parcel, watched,
                 scene>>

RealtimeNext == TalkStep \/ DeskStep \/ OrderStep \/ HeartStep \/ SocketStep \/ Restart

RealtimeSpec == RealtimeInit /\ [][RealtimeNext]_realtimeVars

-----------------------------------------------------------------------------
RealtimeTypeOK ==
  /\ TalkTypeOK
  /\ DeskTypeOK
  /\ OrdersTypeOK
  /\ \A s \in scene.screens :
       /\ screen[s].link \in {"closed", "off", "down", "up", "rejected"}
       /\ screen[s].link # "up" => screen[s].rooms = {}
       /\ s \in TalkScreens => Len(screen[s].reads) <= MaxReads
  /\ losses \in 0..MaxLosses

\* A connected screen with nothing under way shows what the API would answer
\* now, whatever was lost while its socket was down, unless an older answer came
\* last or a read failed: everything it missed is made good by the read that
\* useUserChannel and useSupportInboxChannel start when the channel is ready.
RestingScreensAreCurrent ==
  /\ \A s \in On(TalkScreens) : TalkIsCurrent(s)
  /\ \A s \in On(DeskScreens) : QueueIsCurrent(s)
  /\ \A s \in On(OrderScreens) : PageIsCurrent(s)

\* A press of the seller's that was answered is on the page it came from, and
\* stays there: ShipmentControls reads the order again itself, so it needs no socket.
PressesAreShown == \A k \in scene.presses : presses[k].from # Nothing => PressIsShown(k)

\* Once presses are over and nothing is being read, hearts, lists and badges are
\* those of the watchlist rows, whatever was dropped ahead of the server, put back
\* after an error, or read in between by another press (onMutate, onError, onSettled).
HeartsTellTheTruth == \A s \in On(HeartScreens) : HeartsAreTrue(s)

\* A message is marked read only if a page that held it was read by the one it
\* was sent to: a receipt is never given for one that arrives between the read of
\* a page and the write that marks it, or beyond the page, in whichever tab.
ReceiptsAreEarned ==
  \A c \in Conversations : \A i \in DOMAIN messages[c] :
    messages[c][i].read => i <= pages[c][Other(c, messages[c][i].sender)]

\* A case leaves the assistant only if the assistant had failed on it at some
\* point: three misses in a row, at its wits' end, or asked for a person.
GaveUp(past) ==
  LET said == BodiesOf(past, "ASSISTANT")
      asked == BodiesOf(past, "USER")
  IN  \/ said # <<>> /\ Last(said) = "exhausted"
      \/ asked # <<>> /\ Last(asked) = "wants"
      \/ Len(said) >= 3 /\ \A i \in 0..2 : said[Len(said) - i] = "fallback"
Earned(said) == \E n \in 0..Len(said) : GaveUp(SubSeq(said, 1, n))
HandoverEarned ==
  \A c \in Cases : cases[c].status \in {"ESCALATED", "RESOLVED"} => Earned(cases[c].messages)

\* An administrator's words at the end of the widget were looked at, or the dot
\* says they are there: whether they came by socket or with the history, and
\* whatever was opened, closed or switched meanwhile.
RepliesAreNoticed ==
  \A s \in DOMAIN stored :
    LET w == screen[s].shown
    IN  (screen[s].link # "closed" /\ w.entries # <<>> /\ Last(w.entries).role = "ADMIN") =>
          w.unread \/ \E c \in Cases : seen[s][c] = Last(w.entries).id

\* What came before a behaviour is something that can have come before.
PastTalk(past) ==
  /\ past.messages \in [Conversations -> Seq([sender : UNION {People(c) : c \in Conversations},
                                              read : BOOLEAN])]
  /\ past.notices \in Seq([id : {0}, userId : UNION {People(c) : c \in Conversations},
                            read : BOOLEAN])
  /\ past.pages = [c \in Conversations |-> past.pages[c]]
  /\ \A c \in Conversations :
       /\ past.pages[c] \in [People(c) -> Nat]
       /\ past.messages[c] # <<>> => c \in past.opened
       /\ \A i \in DOMAIN past.messages[c] :
            LET m == past.messages[c][i]
            IN  m.sender \in People(c) /\ (m.read => i <= past.pages[c][Other(c, m.sender)])
PastDesk(past) ==
  /\ past = [c \in Cases |-> past[c]]
  /\ \A c \in Cases :
    /\ past[c] \in [status : {"NONE", "AI_ONLY", "ESCALATED", "RESOLVED"}, userId : {past[c].userId},
                    assigned : Admins \cup {Nothing}, closedAt : Nat,
                    messages : Seq([role : {"USER", "ASSISTANT", "ADMIN"},
                                    body : Replies \cup {"asks", "wants", "says", "contact"}])]
    /\ past[c].status = "NONE" => past[c].messages = <<>>
    /\ past[c].status # "NONE" => past[c].userId # Nothing
    /\ past[c].status \in {"ESCALATED", "RESOLVED"} => Earned(past[c].messages)

ASSUME RealtimePasts ==
  \A x \in Scenes : PastTalk(x.talk) /\ \A past \in x.desk : PastDesk(past)

-----------------------------------------------------------------------------
(***************************************************************************)
(* Claims of the code's comments that the code does not keep               *)
(***************************************************************************)

\* A customer who writes to a closed case brings it back to the queue.
ClosedCasesReopen ==
  \A c \in Cases :
    cases[c].status = "RESOLVED" =>
      \A i \in DOMAIN cases[c].messages : cases[c].messages[i].role = "USER" => i <= cases[c].closedAt
=============================================================================
