-------------------------------- MODULE Talk --------------------------------
(***************************************************************************)
(* ChatService and NotificationService with the screens over them: a       *)
(* thread, the list of conversations, the bell, the header's dot and the   *)
(* list of notifications.                                                  *)
(***************************************************************************)
EXTENDS Channels, FiniteSetsExt

CONSTANTS
  Conversations,  \* one per listing, buyer and seller
  Between,        \* the buyer and the seller of each
  Withdrawn,      \* the ones whose listing is gone from view
  TalkKind,       \* what each chat screen is
  ThreadOf,       \* the conversation a thread screen shows
  Sends,          \* executions of sendMessage
  ThreadPage,     \* messages in a page of a thread
  PageSize,       \* rows in a page of the notifications
  MaxMessages     \* bound on the messages of a conversation

TalkScreens == DOMAIN TalkKind

ASSUME TalkAssumption ==
  /\ TalkScreens \subseteq Screens
  /\ \A s \in TalkScreens : TalkKind[s] \in {"thread", "list", "bell", "header", "notices"}
  /\ \A c \in Conversations : Between[c].buyerId # Between[c].sellerId
  /\ \A s \in TalkScreens : TalkKind[s] = "thread" =>
       /\ ThreadOf[s] \in Conversations
       /\ OwnerOf[s] \in {Between[ThreadOf[s]].buyerId, Between[ThreadOf[s]].sellerId}
  /\ Withdrawn \subseteq Conversations
  /\ ThreadPage \in Nat \ {0} /\ PageSize \in Nat \ {0} /\ MaxMessages \in Nat

VARIABLES
  opened,       \* conversations rows that exist
  messages,     \* messages of each conversation, in insertion order
  notices,      \* notifications, in insertion order
  autoReply,    \* sellers with an auto-reply message
  sends,        \* progress of each sendMessage
  receipts,     \* pages that were read and whose marking is not yet written
  pages         \* history: the furthest message each person's reads have held

talkVars == <<opened, messages, notices, autoReply, sends, receipts, pages>>

People(c) == {Between[c].buyerId, Between[c].sellerId}
Other(c, user) == CHOOSE u \in People(c) : u # user

IdleSend == [pc |-> "idle", conversation |-> Nothing, sender |-> Nothing, from |-> Nothing]

\* `past` is what was said before, how far it was read, its notifications, and who
\* answers by themselves.
TalkInit(ss, past) ==
  /\ opened = past.opened
  /\ messages = past.messages
  /\ notices = past.notices
  /\ autoReply = past.autoReply
  /\ sends = [k \in ss |-> IdleSend] /\ receipts = {}
  /\ pages = past.pages

-----------------------------------------------------------------------------
(***************************************************************************)
(* What the reads return                                                   *)
(***************************************************************************)
\* listMessages: the first page, oldest first, and what is new on it to `user`.
PageOf(c) == Min({Len(messages[c]), ThreadPage})
listMessages(c, user) ==
  [page |-> PageOf(c),
   unread |-> {i \in 1..PageOf(c) : messages[c][i].sender # user /\ ~messages[c][i].read}]

\* listConversations: the last message of each and how many wait to be read.
listConversations(user) ==
  [c \in {d \in opened : user \in People(d)} |->
     [last |-> Len(messages[c]),
      unread |-> Cardinality({i \in DOMAIN messages[c] :
                                messages[c][i].sender # user /\ ~messages[c][i].read})]]

unreadCount(user) ==
  Cardinality({i \in DOMAIN notices : notices[i].userId = user /\ ~notices[i].read})

\* NotificationService.list: newest first, a page of them, and the counts.
Listed(user, unreadOnly) ==
  SelectSeq(Reverse([i \in DOMAIN notices |-> [notices[i] EXCEPT !.id = i]]),
            LAMBDA n : n.userId = user /\ (unreadOnly => ~n.read))
listNotices(user, unreadOnly, page) ==
  LET all == Listed(user, unreadOnly)
  IN  [items |-> SubSeq(all, (page - 1) * PageSize + 1, Min({Len(all), page * PageSize})),
       total |-> Len(all), unread |-> unreadCount(user)]

\* What a screen's read returns now.
View(s) ==
  CASE TalkKind[s] = "thread" -> listMessages(ThreadOf[s], OwnerOf[s])
    [] TalkKind[s] = "list" -> listConversations(OwnerOf[s])
    [] TalkKind[s] \in {"bell", "header"} -> unreadCount(OwnerOf[s])

-----------------------------------------------------------------------------
(***************************************************************************)
(* Conversations and messages                                              *)
(***************************************************************************)

\* openProductConversation and openAuctionConversation: an upsert of a listing
\* in view, by somebody who is not its seller; the screen then goes there.
OpenConversation(c) ==
  /\ c \notin Withdrawn
  /\ opened' = opened \cup {c}
  /\ UNCHANGED <<messages, notices, autoReply, sends, receipts, pages, channelVars>>

\* setAutoReplyMessage: empty turns it off.
setAutoReplyMessage(user) ==
  /\ \/ autoReply' = autoReply \cup {user}
     \/ autoReply' = autoReply \ {user}
  /\ UNCHANGED <<opened, messages, notices, sends, receipts, pages, channelVars>>

\* ConversationThread.submit, disabled while one is being sent.
submit(s, k) ==
  /\ TalkKind[s] = "thread" /\ screen[s].link # "closed"
  /\ ~screen[s].failed /\ ~screen[s].busy
  /\ sends[k].pc = "idle"
  /\ sends' = [sends EXCEPT ![k] = [pc |-> "commit", conversation |-> ThreadOf[s],
                                    sender |-> OwnerOf[s], from |-> s]]
  /\ Put(s, [screen[s] EXCEPT !.busy = TRUE])
  /\ UNCHANGED <<losses, opened, messages, notices, autoReply, receipts, pages>>

\* sendPurchaseAutoReply after an order: nothing without a message or with the
\* listing gone, and never an error.
sendPurchaseAutoReply(k, c) ==
  /\ sends[k].pc = "idle"
  /\ Between[c].sellerId \in autoReply /\ c \notin Withdrawn
  /\ opened' = opened \cup {c}
  /\ sends' = [sends EXCEPT ![k] = [pc |-> "commit", conversation |-> c,
                                    sender |-> Between[c].sellerId, from |-> Nothing]]
  /\ UNCHANGED <<messages, notices, autoReply, receipts, pages, channelVars>>

\* sendMessage: a participant's message and its notification in one transaction.
sendMessage(k) ==
  LET c == sends[k].conversation
      sender == sends[k].sender
  IN  /\ sends[k].pc = "commit"
      /\ c \in opened /\ sender \in People(c)
      /\ Len(messages[c]) < MaxMessages
      /\ messages' = [messages EXCEPT ![c] = Append(@, [sender |-> sender, read |-> FALSE])]
      /\ notices' = Append(notices, [id |-> 0, userId |-> Other(c, sender), read |-> FALSE])
      /\ sends' = [sends EXCEPT ![k].pc = "emit"]
      /\ UNCHANGED <<opened, autoReply, receipts, pages, channelVars>>

\* After the commit: the room, then the recipient.
EmitMessage(k) ==
  LET c == sends[k].conversation
      told == emitToRoom(screen, conversationRoom(c), "message:sent", Nothing)
  IN  /\ sends[k].pc = "emit"
      /\ screen' = emitToRoom(told, userRoom(Other(c, sends[k].sender)),
                              "notification:created", Nothing)
      /\ sends' = [sends EXCEPT ![k].pc = IF sends[k].from = Nothing THEN "done" ELSE "answer"]
      /\ UNCHANGED <<losses, opened, messages, notices, autoReply, receipts, pages>>

\* The sender's thread reads again; after a failure it says so instead.
AnswerSend(k) ==
  LET s == sends[k].from
      after == [screen[s] EXCEPT !.busy = FALSE]
  IN  /\ sends[k].pc \in {"answer", "dead"} /\ s # Nothing
      /\ CanAsk(screen[s])
      /\ Put(s, IF screen[s].link = "closed" THEN screen[s]
                ELSE IF sends[k].pc = "answer" THEN refresh(after, "page")
                ELSE [after EXCEPT !.failed = TRUE])
      /\ sends' = [sends EXCEPT ![k].pc = "done"]
      /\ UNCHANGED <<losses, opened, messages, notices, autoReply, receipts, pages>>

-----------------------------------------------------------------------------
(***************************************************************************)
(* Screens                                                                 *)
(***************************************************************************)

\* What the list of notifications asks for: a page under the filter in force,
\* or a row to be marked, which keeps the filter it was pressed under.
Fetch(op, only, page) == [op |-> op, only |-> only, page |-> page]
Filter(r) == r.shown # Nothing /\ r.shown.only

\* What mounting asks for; the channel asks for the rest when it is ready.
FirstReads(kind) ==
  CASE kind = "thread" -> <<Request("page")>>
    [] kind = "notices" -> <<Request(Fetch("reset", FALSE, 1))>>
    [] kind = "header" -> <<Request("query")>>
    [] OTHER -> <<>>

Mount(s) ==
  /\ screen[s].link = "closed" /\ screen[s].reads = <<>>
  /\ \A k \in DOMAIN sends : sends[k].from = s => sends[k].pc = "done"
  /\ TalkKind[s] = "thread" => ThreadOf[s] \in opened
  /\ Put(s, [Closed EXCEPT !.link = "down", !.reads = FirstReads(TalkKind[s]),
                            !.behind = screen[s].behind])
  /\ UNCHANGED <<losses, talkVars>>

\* The hook each screen uses, and what it does with an event.
Heard(s, event) ==
  LET r == [screen[s] EXCEPT !.inbox = Tail(@)]
  IN  CASE TalkKind[s] = "thread" /\ event.name = "connection:ready" ->
             JoinWhenReady(r, conversationRoom(ThreadOf[s]))
        [] TalkKind[s] = "thread" /\ event.name = "message:sent" -> refresh(r, "page")
        [] TalkKind[s] \in {"list", "bell"} /\ event.name \in useUserChannel -> refresh(r, "page")
        [] TalkKind[s] = "notices" /\ event.name \in useUserChannel ->
             refresh(r, Fetch("refresh", Filter(r), 1))
        [] TalkKind[s] = "header" /\ event.name \in useUserChannel -> invalidate(r)
        [] OTHER -> r

HearEvent(s) ==
  /\ screen[s].inbox # <<>>
  /\ CanAsk(screen[s])
  /\ Put(s, Heard(s, Head(screen[s].inbox)))
  /\ UNCHANGED <<losses, talkVars>>

JoinThread(s) ==
  /\ TalkKind[s] = "thread"
  /\ JoinRoom(s, ThreadOf[s] \in opened /\ OwnerOf[s] \in People(ThreadOf[s]))
  /\ UNCHANGED talkVars

\* The server reads for a request.  A page with something new on it is receipted
\* by a statement of its own, and is not answered before.
ServeRead(s) ==
  \E i \in DOMAIN screen[s].reads :
    /\ ~screen[s].reads[i].served
    /\ TalkKind[s] # "notices"
    /\ Put(s, Served(screen[s], i, View(s)))
    /\ IF TalkKind[s] = "thread"
       THEN /\ pages' = [pages EXCEPT ![ThreadOf[s]][OwnerOf[s]] = Max({@, PageOf(ThreadOf[s])})]
            /\ receipts' = receipts \cup {x \in {[from |-> s, answer |-> View(s)]} :
                                           x.answer.unread # {}}
       ELSE UNCHANGED <<pages, receipts>>
    /\ UNCHANGED <<losses, opened, messages, notices, autoReply, sends>>

\* Mutant: the page is taken again for the marking, with what has come to it since.
MarkedRead_Again(x) ==
  LET c == ThreadOf[x.from]
  IN  [i \in DOMAIN messages[c] |->
         [messages[c][i] EXCEPT !.read = @ \/ i \in listMessages(c, OwnerOf[x.from]).unread]]

\* The messages that were new on the page, by their ids, and nothing else.
MarkedRead(x) ==
  [i \in DOMAIN messages[ThreadOf[x.from]] |->
     [messages[ThreadOf[x.from]][i] EXCEPT !.read = @ \/ i \in x.answer.unread]]

\* listMessages, the updateMany, whether or not anybody waits for the answer.
MarkRead(x) ==
  /\ messages' = [messages EXCEPT ![ThreadOf[x.from]] = MarkedRead(x)]
  /\ receipts' = receipts \ {x}
  /\ UNCHANGED <<opened, notices, autoReply, sends, pages, channelVars>>

\* An answer replaces what was shown.
ShowRead(s) ==
  /\ TalkKind[s] # "notices"
  /\ \E i \in DOMAIN screen[s].reads :
       LET got == screen[s].reads[i].value
       IN  /\ screen[s].reads[i].served
           /\ TalkKind[s] = "thread" => [from |-> s, answer |-> got] \notin receipts
           /\ Put(s, Arrived(screen[s], i, got))
  /\ UNCHANGED <<losses, talkVars>>

-----------------------------------------------------------------------------
(***************************************************************************)
(* NotificationList                                                        *)
(***************************************************************************)

concatUnique(first, second) ==
  first \o SelectSeq(second, LAMBDA n : \A i \in DOMAIN first : first[i].id # n.id)

\* absorb, and readOne: the header's dot of the same person is asked for again.
Absorbed(s, new) ==
  screen' = [t \in DOMAIN screen |->
    CASE t = s -> new
      [] t \in TalkScreens \ {s} /\ TalkKind[t] = "header" /\ OwnerOf[t] = OwnerOf[s]
           /\ screen[t].link # "closed" -> invalidate(screen[t])
      [] OTHER -> screen[t]]

\* What can be pressed on a loaded page: the filter, the next page, a row, all
\* of them at once.
Press(s) ==
  LET r == screen[s]
      asked(op) == \E i \in DOMAIN r.reads : r.reads[i].what.op = op
  IN  /\ TalkKind[s] = "notices" /\ r.shown # Nothing /\ ~r.failed
      /\ CanAsk(r)
      /\ \/ LET now == [r EXCEPT !.shown.only = ~@]
            IN  Put(s, refresh(now, Fetch("reset", now.shown.only, 1)))
         \/ /\ r.shown.pages * PageSize < r.shown.total /\ ~asked("more")
            /\ Put(s, refresh(r, Fetch("more", Filter(r), r.shown.pages + 1)))
         \/ \E i \in DOMAIN r.shown.items :
              /\ ~r.shown.items[i].read
              /\ Put(s, refresh(r, Fetch("one", Filter(r), r.shown.items[i].id)))
         \/ /\ r.shown.unread > 0 /\ ~asked("all")
            /\ Put(s, refresh(r, Fetch("all", FALSE, 1)))
      /\ UNCHANGED <<losses, talkVars>>

\* The server's half: list, markRead, markAllRead.
ServeNotices(s) ==
  /\ TalkKind[s] = "notices"
  /\ \E i \in DOMAIN screen[s].reads :
       LET what == screen[s].reads[i].what
           marks == {j \in DOMAIN notices : /\ notices[j].userId = OwnerOf[s]
                                            /\ what.op = "all" \/ (what.op = "one" /\ what.page = j)}
       IN  /\ ~screen[s].reads[i].served
           /\ Put(s, Served(screen[s], i, IF what.op \in {"one", "all"} THEN Nothing
                                          ELSE listNotices(OwnerOf[s], what.only, what.page)))
           /\ notices' = [j \in DOMAIN notices |->
                            [notices[j] EXCEPT !.read = @ \/ j \in marks]]
  /\ UNCHANGED <<losses, opened, messages, autoReply, sends, receipts, pages>>

\* A row marked where it stands; under "unread" it leaves, and the total with it.
Patched(shown, what) ==
  [shown EXCEPT
     !.items = SelectSeq([i \in DOMAIN @ |-> IF @[i].id = what.page
                                             THEN [@[i] EXCEPT !.read = TRUE] ELSE @[i]],
                         LAMBDA n : ~(what.only /\ n.id = what.page)),
     !.unread = Max({0, @ - 1}),
     !.total = IF what.only THEN Max({0, @ - 1}) ELSE @]

\* The screen's half: reset, refresh, loadMore, readOne, readAll.  On a page that
\* was left only the dot is left to tell.
ShowNotices(s) ==
  /\ TalkKind[s] = "notices"
  /\ \E i \in DOMAIN screen[s].reads :
       LET r == screen[s]
           what == r.reads[i].what
           got == r.reads[i].value
           had == IF r.shown = Nothing THEN <<>> ELSE r.shown.items
           page(items, n) == [items |-> items, unread |-> got.unread, total |-> got.total,
                              pages |-> n, only |-> Filter(r)]
           over == [r EXCEPT !.reads = Removed(@, i)]
       IN  /\ r.reads[i].served
           /\ CASE r.link = "closed" /\ what.op # "all" -> Absorbed(s, over)
                [] r.link # "closed" /\ what.op = "reset" -> Absorbed(s, Arrived(r, i, page(got.items, 1)))
                [] r.link # "closed" /\ what.op = "refresh" ->
                     Absorbed(s, Arrived(r, i, page(concatUnique(got.items, had),
                                                IF r.shown = Nothing THEN 1 ELSE r.shown.pages)))
                [] r.link # "closed" /\ what.op = "more" ->
                     Absorbed(s, Arrived(r, i, page(concatUnique(had, got.items), what.page)))
                [] r.link # "closed" /\ what.op = "one" ->
                     Absorbed(s, [over EXCEPT !.shown = Patched(@, what)])
                [] what.op = "all" -> Put(s, refresh(over, Fetch("reset", Filter(r), 1)))
  /\ UNCHANGED <<losses, talkVars>>

\* Leaving the list of notifications leaves its requests to run on.
LeaveTalk(s) ==
  /\ Unmount(s, IF TalkKind[s] # "notices" THEN Closed
                ELSE [Closed EXCEPT !.reads = screen[s].reads, !.behind = screen[s].behind])
  /\ UNCHANGED talkVars

\* The process restarts: sends under way die with it.  A marking may be with the
\* database already, and be carried out or not.
RestartTalk ==
  sends' = [k \in DOMAIN sends |-> IF sends[k].pc \in {"commit", "emit", "answer"}
                            THEN [sends[k] EXCEPT !.pc = "dead"] ELSE sends[k]]

\* At rest, the bell and the dot count every notification that came, and the
\* list has what the others said last.  The dot is also told of marks that the
\* list of notifications makes; the bell is not, and may count what was read.
TalkIsCurrent(s) ==
  LET me == OwnerOf[s]
      shown == screen[s].shown
      theirs(c) == messages[c] # <<>> /\ me \in People(c) /\ Last(messages[c]).sender # me
      marking(t) == /\ TalkKind[t] = "notices" /\ OwnerOf[t] = me
                    /\ screen[t].reads # <<>> \/ screen[t].behind
  IN  (Resting(s) /\ ~screen[s].behind /\ \A k \in DOMAIN sends : sends[k].pc # "emit") =>
        /\ TalkKind[s] \in {"bell", "header"} => shown # Nothing /\ shown >= unreadCount(me)
        /\ TalkKind[s] = "header" =>
             shown = unreadCount(me) \/ \E t \in DOMAIN screen \cap TalkScreens : marking(t)
        /\ TalkKind[s] = "list" =>
             \A c \in Conversations : theirs(c) =>
               c \in DOMAIN shown /\ shown[c].last = Len(messages[c])

TalkTypeOK ==
  /\ opened \subseteq Conversations
  /\ \A c \in Conversations : Len(messages[c]) <= MaxMessages
  /\ \A n \in Range(notices) : n.read \in BOOLEAN
  /\ \A k \in DOMAIN sends : sends[k].pc \in {"idle", "commit", "emit", "answer", "dead", "done"}
=============================================================================
