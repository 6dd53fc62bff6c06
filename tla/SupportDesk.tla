----------------------------- MODULE SupportDesk -----------------------------
(***************************************************************************)
(* SupportChatService and AdminSupportService with the screens over them:  *)
(* the customer's chat widget, an administrator's thread and the queue.    *)
(*                                                                         *)
(* A case starts with the assistant; once the assistant has failed the     *)
(* customer may hand it to an administrator.  Every method is a read       *)
(* followed by a write that does not look again.                           *)
(***************************************************************************)
EXTENDS Channels

CONSTANTS
  Cases,        \* support sessions, taken in order
  DeskKind,     \* what each support screen is
  CaseOf,       \* the case an administrator's thread shows
  DeskCalls,    \* requests of the widget and of the thread
  Replies,      \* what the assistant may say: answer, fallback, exhausted
  MaxSaid       \* bound on the messages of a case

DeskScreens == DOMAIN DeskKind
ESCALATION_THRESHOLD == 3

ASSUME DeskAssumption ==
  /\ DeskScreens \subseteq Screens
  /\ \A s \in DeskScreens : DeskKind[s] \in {"widget", "case", "queue"}
  /\ Nothing \notin Cases
  /\ \A s \in DeskScreens : DeskKind[s] = "queue" => OwnerOf[s] \in Admins
  /\ \A s \in DeskScreens : DeskKind[s] = "case" => CaseOf[s] \in Cases
  /\ \A s, t \in DeskScreens : DeskKind[s] = "case" /\ DeskKind[t] = "widget"
                               => OwnerOf[s] # OwnerOf[t]
  /\ Replies \subseteq {"answer", "fallback", "exhausted"}
  /\ MaxSaid \in Nat

VARIABLES
  cases,        \* support_chat_sessions with their messages
  deskCalls,    \* progress of each request
  stored,       \* sessionStorage: the case a tab comes back to
  seen          \* localStorage: the last message looked at, by browser and case

deskVars == <<cases, deskCalls, stored, seen>>

NoCase == [status |-> "NONE", userId |-> Nothing, assigned |-> Nothing, messages |-> <<>>,
           closedAt |-> 0]
IdleCall == [pc |-> "idle", op |-> Nothing, from |-> Nothing, panel |-> FALSE, id |-> Nothing,
             body |-> Nothing, read |-> Nothing, earlier |-> <<>>, reply |-> Nothing,
             escalated |-> FALSE]

\* `past` is how the cases may stand at the start.
DeskInit(on, calls, past) ==
  /\ cases \in past
  /\ deskCalls = [k \in calls |-> IdleCall]
  /\ stored \in [{s \in DeskScreens \cap on : DeskKind[s] = "widget"} -> {Nothing} \cup
                   {c \in Cases : cases[c].status # "NONE"}]
  /\ \A s \in DOMAIN stored : stored[s] # Nothing => cases[stored[s]].userId = OwnerOf[s]
  /\ seen = [s \in DeskScreens \cap on |-> [c \in Cases |-> Nothing]]

-----------------------------------------------------------------------------
(***************************************************************************)
(* When the assistant has failed                                           *)
(***************************************************************************)
\* What one role has said, in order.
BodiesOf(messages, role) ==
  LET said == {i \in DOMAIN messages : messages[i].role = role}
  IN  [n \in 1 .. Cardinality(said) |->
         messages[CHOOSE i \in said : Cardinality({j \in said : j <= i}) = n].body]
LastOf(seq, n) == SubSeq(seq, IF Len(seq) > n THEN Len(seq) - n + 1 ELSE 1, Len(seq))

isExplicitEscalationRequest(body) == body = "wants"

\* Mutant: one miss is enough.
isEscalated_AnyNumber(bodies) == bodies # <<>> /\ \A i \in DOMAIN bodies : bodies[i] = "fallback"

isEscalated(bodies) ==
  /\ Len(bodies) = ESCALATION_THRESHOLD
  /\ \A i \in DOMAIN bodies : bodies[i] = "fallback"

isSessionEscalated(messages) ==
  LET said == BodiesOf(messages, "ASSISTANT")
      asked == BodiesOf(messages, "USER")
  IN  \/ said # <<>> /\ Last(said) = "exhausted"
      \/ isEscalated(LastOf(said, ESCALATION_THRESHOLD))
      \/ asked # <<>> /\ isExplicitEscalationRequest(Last(asked))

-----------------------------------------------------------------------------
(***************************************************************************)
(* Screens                                                                 *)
(***************************************************************************)
EmptyWidget == [id |-> Nothing, status |-> "AI_ONLY", entries |-> <<>>, escalated |-> FALSE,
                open |-> FALSE, mode |-> "AI", unread |-> FALSE]

Entry(c, i) == [role |-> cases[c].messages[i].role, body |-> cases[c].messages[i].body,
                id |-> <<c, i>>]
History(c) == [i \in DOMAIN cases[c].messages |-> Entry(c, i)]

\* useSupportSessionRoom in the widget: a room only once an administrator is in.
RoomOf(s, w) == IF w.status # "AI_ONLY" /\ OwnerOf[s] # Nothing THEN w.id ELSE Nothing
Resocketed(s, r) ==
  IF RoomOf(s, r.shown) = RoomOf(s, screen[s].shown) THEN r
  ELSE [Dropped(r) EXCEPT !.link = IF RoomOf(s, r.shown) = Nothing THEN "off" ELSE "down"]

\* The widget's effects: the case is stored, and what is looked at is seen.
InView(w) == w.open /\ w.mode = "AI" /\ w.id # Nothing /\ w.entries # <<>>
             /\ Last(w.entries).role = "ADMIN"
PutWidget(s, r) ==
  /\ Put(s, Resocketed(s, r))
  /\ stored' = IF r.shown.id # Nothing /\ OwnerOf[s] # Nothing
               THEN [stored EXCEPT ![s] = r.shown.id] ELSE stored
  /\ seen' = IF InView(r.shown)
             THEN [seen EXCEPT ![s][r.shown.id] = Last(r.shown.entries).id] ELSE seen

\* Mutant: a reply that lands on another tab of the widget is not counted.
onAdminMessage_OpenIsSeen(r, message) ==
  [r EXCEPT !.shown = [r.shown EXCEPT !.entries = Append(@, message),
                                      !.unread = r.shown.unread \/ ~r.shown.open]]

\* onAdminMessage: appended, and unread unless it is being looked at.
onAdminMessage(r, message) ==
  LET w == r.shown
  IN  [r EXCEPT !.shown = [w EXCEPT !.entries = Append(@, message),
                                    !.unread = w.unread \/ ~(w.open /\ w.mode = "AI")]]

\* The panel goes away: what it knew of a handover goes with it.
PanelGone(s) == [k \in DOMAIN deskCalls |-> [deskCalls[k] EXCEPT !.panel = @ /\ deskCalls[k].from # s]]

\* Loading a page with the widget on it: the stored case is read back.
MountWidget(s) ==
  /\ DeskKind[s] = "widget" /\ screen[s].link = "closed"
  /\ \A k \in DOMAIN deskCalls : deskCalls[k].from = s => deskCalls[k].pc = "done"
  /\ Put(s, [Closed EXCEPT !.link = "off", !.shown = EmptyWidget,
               !.reads = IF stored[s] = Nothing THEN <<>> ELSE <<Request(stored[s])>>])
  /\ UNCHANGED <<losses, deskVars>>

\* getHistory, and what the widget does with it.
ServeHistory(s) ==
  /\ DeskKind[s] = "widget" /\ screen[s].reads # <<>> /\ ~screen[s].reads[1].served
  /\ LET c == screen[s].reads[1].what
     IN  Put(s, Served(screen[s], 1, [status |-> cases[c].status, messages |-> History(c)]))
  /\ UNCHANGED <<losses, deskVars>>

ShowHistory(s) ==
  /\ DeskKind[s] = "widget" /\ screen[s].reads # <<>> /\ screen[s].reads[1].served
  /\ LET r == screen[s]
         c == r.reads[1].what
         got == r.reads[1].value
         late == got.messages # <<>> /\ Last(got.messages).role = "ADMIN"
                 /\ seen[s][c] # Last(got.messages).id
     IN  PutWidget(s, [r EXCEPT !.reads = <<>>,
                                !.shown = [r.shown EXCEPT !.id = c, !.status = got.status,
                                                          !.entries = got.messages,
                                                          !.unread = r.shown.unread \/ late]])
  /\ UNCHANGED <<losses, cases, deskCalls>>

\* Not answered: the tab forgets the case.
LoseHistory(s) ==
  /\ DeskKind[s] = "widget" /\ LoseRead(s, LAMBDA what : TRUE)
  /\ stored' = [stored EXCEPT ![s] = Nothing]
  /\ UNCHANGED <<cases, deskCalls, seen>>

\* handleOpen, the close button and handleSwitchTo.
Toggle(s) ==
  /\ DeskKind[s] = "widget" /\ screen[s].link # "closed"
  /\ LET w == screen[s].shown
     IN  \/ /\ ~w.open
            /\ PutWidget(s, [screen[s] EXCEPT !.shown = [w EXCEPT !.open = TRUE, !.unread = FALSE,
                               !.mode = IF w.unread THEN "AI" ELSE @]])
            /\ UNCHANGED deskCalls
         \/ /\ w.open
            /\ PutWidget(s, [screen[s] EXCEPT !.shown = [w EXCEPT !.open = FALSE,
                                                                 !.escalated = FALSE]])
            /\ deskCalls' = PanelGone(s)
         \/ /\ w.open /\ w.mode = "AI"
            /\ PutWidget(s, [screen[s] EXCEPT !.shown = [w EXCEPT !.mode = "CHAT",
                                                                 !.escalated = FALSE]])
            /\ deskCalls' = PanelGone(s)
         \/ /\ w.open /\ w.mode = "CHAT"
            /\ PutWidget(s, [screen[s] EXCEPT !.shown = [w EXCEPT !.mode = "AI",
                                                                 !.unread = FALSE]])
            /\ UNCHANGED deskCalls
  /\ UNCHANGED <<losses, cases>>

\* handleSend: the Enter key sends whatever is under way.  What is sent is shown
\* at once; a guest sends along what the assistant has said so far.
handleSend(s, k, body) ==
  LET w == screen[s].shown
  IN  /\ DeskKind[s] = "widget" /\ screen[s].link # "closed"
      /\ w.open /\ w.mode = "AI" /\ deskCalls[k].pc = "idle"
      /\ deskCalls' = [deskCalls EXCEPT ![k] =
           [IdleCall EXCEPT !.pc = "load", !.op = IF w.status = "AI_ONLY" THEN "ask" ELSE "tell",
              !.from = s, !.panel = TRUE, !.id = w.id, !.body = body,
              !.earlier = LastOf(BodiesOf(w.entries, "ASSISTANT"), ESCALATION_THRESHOLD - 1)]]
      /\ PutWidget(s, [screen[s] EXCEPT !.shown.entries =
                         Append(@, [role |-> "USER", body |-> body, id |-> <<"temp", k>>])])
      /\ UNCHANGED <<losses, cases>>

\* The "talk to an administrator" button.
pressEscalate(s, k) ==
  LET w == screen[s].shown
  IN  /\ DeskKind[s] = "widget" /\ screen[s].link # "closed" /\ OwnerOf[s] # Nothing
      /\ w.open /\ w.mode = "AI" /\ w.escalated /\ w.status = "AI_ONLY" /\ w.id # Nothing
      /\ deskCalls[k].pc = "idle"
      /\ \A j \in DOMAIN deskCalls : deskCalls[j].from = s /\ deskCalls[j].op = "escalate"
                                => deskCalls[j].pc = "done"
      /\ deskCalls' = [deskCalls EXCEPT ![k] =
           [IdleCall EXCEPT !.pc = "load", !.op = "escalate", !.from = s, !.id = w.id]]
      /\ UNCHANGED <<channelVars, cases, stored, seen>>

\* The thread's buttons: claim while nobody has it, resolve while it is open, reply.
pressThread(s, k, op) ==
  LET data == screen[s].shown
  IN  /\ DeskKind[s] = "case" /\ screen[s].link # "closed" /\ data # Nothing
      /\ deskCalls[k].pc = "idle"
      /\ \A j \in DOMAIN deskCalls : deskCalls[j].from = s /\ deskCalls[j].op = op /\ op # "reply"
                                => deskCalls[j].pc = "done"
      /\ op = "claim" => data.assigned = Nothing
      /\ op = "resolve" => data.status # "RESOLVED"
      /\ deskCalls' = [deskCalls EXCEPT ![k] =
           [IdleCall EXCEPT !.pc = "load", !.op = op, !.from = s, !.id = CaseOf[s],
                            !.body = "says"]]
      /\ UNCHANGED <<channelVars, cases, stored, seen>>

-----------------------------------------------------------------------------
(***************************************************************************)
(* The services                                                            *)
(***************************************************************************)
Say(c, role, body) == Append(cases[c].messages, [role |-> role, body |-> body])
CanSay(c) == Len(cases[c].messages) < MaxSaid
Step(k, pc) == deskCalls' = [deskCalls EXCEPT ![k].pc = pc]
Refused(k) == Step(k, "refused") /\ UNCHANGED <<cases, stored, seen, channelVars>>

\* What each method reads first.  A member's first question opens a case; a
\* guest has none; an assistant's turn is refused on a case that was handed over.
LoadCase(k) ==
  LET call == deskCalls[k]
      member == OwnerOf[call.from]
      fresh == {c \in Cases : cases[c].status = "NONE"}
  IN  /\ call.pc = "load"
      /\ UNCHANGED <<stored, seen, channelVars>>
      /\ CASE call.op = "ask" /\ member = Nothing -> Step(k, "think") /\ UNCHANGED cases
           [] call.op = "ask" /\ member # Nothing /\ call.id = Nothing ->
                /\ fresh # {}
                /\ LET c == CHOOSE d \in fresh : TRUE
                   IN  /\ cases' = [cases EXCEPT ![c] = [NoCase EXCEPT !.status = "AI_ONLY",
                                                                      !.userId = member]]
                       /\ deskCalls' = [deskCalls EXCEPT ![k].pc = "say", ![k].id = c]
           [] call.op = "ask" /\ member # Nothing /\ call.id # Nothing ->
                /\ Step(k, IF cases[call.id].status = "AI_ONLY" THEN "say" ELSE "refused")
                /\ UNCHANGED cases
           [] OTHER ->
                /\ deskCalls' = [deskCalls EXCEPT
                     ![k].read = [status |-> cases[call.id].status, assigned |-> cases[call.id].assigned],
                     ![k].pc = IF call.op # "escalate" THEN "write"
                               ELSE IF cases[call.id].status = "AI_ONLY" THEN "check" ELSE "answer"]
                /\ UNCHANGED cases

\* sendMessage: the question is kept; one that asks for a person gets the stock
\* reply, which is kept in a step of its own.
SaveQuestion(k) ==
  LET call == deskCalls[k]
  IN  /\ call.pc = "say" /\ CanSay(call.id)
      /\ cases' = [cases EXCEPT ![call.id].messages = Say(call.id, "USER", call.body)]
      /\ Step(k, IF isExplicitEscalationRequest(call.body) THEN "contact" ELSE "think")
      /\ UNCHANGED <<stored, seen, channelVars>>

\* generateReplySafely: the assistant answers, or is down and says it is at its
\* wits' end; any other failure is the caller's.
Reply(k) ==
  LET call == deskCalls[k]
      contact == call.pc = "contact" \/ (call.pc = "think" /\ OwnerOf[call.from] = Nothing
                                         /\ isExplicitEscalationRequest(call.body))
      guest == OwnerOf[call.from] = Nothing
  IN  /\ call.pc \in {"contact", "think"}
      /\ UNCHANGED <<stored, seen, channelVars>>
      /\ \E body \in IF contact THEN {"contact"} ELSE Replies :
           IF guest
           THEN /\ deskCalls' = [deskCalls EXCEPT ![k].pc = "answer",
                     ![k].reply = [role |-> "ASSISTANT", body |-> body, id |-> <<"guest", k>>],
                     ![k].escalated = contact \/ body = "exhausted"
                                      \/ isEscalated(Append(call.earlier, body))]
                /\ UNCHANGED cases
           ELSE /\ CanSay(call.id)
                /\ cases' = [cases EXCEPT ![call.id].messages = Say(call.id, "ASSISTANT", body)]
                /\ deskCalls' = [deskCalls EXCEPT
                     ![k].pc = IF contact THEN "answer" ELSE "verdict",
                     ![k].escalated = contact,
                     ![k].reply = [role |-> "ASSISTANT", body |-> body,
                                   id |-> <<call.id, Len(cases[call.id].messages) + 1>>]]

ReplyFails(k) == losses < MaxLosses /\ deskCalls[k].pc = "think" /\ Step(k, "refused")
                 /\ losses' = losses + 1 /\ UNCHANGED <<cases, stored, seen, screen>>

\* The heuristic, after the reply for the answer and before the write for a handover.
Verdict(k) ==
  LET call == deskCalls[k]
      failed == isSessionEscalated(cases[call.id].messages)
  IN  /\ \/ call.pc = "verdict"
            /\ deskCalls' = [deskCalls EXCEPT ![k].pc = "answer", ![k].escalated = failed]
         \/ call.pc = "check" /\ Step(k, IF failed THEN "write" ELSE "refused")
      /\ UNCHANGED <<cases, stored, seen, channelVars>>

\* escalate, sendUserMessageToAdmin, claim, reply and resolve: the write.
Written(call, row) ==
  CASE call.op = "escalate" -> [row EXCEPT !.status = "ESCALATED"]
    [] call.op = "tell" -> [row EXCEPT !.status = IF call.read.status = "RESOLVED"
                                                  THEN "ESCALATED" ELSE @]
    [] call.op = "claim" -> [row EXCEPT !.assigned = OwnerOf[call.from]]
    [] call.op = "reply" -> [row EXCEPT !.status = "ESCALATED",
                               !.assigned = IF call.read.assigned = Nothing
                                            THEN OwnerOf[call.from] ELSE call.read.assigned]
    [] call.op = "resolve" -> [row EXCEPT !.status = "RESOLVED",
                                          !.closedAt = Len(row.messages)]

Speaks(op) == op \in {"tell", "reply"}
RoleOf(op) == IF op = "tell" THEN "USER" ELSE "ADMIN"

WriteCase(k) ==
  LET call == deskCalls[k]
      new == Written(call, cases[call.id])
  IN  /\ call.pc = "write" /\ (Speaks(call.op) => CanSay(call.id))
      /\ cases' = [cases EXCEPT ![call.id] =
           IF Speaks(call.op) THEN [new EXCEPT !.messages = Say(call.id, RoleOf(call.op), call.body)]
           ELSE new]
      /\ deskCalls' = [deskCalls EXCEPT ![k].pc = "emit", ![k].read = [status |-> new.status, assigned |-> new.assigned],
                         ![k].reply = IF Speaks(call.op)
                           THEN [role |-> RoleOf(call.op), body |-> call.body,
                                 id |-> <<call.id, Len(cases[call.id].messages) + 1>>]
                           ELSE Nothing]
      /\ UNCHANGED <<stored, seen, channelVars>>

\* emitSupportMessage to the case's room, emitSupportInboxUpdate to the queue.
EmitCase(k) ==
  LET call == deskCalls[k]
      told == IF Speaks(call.op)
              THEN emitToRoom(screen, supportRoom(call.id), "support:message", call.reply)
              ELSE screen
  IN  /\ call.pc = "emit"
      /\ screen' = emitToRoom(told, SUPPORT_ADMIN_INBOX_ROOM, "support:inbox_updated", Nothing)
      /\ Step(k, "answer")
      /\ UNCHANGED <<losses, cases, stored, seen>>

\* The process restarts.
RestartDesk ==
  deskCalls' = [k \in DOMAIN deskCalls |-> IF deskCalls[k].pc \in {"idle", "refused", "done"}
                                    THEN deskCalls[k] ELSE [deskCalls[k] EXCEPT !.pc = "refused"]]

-----------------------------------------------------------------------------
(***************************************************************************)
(* Answers and events                                                      *)
(***************************************************************************)
Queues(s) == {t \in DOMAIN seen : DeskKind[t] = "queue" /\ OwnerOf[t] = OwnerOf[s]
                                  /\ screen[t].link # "closed"}

\* What a thread shows: what was read, and what was pushed and is not in it.
bridgingMessages(r) == SelectSeq(r.live, LAMBDA m : r.shown = Nothing
                                  \/ \A i \in DOMAIN r.shown.messages : r.shown.messages[i].id # m.id)
threadMessages(r) == (IF r.shown = Nothing THEN <<>> ELSE r.shown.messages) \o bridgingMessages(r)

\* The thread's effect: its newest message is seen, and the queue is asked again.
PutThread(s, r) ==
  LET now == threadMessages(r)
      new == now # <<>> /\ seen[s][CaseOf[s]] # Last(now).id
  IN  /\ seen' = IF new THEN [t \in DOMAIN seen |->
                         IF OwnerOf[t] = OwnerOf[s] THEN [seen[t] EXCEPT ![CaseOf[s]] = Last(now).id]
                         ELSE seen[t]]
                 ELSE seen
      /\ screen' = [t \in DOMAIN screen |->
           CASE t = s -> r
             [] t \in Queues(s) /\ new -> invalidate(screen[t])
             [] OTHER -> screen[t]]

\* The mutations' callbacks.
AnswerCall(k) ==
  LET call == deskCalls[k]
      s == call.from
      r == screen[s]
      gone == r.link = "closed"
  IN  /\ call.pc \in {"answer", "refused"}
      /\ Step(k, "done")
      /\ UNCHANGED <<losses, cases>>
      /\ CASE call.pc = "refused" \/ gone \/ call.op = "tell" ->
                UNCHANGED <<screen, stored, seen>>
           [] call.pc = "answer" /\ ~gone /\ call.op = "ask" ->
                PutWidget(s, [r EXCEPT !.shown =
                  [r.shown EXCEPT !.id = call.id, !.entries = Append(@, call.reply),
                                  !.escalated = IF call.panel THEN call.escalated
                                                ELSE r.shown.escalated]])
           [] call.pc = "answer" /\ ~gone /\ call.op = "escalate" ->
                PutWidget(s, [r EXCEPT !.shown.status = call.read.status])
           [] call.pc = "answer" /\ ~gone /\ call.op \in {"claim", "reply", "resolve"} ->
                /\ screen' = [t \in DOMAIN screen |-> IF t = s \/ t \in Queues(s)
                                                THEN invalidate(screen[t]) ELSE screen[t]]
                /\ UNCHANGED <<stored, seen>>

\* An administrator opens the queue, or a case from it.
MountDesk(s) ==
  /\ DeskKind[s] # "widget" /\ screen[s].link = "closed"
  /\ \A k \in DOMAIN deskCalls : deskCalls[k].from = s => deskCalls[k].pc = "done"
  /\ DeskKind[s] = "case" => cases[CaseOf[s]].status \in {"ESCALATED", "RESOLVED"}
  /\ Put(s, [Closed EXCEPT !.link = "down", !.reads = <<Request("query")>>])
  /\ UNCHANGED <<losses, deskVars>>

\* listSessions (the ones that wait) and getSession.
listSessions == [c \in {d \in Cases : cases[d].status = "ESCALATED"} |-> cases[c].assigned]
getSession(c) == [status |-> cases[c].status, assigned |-> cases[c].assigned,
                  messages |-> History(c)]

ServeDesk(s) ==
  /\ DeskKind[s] # "widget" /\ screen[s].reads # <<>> /\ ~screen[s].reads[1].served
  /\ Put(s, Served(screen[s], 1, IF DeskKind[s] = "queue" THEN listSessions
                                 ELSE getSession(CaseOf[s])))
  /\ UNCHANGED <<losses, deskVars>>

ShowDesk(s) ==
  /\ DeskKind[s] # "widget" /\ screen[s].reads # <<>> /\ screen[s].reads[1].served
  /\ LET r == Arrived(screen[s], 1, screen[s].reads[1].value)
     IN  IF DeskKind[s] = "case" THEN PutThread(s, r) ELSE Put(s, r) /\ UNCHANGED seen
  /\ UNCHANGED <<losses, cases, deskCalls, stored>>

\* Events: the widget takes an administrator's words and no others (its own are
\* on screen already); the thread takes all; the queue asks again.
HearDesk(s) ==
  LET event == Head(screen[s].inbox)
      r == [screen[s] EXCEPT !.inbox = Tail(@)]
      room == IF DeskKind[s] = "case" THEN CaseOf[s] ELSE RoomOf(s, r.shown)
  IN  /\ screen[s].inbox # <<>>
      /\ UNCHANGED <<losses, cases, deskCalls>>
      /\ CASE DeskKind[s] = "queue" ->
                /\ Put(s, IF event.name \in useSupportInboxChannel THEN invalidate(r) ELSE r)
                /\ UNCHANGED <<stored, seen>>
           [] DeskKind[s] # "queue" /\ event.name = "connection:ready" ->
                Put(s, JoinWhenReady(r, supportRoom(room))) /\ UNCHANGED <<stored, seen>>
           [] DeskKind[s] = "case" /\ event.name = "support:message" ->
                PutThread(s, [r EXCEPT !.live = Append(@, event.payload)]) /\ UNCHANGED stored
           [] DeskKind[s] = "widget" /\ event.name = "support:message"
                /\ event.payload.role = "ADMIN" -> PutWidget(s, onAdminMessage(r, event.payload))
           [] OTHER -> Put(s, r) /\ UNCHANGED <<stored, seen>>

\* joinSupport: the owner of the case, or any administrator.
JoinCase(s) ==
  /\ \E c \in Cases :
       /\ screen[s].joining = {supportRoom(c)}
       /\ JoinRoom(s, OwnerOf[s] \in Admins \/ cases[c].userId = OwnerOf[s])
  /\ UNCHANGED deskVars

\* The page is left; answers under way find nobody.
LeaveDesk(s) ==
  /\ Unmount(s, Closed)
  /\ deskCalls' = PanelGone(s)
  /\ UNCHANGED <<cases, stored, seen>>

\* At rest, the queue is the cases that wait.
QueueIsCurrent(s) ==
  (/\ DeskKind[s] = "queue" /\ Resting(s) /\ ~screen[s].behind
   /\ \A k \in DOMAIN deskCalls : deskCalls[k].pc # "emit")
  => screen[s].shown = listSessions

DeskTypeOK ==
  /\ \A c \in Cases : /\ cases[c].status \in {"NONE", "AI_ONLY", "ESCALATED", "RESOLVED"}
                       /\ cases[c].assigned \in Admins \cup {Nothing}
                       /\ Len(cases[c].messages) <= MaxSaid
  /\ \A s \in DOMAIN stored : stored[s] \in Cases \cup {Nothing}
  /\ \A k \in DOMAIN deskCalls : deskCalls[k].pc \in {"idle", "load", "say", "contact", "think", "verdict",
                             "check", "write", "emit", "answer", "refused", "done"}
=============================================================================
