------------------------------ MODULE Channels ------------------------------
(***************************************************************************)
(* UserGateway, RealtimeService and the hooks that follow them: a screen   *)
(* opens a socket of its own, is put in rooms, hears what is emitted into  *)
(* them, and answers by asking the API again.                              *)
(*                                                                         *)
(* A socket delivers in order and forgets everything when it drops.  HTTP  *)
(* answers arrive in any order: an older answer may replace a newer one.   *)
(***************************************************************************)
EXTENDS Integers, Sequences, FiniteSets, SequencesExt

CONSTANTS
  Nothing,
  Screens,      \* components that may be mounted, each with a socket of its own
  OwnerOf,      \* who is signed in on each
  Admins,       \* accounts with role ADMIN
  Barred,       \* accounts whose token no longer opens a socket
  MaxReads,     \* bound on the requests a screen has under way
  MaxLosses     \* bound on dropped sockets, pages left, restarts and failed requests

ASSUME ChannelsAssumption ==
  /\ MaxReads \in Nat \ {0} /\ MaxLosses \in Nat
  /\ Nothing \notin Nat

VARIABLES
  screen,       \* what each screen of this behaviour holds
  losses        \* failures so far

channelVars == <<screen, losses>>

\* A request: what it is for, whether the server has read for it, what it read,
\* and whether something newer has come in since.
Request(what) == [what |-> what, served |-> FALSE, value |-> Nothing, overtaken |-> FALSE]

\* `behind` (history) says that what is shown was overtaken when it arrived;
\* `live` is what was pushed, `busy` a mutation under way, `failed` an error page.
Closed == [link |-> "closed", rooms |-> {}, joining |-> {}, inbox |-> <<>>, reads |-> <<>>,
           shown |-> Nothing, live |-> <<>>, busy |-> FALSE, failed |-> FALSE, behind |-> FALSE]

ChannelsInit(on) == screen = [s \in on |-> Closed] /\ losses \in 0..MaxLosses

-----------------------------------------------------------------------------
(***************************************************************************)
(* Rooms                                                                   *)
(***************************************************************************)
userRoom(user) == <<"user", user>>
conversationRoom(c) == <<"conversation", c>>
supportRoom(x) == <<"support", x>>
SUPPORT_ADMIN_INBOX_ROOM == <<"support", "admin-inbox">>

\* The rooms a socket is put in before it is told it is ready.
RoomsFor(user) == {userRoom(user)} \cup IF user \in Admins THEN {SUPPORT_ADMIN_INBOX_ROOM} ELSE {}

\* Whoever is in one of the rooms hears the event, over the screens as they stand in
\* `all`.  A screen is in one person's room only: what is emitted to two reaches it once.
emitToRooms(all, rooms, name, payload) ==
  [s \in DOMAIN all |-> IF all[s].rooms \cap rooms # {}
                        THEN [all[s] EXCEPT !.inbox = Append(@, [name |-> name, payload |-> payload])]
                        ELSE all[s]]
emitToRoom(all, room, name, payload) == emitToRooms(all, {room}, name, payload)

Put(s, new) == screen' = [screen EXCEPT ![s] = new]

\* handleConnection: identify, join, and say so; or refuse and hang up.
handleConnection(s) ==
  /\ screen[s].link = "down"
  /\ Put(s, IF OwnerOf[s] \in Barred
            THEN [screen[s] EXCEPT !.link = "rejected"]
            ELSE [screen[s] EXCEPT !.link = "up", !.rooms = RoomsFor(OwnerOf[s]),
                    !.inbox = Append(@, [name |-> "connection:ready", payload |-> Nothing])])
  /\ UNCHANGED losses

\* joinConversation and joinSupport, asked for by the client once it is ready.
JoinRoom(s, allowed) ==
  \E room \in screen[s].joining :
    /\ Put(s, [screen[s] EXCEPT !.joining = @ \ {room},
                                !.rooms = IF allowed THEN @ \cup {room} ELSE @])
    /\ UNCHANGED losses

\* The connection is lost, with everything under way on it; or cannot be made.
Dropped(r) == [r EXCEPT !.link = "down", !.rooms = {}, !.joining = {}, !.inbox = <<>>]

LoseSocket(s) ==
  /\ losses < MaxLosses
  /\ losses' = losses + 1
  /\ \/ screen[s].link = "up" /\ Put(s, Dropped(screen[s]))
     \/ /\ screen[s].link = "down"
        /\ Put(s, [screen[s] EXCEPT
             !.inbox = Append(@, [name |-> "connect_error", payload |-> Nothing])])

\* The process restarts: every socket is gone.
AllDropped ==
  [s \in DOMAIN screen |-> IF screen[s].link = "up" THEN Dropped(screen[s]) ELSE screen[s]]

-----------------------------------------------------------------------------
(***************************************************************************)
(* Asking again                                                            *)
(***************************************************************************)
CanAsk(r) == Len(r.reads) < MaxReads

\* A hand-written refresh: every event starts a request of its own.
refresh(r, what) == [r EXCEPT !.reads = Append(@, Request(what))]

\* invalidateQueries: with data on screen a fetch under way is dropped for a
\* new one; before the first answer the fetch under way is kept.
invalidate(r) ==
  IF r.reads = <<>> \/ r.shown # Nothing
  THEN [r EXCEPT !.reads = <<Request("query")>>]
  ELSE [r EXCEPT !.reads[1].overtaken = @ \/ r.reads[1].served]

\* Request i of a screen after the server has read `value` for it.
Served(r, i, value) == [r EXCEPT !.reads[i].served = TRUE, !.reads[i].value = value]

\* Request i is over; every older one still under way is overtaken.
Removed(reads, i) == [j \in 1 .. (Len(reads) - 1) |-> reads[IF j < i THEN j ELSE j + 1]]
Without(r, i) == Removed([j \in DOMAIN r.reads |-> [r.reads[j] EXCEPT !.overtaken = @ \/ j < i]], i)

\* Request i is answered.
Arrived(r, i, shown) ==
  [r EXCEPT !.shown = shown, !.failed = FALSE,
            !.behind = r.reads[i].overtaken,
            !.reads = Without(r, i)]

\* A request fails; the screen keeps what it had, behind an error or quietly.
LoseRead(s, Quiet(_)) ==
  /\ losses < MaxLosses
  /\ losses' = losses + 1
  /\ \E i \in DOMAIN screen[s].reads :
       Put(s, [screen[s] EXCEPT !.reads = Without(screen[s], i), !.behind = TRUE,
                                   !.failed = @ \/ ~Quiet(screen[s].reads[i].what)])

-----------------------------------------------------------------------------
(***************************************************************************)
(* The hooks: what a screen does with an event, given its own reaction     *)
(***************************************************************************)

\* Mutant: the personal channel is not read again when it comes back.
useUserChannel_EventsOnly == {"notification:created", "order:status_changed"}

\* useUserChannel and useSupportInboxChannel: the events that ask again.
useUserChannel == {"connection:ready", "connect_error", "notification:created",
                   "order:status_changed"}
useSupportInboxChannel == {"connection:ready", "connect_error", "support:inbox_updated"}

\* useConversationRoom and useSupportSessionRoom: ready means join; only what
\* the room then says counts.
JoinWhenReady(r, room) == [r EXCEPT !.joining = @ \cup {room}]

\* Unmounting leaves the rooms and the socket; `left` is what goes on without it.
Unmount(s, left) ==
  /\ screen[s].link # "closed"
  /\ losses < MaxLosses
  /\ losses' = losses + 1
  /\ Put(s, left)

\* Nothing under way on a connected screen.
Resting(s) ==
  /\ screen[s].link = "up" /\ screen[s].joining = {} /\ screen[s].inbox = <<>>
  /\ DOMAIN screen[s].reads = {} /\ ~screen[s].busy

-----------------------------------------------------------------------------
(* The query cache of a browser tab, as the pages use it: answers by key,  *)
(* kept when a page is left, marked when something is known to have        *)
(* changed, and fetched again when they are looked at.                     *)

\* `data` by key, the keys that are marked, the keys whose last answer was
\* overtaken or lost (history), and the group a list is narrowed to.  A key has
\* one fetch at a time: `reads` is by key.
EmptyCache(keys) == [data |-> [key \in keys |-> Nothing], stale |-> {}, behind |-> {},
                     group |-> "all"]

Asked(r, keys) == [r EXCEPT !.reads = [key \in DOMAIN @ \cup keys |->
                                         IF key \in keys THEN Request(key) ELSE @[key]]]
Unasked(reads, keys) == [key \in DOMAIN reads \ keys |-> reads[key]]

\* Queries come on screen: cached data is enough while it is neither marked nor
\* older than staleTime; a fetch under way is joined.
LookedAt(r, keys, old) ==
  Asked(r, {key \in keys \ DOMAIN r.reads :
              r.shown.data[key] = Nothing \/ key \in r.shown.stale \/ old})

\* invalidateQueries: what is on screen is fetched again, a fetch under way being
\* dropped for the new one.  The first fetch, and one that nobody looks at, is
\* kept although it may have been served before.
Kept(r, keys, active) ==
  {key \in keys \cap DOMAIN r.reads : key \notin active \/ r.shown.data[key] = Nothing}
Invalidated(r, keys, active) ==
  LET kept == Kept(r, keys, active)
  IN  Asked([r EXCEPT !.shown.stale = @ \cup (keys \ active),
                      !.reads = [key \in DOMAIN r.reads |->
                        [r.reads[key] EXCEPT !.overtaken = @ \/ (key \in kept /\ r.reads[key].served)]]],
            (keys \cap active) \ kept)

\* The request for a key is answered.
CacheAnswered(r, key) ==
  LET q == r.reads[key]
  IN  [r EXCEPT !.reads = Unasked(@, {key}), !.shown.data[key] = q.value,
                !.shown.stale = @ \ {key},
                !.shown.behind = IF q.overtaken THEN @ \cup {key} ELSE @ \ {key}]

\* It fails, and is not retried: the data stays, marked.
CacheFailed(r, key) ==
  [r EXCEPT !.reads = Unasked(@, {key}),
            !.shown.behind = @ \cup {key}, !.shown.stale = @ \cup {key}]
=============================================================================
