------------------------------- MODULE Hearts -------------------------------
(***************************************************************************)
(* The hearts of auctions and of products, the pages that list what is     *)
(* followed and the badge that counts it: one cached list and one cached   *)
(* count per kind, changed ahead of the server when something is dropped,  *)
(* put back when that fails, and read again either way.                    *)
(*                                                                         *)
(* A toggle: idle -> send -> settle -> wait -> done; the button is         *)
(* disabled until what was asked at the end is answered.                   *)
(***************************************************************************)
EXTENDS Channels

CONSTANTS
  HeartsOn,     \* the items whose hearts a screen shows, by screen
  Hidden,       \* items that are not public any more
  Toggles       \* presses of a heart

VARIABLES
  watched,      \* the watchlist rows of the one signed in
  toggles       \* progress of each press

heartVars == <<watched, toggles>>

HeartScreens == DOMAIN HeartsOn

ASSUME HeartAssumption == HeartScreens \subseteq Screens

HeartKeys == {"list", "count"}

IdleToggle == [pc |-> "idle", item |-> Nothing, op |-> Nothing, from |-> Nothing,
               previous |-> Nothing, ok |-> TRUE, left |-> FALSE]

HeartsInit(ts, before) ==
  /\ watched = before
  /\ toggles = [k \in ts |-> IdleToggle]

\* listOwn and countOwn: only what is still public.
listOwn(s) == (watched \cap HeartsOn[s]) \ Hidden
HeartAnswer(s, key) == IF key = "list" THEN listOwn(s) ELSE Cardinality(listOwn(s))

-----------------------------------------------------------------------------
(***************************************************************************)
(* Pages                                                                   *)
(***************************************************************************)
ActiveHearts(r) == IF r.link = "closed" THEN {} ELSE HeartKeys

\* The hearts, the list of what is followed and the badge look at both queries.
MountHearts(s, old) ==
  LET kept == IF screen[s].shown = Nothing THEN [Closed EXCEPT !.shown = EmptyCache(HeartKeys)]
              ELSE screen[s]
  IN  /\ screen[s].link = "closed"
      /\ Put(s, LookedAt([kept EXCEPT !.link = "off"], HeartKeys, old))
      /\ UNCHANGED <<losses, heartVars>>

\* The cache, its fetches and a press under way go on.
LeaveHearts(s) ==
  /\ screen[s].link # "closed"
  /\ losses < MaxLosses
  /\ losses' = losses + 1
  /\ Put(s, [screen[s] EXCEPT !.link = "closed"])
  /\ toggles' = [k \in DOMAIN toggles |-> [toggles[k] EXCEPT !.left = @ \/ toggles[k].from = s]]
  /\ UNCHANGED watched

\* The presses that waited for a fetch of screen s are over with it.
Released(s, all) ==
  [k \in DOMAIN all |-> IF all[k].pc = "wait" /\ all[k].from = s
                        THEN [all[k] EXCEPT !.pc = "done"] ELSE all[k]]

ServeHearts(s) ==
  /\ \E key \in DOMAIN screen[s].reads :
       /\ ~screen[s].reads[key].served
       /\ Put(s, Served(screen[s], key, HeartAnswer(s, key)))
  /\ UNCHANGED <<losses, heartVars>>

\* An answer comes in, or fails; a press waits for both queries.
ShowHearts(s) ==
  \E key \in DOMAIN screen[s].reads :
    /\ \/ /\ screen[s].reads[key].served
          /\ Put(s, CacheAnswered(screen[s], key)) /\ UNCHANGED losses
       \/ /\ losses < MaxLosses /\ losses' = losses + 1
          /\ Put(s, CacheFailed(screen[s], key))
    /\ toggles' = IF DOMAIN screen[s].reads = {key} THEN Released(s, toggles) ELSE toggles
    /\ UNCHANGED watched

-----------------------------------------------------------------------------
(***************************************************************************)
(* useAuctionWatch and useProductWatch; WatchlistService.watch, unwatch    *)
(***************************************************************************)
isWatching(s, item) ==
  screen[s].shown.data["list"] # Nothing /\ item \in screen[s].shown.data["list"]

\* onMutate of an unwatch: stop what is being read, and take the item out of
\* the list and out of the count.
onMutate(r, item) ==
  [r EXCEPT
     !.reads = Unasked(@, HeartKeys),
     !.shown.data = [key \in HeartKeys |->
        CASE key = "list" -> @["list"] \ {item}
          [] @[key] = Nothing -> Nothing
          [] OTHER -> Max({0, @[key] - 1})]]

toggle(s, k, item) ==
  /\ screen[s].link # "closed" /\ toggles[k].pc = "idle"
  /\ \A j \in DOMAIN toggles : toggles[j].item = item => toggles[j].pc = "done" \/ toggles[j].left
  /\ LET drop == isWatching(s, item)
         new == [pc |-> "send", item |-> item, op |-> IF drop THEN "unwatch" ELSE "watch",
                 from |-> s, previous |-> IF drop THEN screen[s].shown.data ELSE Nothing,
                 ok |-> TRUE, left |-> FALSE]
         all == [toggles EXCEPT ![k] = new]
     IN  /\ toggles' = IF drop THEN Released(s, all) ELSE all
         /\ Put(s, IF drop THEN onMutate(screen[s], item) ELSE screen[s])
  /\ UNCHANGED <<losses, watched>>

\* watch: an upsert, of something public; unwatch: a delete of what may be gone.
ServeToggle(k) ==
  LET t == toggles[k]
      refused == t.op = "watch" /\ t.item \in Hidden
  IN  /\ t.pc = "send"
      /\ watched' = IF refused THEN watched
                    ELSE IF t.op = "watch" THEN watched \cup {t.item} ELSE watched \ {t.item}
      /\ toggles' = [toggles EXCEPT ![k].pc = "settle", ![k].ok = ~refused]
      /\ UNCHANGED channelVars

\* The request, or its answer, is lost.
LoseToggle(k) ==
  /\ toggles[k].pc \in {"send", "settle"} /\ toggles[k].ok
  /\ losses < MaxLosses
  /\ losses' = losses + 1
  /\ toggles' = [toggles EXCEPT ![k].pc = "settle", ![k].ok = FALSE]
  /\ UNCHANGED <<screen, watched>>

\* onError puts back what was there before this press.
onError(r, t) ==
  IF t.ok \/ t.previous = Nothing THEN r
  ELSE [r EXCEPT !.shown.data = [key \in HeartKeys |->
          IF t.previous[key] = Nothing THEN @[key] ELSE t.previous[key]]]

\* Mutant: only a failure is read again.
onHeartSettled_AfterErrors(r, t) ==
  IF t.ok THEN r ELSE Invalidated(r, HeartKeys, ActiveHearts(r))

\* onSettled: whichever way it went, both queries are read again.
onHeartSettled(r, t) == Invalidated(r, HeartKeys, ActiveHearts(r))

SettleToggle(k) ==
  LET t == toggles[k]
      s == t.from
      r == onHeartSettled(onError(screen[s], t), t)
      kept == \A key \in HeartKeys : screen[s].shown.data[key] = Nothing
  IN  /\ t.pc = "settle"
      /\ Put(s, r)
      /\ toggles' = [IF kept THEN toggles ELSE Released(s, toggles) EXCEPT
                       ![k].pc = IF DOMAIN r.reads = {} THEN "done" ELSE "wait"]
      /\ UNCHANGED <<losses, watched>>

\* A restart ends the requests under way.
RestartHearts ==
  toggles' = [k \in DOMAIN toggles |->
    IF toggles[k].pc = "send" THEN [toggles[k] EXCEPT !.pc = "settle", !.ok = FALSE]
    ELSE toggles[k]]

-----------------------------------------------------------------------------
\* Once the presses are over and nothing is being read, hearts and badge are
\* those of the server's rows, whatever was dropped ahead, put back or lost.
HeartsAreTrue(s) ==
  (/\ screen[s].link # "closed" /\ DOMAIN screen[s].reads = {}
   /\ \A k \in DOMAIN toggles : \/ toggles[k].pc = "idle"
                                \/ toggles[k].pc = "done" /\ toggles[k].from = s) =>
    \A key \in HeartKeys \ screen[s].shown.behind :
      screen[s].shown.data[key] = HeartAnswer(s, key)
=============================================================================
