---------------------------- MODULE PicturePages ----------------------------
(***************************************************************************)
(* The seller's pages that handle pictures: a draft's page, a listing's    *)
(* edit page, the form for a new listing and the profile form, open in     *)
(* several tabs, a client of the API beside them, and what they and        *)
(* Pictures do together.  A tab sends calls, and its answers may be        *)
(* refused or lost on the way.                                             *)
(***************************************************************************)
EXTENDS Pictures

CONSTANTS
  Tabs,
  Scenes,      \* the opening situations of a run: which page each tab shows
  MaxChosen,   \* bound: files chosen in one go
  MaxListed    \* bound: addresses an API client lists in one request

VARIABLES
  tabs,
  presses   \* how often each tab's user will still press something

vars == <<albums, files, minted, avatar, calls, lost, raced, faults, tabs, presses>>

Pages == {"closed", "draft", "listing", "form", "profile", "client", "left"}

\* shown: the pictures on screen (rows, or the urls collected by the form);
\* picking and saving: the busy flags of the picker and of the page around it.
Tab(page, a, shown) ==
  [page |-> page, album |-> a, shown |-> shown, picking |-> FALSE, saving |-> FALSE,
   urls |-> <<>>, avatar |-> Null, dirty |-> FALSE]

\* A scene's albums are whole, and their files, stored under keys of their own,
\* are numbered; nothing is under way on its tabs.
SceneRows(scene) == UNION {scene.albums[a].rows : a \in Albums}
ASSUME ScenesAssumption ==
  /\ Null \notin Tabs /\ MaxChosen \in Nat /\ MaxListed \in Nat
  /\ \A scene \in Scenes :
       /\ scene.albums \in [Albums -> Album]
       /\ IsFiniteSet(SceneRows(scene))
       /\ \A r \in SceneRows(scene) :
            /\ r.key \in UploadKey /\ r.url = r.key
            /\ r.key[2] \in 1 .. Cardinality({s.key : s \in SceneRows(scene)})
       /\ \A a, b \in Albums :
            \A r \in scene.albums[a].rows, s \in scene.albums[b].rows :
              r.key = s.key => a = b /\ r = s
       /\ \A a \in Albums :
            /\ Whole(scene.albums[a])
            /\ scene.albums[a].status = "ABSENT" => scene.albums[a].rows = {}
            /\ scene.albums[a].lists = 0 /\ scene.albums[a].listed = 0
            /\ scene.albums[a].dropped = {}
       /\ DOMAIN scene.tabs = Tabs
       /\ \A t \in Tabs : \E page \in Pages, a \in Albums \cup {Null} :
            /\ scene.tabs[t] = Tab(page, a, scene.tabs[t].shown)
            /\ page \in {"draft", "listing"} => a \in Albums

\* The least idle number, so that calls are interchangeable.
Free(c) == calls[c] = NoCall /\ \A d \in Calls : d < c => calls[d] # NoCall

Call(t, op, pc, key, left) ==
  [NoCall EXCEPT !.op = op, !.pc = pc, !.tab = t, !.album = tabs[t].album,
                 !.key = key, !.left = left]

\* A fresh request; its first step is named by pc.
Send(t, op, pc, key, left) ==
  \E c \in Calls : Free(c) /\ calls' = [calls EXCEPT ![c] = Call(t, op, pc, key, left)]

Server == <<albums, files, minted, avatar, lost, raced, faults>>

-----------------------------------------------------------------------------
(* The picture managers of a draft and of a listing.                       *)

Manages(t) == tabs[t].page \in {"draft", "listing"}

\* handleFiles: only as many as there is room for on this screen, one at a time.
ChooseFiles(t) ==
  LET room == MaxImages - Cardinality(tabs[t].shown) IN
  /\ Manages(t) /\ ~tabs[t].picking /\ room > 0
  /\ \E n \in 1 .. MaxChosen :
       Send(t, "add", "check", Null, (IF n > room THEN room ELSE n) - 1)
  /\ tabs' = [tabs EXCEPT ![t].picking = TRUE]
  /\ UNCHANGED Server

RemovePicture(t) ==
  /\ Manages(t) /\ ~tabs[t].picking
  /\ \E r \in tabs[t].shown : Send(t, "remove", "find", r.key, 0)
  /\ tabs' = [tabs EXCEPT ![t].picking = TRUE]
  /\ UNCHANGED Server

\* After an answer the loop goes on in the same call or the picker is free again.
Onwards(t, c, op, pc) ==
  IF calls[c].left > 0 THEN Call(t, op, pc, Null, calls[c].left - 1) ELSE NoCall

\* The listing's page takes its copy from the answer.
ListingChanged(t, c) ==
  /\ tabs[t].page = "listing" /\ calls[c].op \in {"add", "remove"}
  /\ calls' = [calls EXCEPT ![c] = Onwards(t, c, "add", "check")]
  /\ tabs' = [tabs EXCEPT ![t].shown = calls[c].body, ![t].picking = calls[c].left > 0]

\* The draft's page reads the draft again, once for every answer.
DraftChanged(t, c) ==
  /\ tabs[t].page \in {"draft", "failed"} /\ calls[c].op \in {"add", "remove"}
  /\ \E d \in Calls :
       /\ Free(d)
       /\ calls' = [calls EXCEPT ![c] = Onwards(t, c, "add", "check"),
                                 ![d] = Call(t, "load", "read", Null, 0)]
  /\ tabs' = [tabs EXCEPT ![t].picking = calls[c].left > 0]

\* Whichever read answers last is what the page shows.
DraftLoaded(t, c) ==
  /\ tabs[t].page \in {"draft", "failed"} /\ calls[c].op = "load"
  /\ calls' = [calls EXCEPT ![c] = NoCall]
  /\ tabs' = [tabs EXCEPT ![t].page = "draft", ![t].shown = calls[c].body,
                          ![t].picking = @ /\ tabs[t].page = "draft"]

\* Publishing is offered once the page has seen a picture, whatever the picker does.
Publish(t) ==
  /\ tabs[t].page = "draft" /\ ~tabs[t].saving /\ tabs[t].shown # {}
  /\ Send(t, "publish", "gate", Null, 0)
  /\ tabs' = [tabs EXCEPT ![t].saving = TRUE]
  /\ UNCHANGED Server

SaveDetails(t) ==
  /\ tabs[t].page = "listing" /\ ~tabs[t].saving
  /\ Send(t, "details", "update", Null, 0)
  /\ tabs' = [tabs EXCEPT ![t].saving = TRUE]
  /\ UNCHANGED Server

DetailsSaved(t, c) ==
  /\ tabs[t].page = "listing" /\ calls[c].op = "details"
  /\ calls' = [calls EXCEPT ![c] = NoCall]
  /\ tabs' = [tabs EXCEPT ![t].shown = calls[c].body, ![t].saving = FALSE]

-----------------------------------------------------------------------------
(* The form for a new listing: pictures first, the listing second.         *)

PickPending(t) ==
  LET room == MaxImages - Len(tabs[t].urls) IN
  /\ tabs[t].page = "form" /\ ~tabs[t].picking /\ ~tabs[t].saving /\ room > 0
  /\ \E n \in 1 .. MaxChosen :
       Send(t, "pending", "store", Null, (IF n > room THEN room ELSE n) - 1)
  /\ tabs' = [tabs EXCEPT ![t].picking = TRUE]
  /\ UNCHANGED Server

PendingStored(t, c) ==
  /\ tabs[t].page = "form" /\ calls[c].op = "pending"
  /\ calls' = [calls EXCEPT ![c] = Onwards(t, c, "pending", "store")]
  /\ tabs' = [tabs EXCEPT ![t].urls = Append(@, calls[c].body),
                          ![t].picking = calls[c].left > 0]

\* Every upload has a url of its own, so filtering by one takes one out.
Without(urls, i) == SubSeq(urls, 1, i - 1) \o SubSeq(urls, i + 1, Len(urls))

Unpick(t) ==
  /\ tabs[t].page = "form" /\ ~tabs[t].picking /\ ~tabs[t].saving
  /\ \E i \in DOMAIN tabs[t].urls : tabs' = [tabs EXCEPT ![t].urls = Without(@, i)]
  /\ UNCHANGED <<Server, calls>>

\* Not held back by an upload in progress: what is collected so far is sent.
Submit(t) ==
  /\ tabs[t].page = "form" /\ ~tabs[t].saving /\ tabs[t].urls # <<>>
  /\ \E c \in Calls :
       /\ Free(c)
       /\ calls' = [calls EXCEPT
            ![c] = [Call(t, "create", "resolve", Null, 0) EXCEPT !.urls = tabs[t].urls]]
  /\ tabs' = [tabs EXCEPT ![t].saving = TRUE]
  /\ UNCHANGED Server

\* The form is left for the page of what was created or published.
Left(t, c) ==
  /\ calls[c].op \in {"create", "publish"}
  /\ calls' = [calls EXCEPT ![c] = NoCall]
  /\ tabs' = [tabs EXCEPT ![t] = Tab("left", Null, {})]

\* A tab opens the edit page of a listing.
OpenListing(t) ==
  /\ tabs[t].page = "closed"
  /\ \E a \in Listings :
       /\ albums[a].status # "ABSENT"
       /\ tabs' = [tabs EXCEPT ![t] = Tab("listing", a, Rows(a))]
  /\ UNCHANGED <<Server, calls>>

-----------------------------------------------------------------------------
(* The profile form: the avatar saves itself, the other fields on a button. *)

PickAvatar(t) ==
  /\ tabs[t].page = "profile" /\ ~tabs[t].picking /\ ~tabs[t].saving
  /\ \/ Send(t, "pending", "store", Null, 0)
     \/ tabs[t].avatar # Null /\ Send(t, "avatar", "patch", Null, 0)
  /\ tabs' = [tabs EXCEPT ![t].picking = TRUE]
  /\ UNCHANGED Server

\* saveAvatar: only the picture is sent.
AvatarStored(t, c) ==
  /\ tabs[t].page = "profile" /\ calls[c].op = "pending"
  /\ calls' = [calls EXCEPT ![c] = Call(t, "avatar", "patch", calls[c].body, 0)]
  /\ UNCHANGED tabs

TypeProfile(t) ==
  /\ tabs[t].page = "profile" /\ ~tabs[t].dirty
  /\ tabs' = [tabs EXCEPT ![t].dirty = TRUE]
  /\ UNCHANGED <<Server, calls>>

\* The whole form, its copy of the picture included, while the picker may be busy.
SaveProfile(t) ==
  /\ tabs[t].page = "profile" /\ tabs[t].dirty /\ ~tabs[t].saving
  /\ Send(t, "profile", "patch", tabs[t].avatar, 0)
  /\ tabs' = [tabs EXCEPT ![t].saving = TRUE]
  /\ UNCHANGED Server

ProfileSaved(t, c) ==
  /\ calls[c].op \in {"avatar", "profile"}
  /\ calls' = [calls EXCEPT ![c] = NoCall]
  /\ tabs' = [tabs EXCEPT
       ![t].avatar = calls[c].body,
       ![t].picking = @ /\ calls[c].op # "avatar",
       ![t].saving = @ /\ calls[c].op # "profile",
       ![t].dirty = @ /\ calls[c].op # "profile"]

-----------------------------------------------------------------------------
(* A client of the API, which the pages do not stand in for: they write no *)
(* imageUrls for an auction, and as many as fit for a listing.             *)

\* Some copies of one address.
Copies(n, url) == [i \in 1 .. n |-> url]

\* An address under which the store keeps nothing, as any of another host.
Elsewhere == FileKey("pending", 0)

Request(op, pc, a, urls) ==
  [NoCall EXCEPT !.op = op, !.pc = pc, !.album = a, !.urls = urls]

SendList(t) ==
  /\ tabs[t].page = "client"
  /\ \E c \in Calls, n \in 0 .. MaxListed :
       /\ Free(c)
       /\ \/ calls' = [calls EXCEPT ![c] = Request("draft", "create", Null, Copies(n, Elsewhere))]
          \/ \E a \in Drafts : \E url \in {Elsewhere} \cup {r.url : r \in Rows(a)} :
               calls' = [calls EXCEPT ![c] = Request("edit", "find", a, Copies(n, url))]
          \/ \E k \in 0 .. minted :
               /\ n > 0
               /\ calls' = [calls EXCEPT
                    ![c] = Request("post", "resolve", Null, Copies(n, FileKey("pending", k)))]
  /\ UNCHANGED <<Server, tabs>>

-----------------------------------------------------------------------------
(* Answers.                                                                *)

\* The tab has moved on: nothing is left to apply the answer to.
Ignored(t, c) ==
  /\ tabs[t].page = "left"
  /\ calls' = [calls EXCEPT ![c] = NoCall]
  /\ UNCHANGED tabs

Answered(t, c) ==
  /\ calls[c].tab = t /\ calls[c].pc = "ok"
  /\ \/ ListingChanged(t, c) \/ DraftChanged(t, c) \/ DraftLoaded(t, c)
     \/ DetailsSaved(t, c) \/ PendingStored(t, c) \/ AvatarStored(t, c)
     \/ (tabs[t].page # "left" /\ (Left(t, c) \/ ProfileSaved(t, c)))
     \/ Ignored(t, c)
  /\ UNCHANGED Server

\* An error message, the rest of the batch given up; a draft that cannot be read
\* takes the page with it.
AfterFailure(t, c) ==
  IF tabs[t].page = "left" THEN tabs[t]
  ELSE CASE calls[c].op = "load" -> [tabs[t] EXCEPT !.page = "failed"]
         [] calls[c].op \in {"add", "remove", "pending", "avatar"} ->
              [tabs[t] EXCEPT !.picking = FALSE]
         [] OTHER -> [tabs[t] EXCEPT !.saving = FALSE]

Refused(t, c) ==
  /\ calls[c].tab = t /\ calls[c].pc = "error"
  /\ tabs' = [tabs EXCEPT ![t] = AfterFailure(t, c)]
  /\ calls' = [calls EXCEPT ![c] = NoCall]
  /\ UNCHANGED Server

\* The connection drops while the server works on, or its answer is lost.
AnswerLost(t, c) ==
  /\ calls[c].tab = t /\ calls[c].pc # "error"
  /\ Fault
  /\ tabs' = [tabs EXCEPT ![t] = AfterFailure(t, c)]
  /\ calls' = [calls EXCEPT ![c] = IF Running(c) THEN [@ EXCEPT !.tab = Null, !.left = 0]
                                                 ELSE NoCall]
  /\ UNCHANGED <<albums, files, minted, avatar, lost, raced>>

-----------------------------------------------------------------------------
\* A scene: the albums and the tabs that are open on them.
Init ==
  \E scene \in Scenes :
    /\ albums = scene.albums
    /\ tabs = scene.tabs
    /\ presses = scene.presses
    /\ files = {r.key : r \in UNION {scene.albums[a].rows : a \in Albums}}
    /\ minted = Cardinality(files)
    /\ avatar = Null
    /\ calls = [c \in Calls |-> NoCall]
    /\ lost = {}
    /\ raced = {}
    /\ faults = 0

Press(t) ==
  /\ presses[t] > 0
  /\ presses' = [presses EXCEPT ![t] = @ - 1]
  /\ \/ ChooseFiles(t) \/ RemovePicture(t) \/ Publish(t) \/ SaveDetails(t)
     \/ PickPending(t) \/ Unpick(t) \/ Submit(t) \/ OpenListing(t)
     \/ PickAvatar(t) \/ TypeProfile(t) \/ SaveProfile(t) \/ SendList(t)

Next ==
  \/ \E t \in Tabs : Press(t)
  \/ /\ \/ \E c \in Calls : ServeCall(c) /\ UNCHANGED tabs
        \/ \E t \in Tabs, c \in Calls : Answered(t, c) \/ Refused(t, c) \/ AnswerLost(t, c)
        \/ (Crash \/ \E a \in Listings : SuspendListing(a)) /\ UNCHANGED tabs
     /\ UNCHANGED presses

PicturesSpec == Init /\ [][Next]_vars

-----------------------------------------------------------------------------
(* Properties.                                                             *)

UploadedRows == {r \in UNION {Rows(a) : a \in Albums} : Folder(r.key) \in {"auction", "product"}}

\* No draft or listing shows a broken picture: a row written by an upload has its
\* file in the store as long as it stands, whatever races, failures and crashes its
\* call and the removals around it meet (removeDraftImage: "a row pointing at a file
\* that is gone is a broken picture on somebody's screen").
UploadedPicturesLoad == \A r \in UploadedRows : r.url \in files

\* Nothing is left in the store by accident: a file uploaded for a draft or a listing
\* is on a row, or a running call is about to give it one or to delete it, or a fault
\* interrupted exactly that (addDraftImage: "skipping that leaves an image nothing
\* points at, which nothing will ever clean up"), or a client's list of addresses
\* replaced its row, which is the one way to leave a file behind that needs no fault
\* (updateOwnAuction deletes rows only; draft-form.tsx sends no imageUrls for that).
StoredFilesAreAccountedFor ==
  \A k \in files :
    Folder(k) \in {"auction", "product"} =>
      \/ k \in {r.key : r \in UploadedRows}
      \/ k \in UNION {InHand(c) : c \in Calls}
      \/ k \in lost
      \/ \E a \in Albums : k \in albums[a].dropped

\* Failed uploads, lost answers, repeated presses, crashes and gaps in the positions
\* never leave an album without its lead, over its limit or empty while on sale: that
\* takes a transaction that writes what it read before another one committed, which
\* READ COMMITTED lets addDraftImage, removeDraftImage, removeImage and publishDraft do.
\* A list of addresses is held to no limit, and nothing adds a picture beyond it.
AlbumsAreWholeUnlessRaced == \A a \in Albums \ raced : Whole(albums[a])
=============================================================================
