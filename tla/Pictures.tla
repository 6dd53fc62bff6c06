------------------------------ MODULE Pictures ------------------------------
(***************************************************************************)
(* The pictures the marketplace keeps: the rows of AuctionImage and        *)
(* ProductImage (an album per draft and per listing), the profile's        *)
(* avatar, and the files of the image store they point at.  The store is   *)
(* another company's service, so no transaction spans a row and its file:  *)
(* a file is stored before its row is written and deleted after its row is *)
(* gone, and a request may fail, lose a race or die between the two.       *)
(*                                                                         *)
(* A request of a page is a call that advances one statement at a time; a  *)
(* database transaction reads in one step and commits in a later one       *)
(* (READ COMMITTED), and its deleted rows stay locked and visible to the   *)
(* others until it commits.                                                *)
(***************************************************************************)
EXTENDS Naturals, Sequences, FiniteSets, FiniteSetsExt

CONSTANTS
  Calls,       \* requests in progress, 1..n
  Drafts,      \* auctions that start as drafts
  Listings,    \* products, some of them not created yet
  MaxImages,   \* MAX_AUCTION_IMAGES and MAX_PRODUCT_IMAGES (both 8 in the code)
  MaxMinted,   \* bound: files ever stored
  MaxFaults,   \* bound: failures of the store, lost answers and crashes
  Null

VARIABLES
  albums,   \* album -> its status and its rows
  files,    \* keys the image store holds
  minted,   \* files stored so far: names the next key
  avatar,   \* UserProfile.avatarUrl of the one user, Null for none
  calls,    \* the requests in progress
  lost,     \* keys whose clean-up a fault cut short
  raced,    \* albums that a transaction changed on the strength of an outdated read
  faults

pictureVars == <<albums, files, minted, avatar, calls, lost, raced, faults>>

ASSUME PicturesAssumption ==
  /\ Calls \subseteq Nat
  /\ Drafts \cap Listings = {}
  /\ MaxImages \in Nat \ {0}

Albums == Drafts \cup Listings

AlbumStatus == {"ABSENT", "DRAFT", "ACTIVE", "SCHEDULED", "SUSPENDED"}

\* A file's key is its folder and a unique name.  An invented key names no file: it is
\* made up for place i of the nth list of addresses an album's rows are written from.
FileKey(folder, n) == <<folder, n>>
InventedKey(a, n, i) == <<"invented", a, n, i>>
Folder(key) == key[1]

UploadKey == {"auction", "product"} \X Nat
PendingKey == {"pending"} \X Nat
Key == UploadKey \cup PendingKey \cup ({"invented"} \X Albums \X Nat \X Nat)

AlbumFolder(a) == IF a \in Drafts THEN "auction" ELSE "product"

\* A row of AuctionImage or ProductImage: storageKey is unique and stands for its id.
Image(key, url, position, isPrimary) ==
  [key |-> key, url |-> url, position |-> position, isPrimary |-> isPrimary]

ImageRow == [key : Key, url : Key, position : Nat, isPrimary : BOOLEAN]

\* History, nobody reads it: lists counts how often a list of addresses replaced the
\* rows, listed is the length of the last list an API client had them written from, and
\* dropped holds the keys of the rows a list replaced.
Album == [status : AlbumStatus, rows : SUBSET ImageRow,
          lists : Nat, listed : Nat, dropped : SUBSET Key]

\* An album is whole: one picture leads, the rows fit, unless a list put more there, and
\* what is on sale or about to be has a picture.
Whole(album) ==
  /\ album.rows # {} => Cardinality({r \in album.rows : r.isPrimary}) = 1
  /\ Cardinality(album.rows) <= MaxImages \/ Cardinality(album.rows) <= album.listed
  /\ album.status \in {"ACTIVE", "SCHEDULED"} => album.rows # {}

ASSUME KeysAssumption == Null \notin Key

Rows(a) == albums[a].rows
Positions(rows) == {r.position : r \in rows}

NoCall == [op |-> Null, pc |-> "idle", tab |-> Null, album |-> Null, key |-> Null,
           read |-> Null, seen |-> Null, next |-> Null, urls |-> <<>>, left |-> 0, body |-> Null]

Running(c) == calls[c].pc \notin {"idle", "ok", "error"}

Is(c, op, pc) == calls[c].op = op /\ calls[c].pc = pc

\* The answer leaves for the page that asked, if it is still connected.
Replied(c, pc, body) ==
  IF calls[c].tab = Null THEN NoCall
  ELSE [NoCall EXCEPT !.op = calls[c].op, !.pc = pc, !.tab = calls[c].tab,
                      !.album = calls[c].album, !.left = calls[c].left, !.body = body]

Answer(c, body) == calls' = [calls EXCEPT ![c] = Replied(c, "ok", body)]
Refuse(c) == calls' = [calls EXCEPT ![c] = Replied(c, "error", Null)]
Goto(c, pc) == calls' = [calls EXCEPT ![c].pc = pc]

\* A commit to a that no longer finds the album its transaction had read.
Raced(c, a) == raced' = IF albums[a] = calls[c].seen THEN raced ELSE raced \cup {a}

Fault == faults < MaxFaults /\ faults' = faults + 1

-----------------------------------------------------------------------------
(* Adding: check, store the file, then read and insert in a transaction.   *)

\* assertImagesAreEditable for a listing; the where clause for a draft.
IsEditable(a) ==
  IF a \in Drafts THEN albums[a].status = "DRAFT" ELSE albums[a].status = "ACTIVE"

HasRoom(a) == Cardinality(Rows(a)) < MaxImages

CheckAdd(c) ==
  /\ Is(c, "add", "check")
  /\ IF IsEditable(calls[c].album) /\ HasRoom(calls[c].album)
     THEN Goto(c, "upload")
     ELSE Refuse(c)
  /\ UNCHANGED <<albums, files, minted, avatar, lost, raced, faults>>

\* The store is asked; a failed upload may still have left its file behind.
Upload(c) ==
  LET key == FileKey(AlbumFolder(calls[c].album), minted + 1) IN
  /\ Is(c, "add", "upload")
  /\ minted < MaxMinted
  /\ minted' = minted + 1
  /\ \/ /\ files' = files \cup {key}
        /\ calls' = [calls EXCEPT ![c].pc = "begin", ![c].key = key]
        /\ UNCHANGED <<lost, faults>>
     \/ /\ Fault
        /\ \E stored \in {{}, {key}} :
             files' = files \cup stored /\ lost' = lost \cup stored
        /\ Refuse(c)
  /\ UNCHANGED <<albums, avatar, raced>>

\* The second look, inside the transaction.  A listing's status is not asked again.
StillOpen(a) == (a \in Drafts => albums[a].status = "DRAFT") /\ HasRoom(a)

NextPosition(rows) == IF rows = {} THEN 0 ELSE Max(Positions(rows)) + 1

BeginAdd(c) ==
  LET a == calls[c].album IN
  /\ Is(c, "add", "begin")
  /\ IF StillOpen(a)
     THEN calls' = [calls EXCEPT ![c].pc = "insert", ![c].seen = albums[a],
                                 ![c].read = [position |-> NextPosition(Rows(a)),
                                              isPrimary |-> Rows(a) = {}]]
     ELSE Goto(c, "cleanup")
  /\ UNCHANGED <<albums, files, minted, avatar, lost, raced, faults>>

\* A row another call wrote at the position read loses the unique index.
InsertRow(c) ==
  LET a == calls[c].album
      read == calls[c].read
      rows == Rows(a) \cup {Image(calls[c].key, calls[c].key, read.position, read.isPrimary)}
  IN
  /\ Is(c, "add", "insert")
  /\ IF read.position \in Positions(Rows(a))
     THEN Goto(c, "cleanup") /\ UNCHANGED <<albums, raced>>
     ELSE albums' = [albums EXCEPT ![a].rows = rows] /\ Raced(c, a) /\ Answer(c, rows)
  /\ UNCHANGED <<files, minted, avatar, lost, faults>>

Cleanup_Skipped(c) ==
  /\ Is(c, "add", "cleanup")
  /\ Refuse(c)
  /\ UNCHANGED <<albums, files, minted, avatar, lost, raced, faults>>

\* The catch block takes the file back; a failure to do so is only logged.
Cleanup(c) ==
  /\ Is(c, "add", "cleanup")
  /\ \/ files' = files \ {calls[c].key} /\ UNCHANGED <<lost, faults>>
     \/ Fault /\ lost' = lost \cup {calls[c].key} /\ UNCHANGED files
  /\ Refuse(c)
  /\ UNCHANGED <<albums, minted, avatar, raced>>

-----------------------------------------------------------------------------
(* Removing: the row first, the file second.                               *)

RowOf(a, key) == CHOOSE r \in Rows(a) : r.key = key
HasRow(a, key) == \E r \in Rows(a) : r.key = key

\* A listing keeps one picture: the count is read in the same transaction.
MayRemove(a) == IsEditable(a) /\ (a \in Listings => Cardinality(Rows(a)) > 1)

FindImage_FileFirst(c) ==
  LET a == calls[c].album IN
  /\ Is(c, "remove", "find")
  /\ IF HasRow(a, calls[c].key) /\ MayRemove(a)
     THEN /\ calls' = [calls EXCEPT ![c].pc = "delete", ![c].seen = albums[a],
                                 ![c].read = RowOf(a, calls[c].key)]
          /\ files' = files \ {calls[c].key}
     ELSE Refuse(c) /\ UNCHANGED files
  /\ UNCHANGED <<albums, minted, avatar, lost, raced, faults>>

FindImage(c) ==
  LET a == calls[c].album IN
  /\ Is(c, "remove", "find")
  /\ IF HasRow(a, calls[c].key) /\ MayRemove(a)
     THEN calls' = [calls EXCEPT ![c].pc = "delete", ![c].seen = albums[a],
                                 ![c].read = RowOf(a, calls[c].key)]
     ELSE Refuse(c)
  /\ UNCHANGED <<albums, files, minted, avatar, lost, raced, faults>>

\* Another transaction has deleted the row and not committed yet.
LockedFor(c, key) ==
  \E d \in Calls \ {c} : Is(d, "remove", "commit") /\ calls[d].key = key

\* delete, then the picture that is now first: what the promotion will update.
DeleteRow(c) ==
  LET a == calls[c].album
      others == {r \in Rows(a) : r.key # calls[c].key}
      first == CHOOSE r \in others : \A s \in others : r.position <= s.position
  IN
  /\ Is(c, "remove", "delete")
  /\ ~LockedFor(c, calls[c].key)
  /\ IF HasRow(a, calls[c].key)
     THEN calls' = [calls EXCEPT ![c].pc = "commit",
            ![c].next = IF calls[c].read.isPrimary /\ others # {} THEN first.key ELSE Null]
     ELSE Refuse(c)
  /\ UNCHANGED <<albums, files, minted, avatar, lost, raced, faults>>

AfterRemoval_NoPromotion(c) == {s \in Rows(calls[c].album) : s.key # calls[c].key}

AfterRemoval(c) ==
  {IF r.key = calls[c].next THEN [r EXCEPT !.isPrimary = TRUE] ELSE r
     : r \in {s \in Rows(calls[c].album) : s.key # calls[c].key}}

\* The promotion waits for a transaction that is deleting the same row, and fails
\* with everything before it when that row is gone.
CommitRemove(c) ==
  LET a == calls[c].album
      next == calls[c].next
  IN
  /\ Is(c, "remove", "commit")
  /\ next # Null => ~LockedFor(c, next)
  /\ IF next # Null /\ ~HasRow(a, next)
     THEN Refuse(c) /\ UNCHANGED <<albums, raced>>
     ELSE /\ albums' = [albums EXCEPT ![a].rows = AfterRemoval(c)]
          /\ Raced(c, a)
          /\ calls' = [calls EXCEPT ![c].pc = "unstore", ![c].body = AfterRemoval(c)]
  /\ UNCHANGED <<files, minted, avatar, lost, faults>>

\* deleteImage: a key nothing is filed under counts as done.
Unstore(c) ==
  /\ Is(c, "remove", "unstore")
  /\ \/ files' = files \ {calls[c].key} /\ UNCHANGED <<lost, faults>>
     \/ Fault /\ lost' = lost \cup ({calls[c].key} \cap files) /\ UNCHANGED files
  /\ Answer(c, calls[c].body)
  /\ UNCHANGED <<albums, minted, avatar, raced>>

-----------------------------------------------------------------------------
(* Rows written from a list of addresses.                                  *)

\* The first address leads; the claimed places keep the address's own key.
ListedRows(a, n, urls, claimed) ==
  {Image(IF i \in claimed THEN urls[i] ELSE InventedKey(a, n, i), urls[i], i - 1, i = 1)
     : i \in DOMAIN urls}

\* POST of a draft with imageUrls, of which the request may hold any number.
CreateDraft(c) ==
  /\ Is(c, "draft", "create")
  /\ \E a \in Drafts :
       /\ albums[a].status = "ABSENT"
       /\ albums' = [albums EXCEPT ![a] =
            [status |-> "DRAFT", rows |-> ListedRows(a, 0, calls[c].urls, {}),
             lists |-> 0, listed |-> Len(calls[c].urls), dropped |-> {}]]
       /\ Answer(c, a)
  /\ UNCHANGED <<files, minted, avatar, lost, raced, faults>>

\* PATCH of an auction with imageUrls: updateOwnAuction reads the status first.
FindOwn(c) ==
  LET a == calls[c].album IN
  /\ Is(c, "edit", "find")
  /\ IF albums[a].status \in {"DRAFT", "SCHEDULED"}
     THEN calls' = [calls EXCEPT ![c].pc = "replace", ![c].seen = albums[a]]
     ELSE Refuse(c)
  /\ UNCHANGED <<albums, files, minted, avatar, lost, raced, faults>>

\* Its guarded write locks the auction, which every other transaction on the album
\* updates before it commits, so that from here to its commit it is one step: all rows
\* go, those of the list come, the files stay.  deleteMany waits for a row that another
\* transaction has deleted; a scheduled auction may not be left without a picture.
ReplaceImages(c) ==
  LET a == calls[c].album
      urls == calls[c].urls
      album == albums[a]
  IN
  /\ Is(c, "edit", "replace")
  /\ \/ /\ album.status # calls[c].seen.status
        /\ Refuse(c) /\ UNCHANGED albums
     \/ /\ album.status = calls[c].seen.status
        /\ \A r \in Rows(a) : ~LockedFor(c, r.key)
        /\ IF album.status = "SCHEDULED" /\ urls = <<>>
           THEN Refuse(c) /\ UNCHANGED albums
           ELSE /\ albums' = [albums EXCEPT ![a] =
                     [status |-> album.status,
                      rows |-> ListedRows(a, album.lists + 1, urls, {}),
                      lists |-> album.lists + 1, listed |-> Len(urls),
                      dropped |-> album.dropped \cup {r.key : r \in Rows(a)}]]
                /\ Answer(c, a)
  /\ UNCHANGED <<files, minted, avatar, lost, raced, faults>>

-----------------------------------------------------------------------------
(* A new listing arrives with its pictures already stored.                 *)

UploadPending(c) ==
  LET key == FileKey("pending", minted + 1) IN
  /\ Is(c, "pending", "store")
  /\ minted < MaxMinted
  /\ \/ /\ minted' = minted + 1
        /\ files' = files \cup {key}
        /\ Answer(c, key)
        /\ UNCHANGED faults
     \/ Fault /\ Refuse(c) /\ UNCHANGED <<files, minted>>
  /\ UNCHANGED <<albums, avatar, lost, raced>>

ProductKeys == {r.key : r \in UNION {Rows(a) : a \in Listings}}

\* resolveImageKeys: the url's own key is claimed only if no row holds it yet,
\* neither in the table nor earlier in the request.
Claimed(urls) ==
  {i \in DOMAIN urls :
     /\ Folder(urls[i]) = "pending"
     /\ urls[i] \notin ProductKeys
     /\ \A j \in 1 .. i - 1 : urls[j] # urls[i]}

\* The form's request ("create") and that of an API client ("post").
ResolveImageKeys(c) ==
  /\ Is(c, "create", "resolve") \/ Is(c, "post", "resolve")
  /\ calls' = [calls EXCEPT ![c].pc = "create", ![c].read = Claimed(calls[c].urls)]
  /\ UNCHANGED <<albums, files, minted, avatar, lost, raced, faults>>

\* Nothing but the form limits how many addresses there are.
NewListing(c, a) ==
  [status |-> "ACTIVE", rows |-> ListedRows(a, 0, calls[c].urls, calls[c].read),
   lists |-> 0, listed |-> IF calls[c].op = "post" THEN Len(calls[c].urls) ELSE 0,
   dropped |-> {}]

\* storageKey is unique: a key claimed by a listing created since refuses this one.
CreateListing(c) ==
  /\ Is(c, "create", "create") \/ Is(c, "post", "create")
  /\ IF \E i \in calls[c].read : calls[c].urls[i] \in ProductKeys
     THEN Refuse(c) /\ UNCHANGED albums
     ELSE \E a \in Listings :
            /\ albums[a].status = "ABSENT"
            /\ albums' = [albums EXCEPT ![a] = NewListing(c, a)]
            /\ Answer(c, a)
  /\ UNCHANGED <<files, minted, avatar, lost, raced, faults>>

-----------------------------------------------------------------------------
(* What the other requests of the same pages do to an album or read of it. *)

\* PATCH /products/:id of the details form answers with the whole product.
UpdateDetails(c) ==
  LET a == calls[c].album IN
  /\ Is(c, "details", "update")
  /\ IF IsEditable(a) THEN Answer(c, Rows(a)) ELSE Refuse(c)
  /\ UNCHANGED <<albums, files, minted, avatar, lost, raced, faults>>

\* GET of the owner's draft: only while it is one.
ReadDraft(c) ==
  LET a == calls[c].album IN
  /\ Is(c, "load", "read")
  /\ IF albums[a].status = "DRAFT" THEN Answer(c, Rows(a)) ELSE Refuse(c)
  /\ UNCHANGED <<albums, files, minted, avatar, lost, raced, faults>>

\* publishDraft: the gate counts the pictures, the write asks for the status only.
PublishGate(c) ==
  LET a == calls[c].album IN
  /\ Is(c, "publish", "gate")
  /\ IF albums[a].status = "DRAFT" /\ Rows(a) # {} 
     THEN calls' = [calls EXCEPT ![c].pc = "publish", ![c].seen = albums[a]]
     ELSE Refuse(c)
  /\ UNCHANGED <<albums, files, minted, avatar, lost, raced, faults>>

PublishDraft(c) ==
  LET a == calls[c].album IN
  /\ Is(c, "publish", "publish")
  /\ IF albums[a].status = "DRAFT"
     THEN albums' = [albums EXCEPT ![a].status = "SCHEDULED"] /\ Raced(c, a) /\ Answer(c, a)
     ELSE Refuse(c) /\ UNCHANGED <<albums, raced>>
  /\ UNCHANGED <<files, minted, avatar, lost, faults>>

\* An admin suspends a listing.
SuspendListing(a) ==
  /\ albums[a].status = "ACTIVE"
  /\ albums' = [albums EXCEPT ![a].status = "SUSPENDED"]
  /\ UNCHANGED <<files, minted, avatar, calls, lost, raced, faults>>

\* updateMe writes the fields sent, then reads the profile back for the answer.
UpdateMe(c) ==
  /\ Is(c, calls[c].op, "patch")
  /\ avatar' = calls[c].key
  /\ Goto(c, "readback")
  /\ UNCHANGED <<albums, files, minted, lost, raced, faults>>

FindMe(c) ==
  /\ Is(c, calls[c].op, "readback")
  /\ Answer(c, avatar)
  /\ UNCHANGED <<albums, files, minted, avatar, lost, raced, faults>>

-----------------------------------------------------------------------------
\* The file a call is responsible for: stored without its row, or outliving it.
InHand(c) ==
  IF \/ calls[c].op = "add" /\ calls[c].pc \in {"begin", "insert", "cleanup"}
     \/ Is(c, "remove", "unstore")
  THEN {calls[c].key} \cap files ELSE {}

\* The process dies: open transactions roll back, every page sees a dropped
\* connection, and what the calls had in hand stays in the store.
Crash ==
  /\ Fault
  /\ \E c \in Calls : Running(c)
  /\ lost' = lost \cup UNION {InHand(c) : c \in Calls}
  /\ calls' = [c \in Calls |-> IF Running(c) THEN Replied(c, "error", Null) ELSE calls[c]]
  /\ UNCHANGED <<albums, files, minted, avatar, raced>>

ServeCall(c) ==
  \/ CheckAdd(c) \/ Upload(c) \/ BeginAdd(c) \/ InsertRow(c) \/ Cleanup(c)
  \/ FindImage(c) \/ DeleteRow(c) \/ CommitRemove(c) \/ Unstore(c)
  \/ CreateDraft(c) \/ FindOwn(c) \/ ReplaceImages(c)
  \/ UploadPending(c) \/ ResolveImageKeys(c) \/ CreateListing(c)
  \/ UpdateDetails(c) \/ ReadDraft(c) \/ PublishGate(c) \/ PublishDraft(c)
  \/ UpdateMe(c) \/ FindMe(c)
=============================================================================
