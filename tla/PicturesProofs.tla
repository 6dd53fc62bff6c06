--------------------------- MODULE PicturesProofs ---------------------------
(***************************************************************************)
(* Proofs about PicturePages, for every number of tabs, calls, albums and  *)
(* files.                                                                  *)
(*                                                                         *)
(* A file is in one pair of hands at a time: a call that stored it and has *)
(* not written its row, a row, or a call that deleted its row.  An         *)
(* uploaded key that has left its row never comes back to one, which is    *)
(* why a removal that finds the album it read finds it unchanged since.    *)
(***************************************************************************)
EXTENDS PicturePages, TLAPS, FiniteSetTheorems, SequenceTheorems, WellFoundedInduction

-----------------------------------------------------------------------------
(***************************************************************************)
(* The inductive invariant                                                 *)
(***************************************************************************)
OnRow(k) == \E a \in Albums : \E r \in Rows(a) : r.key = k

\* A list of addresses has replaced its row.
Dropped(k) == \E a \in Albums : k \in albums[a].dropped

\* An upload has been given the key.
Minted(k) == k \in UploadKey /\ k[2] \in 1 .. minted

Shelves ==
  /\ albums \in [Albums -> Album]
  /\ minted \in Nat
  /\ \A a \in Albums :
       /\ IsFiniteSet(Rows(a))
       /\ albums[a].status = "ABSENT" => Rows(a) = {} /\ albums[a].dropped = {}
       /\ \A r, s \in Rows(a) : r.key = s.key => r = s
       /\ \A r \in Rows(a) :
            r.key \in UploadKey => Minted(r.key) /\ r.url = r.key /\ r.key \in files
  /\ \A a, b \in Albums : \A r \in Rows(a), s \in Rows(b) :
       r.key = s.key /\ r.key \in UploadKey => a = b

CallFields == DOMAIN NoCall
IsCall(x) == DOMAIN x = CallFields /\ x = [f \in CallFields |-> x[f]]

\* A call that stored a file and has neither given it a row nor deleted it.
Holding(x) == x.op = "add" /\ x.pc \in {"begin", "insert", "cleanup"}

Deleting(x) == x.op = "remove" /\ x.pc \in {"delete", "commit"}
AtCommit(x) == x.op = "remove" /\ x.pc = "commit"
AtUnstore(x) == x.op = "remove" /\ x.pc = "unstore"

\* The keys a removal has seen on a row.
Known(x) == IF Deleting(x) THEN {r.key : r \in x.seen.rows}
            ELSE IF AtUnstore(x) THEN {x.key} ELSE {}

AddOK(x) ==
  /\ Holding(x) => Minted(x.key) /\ x.key \in files /\ ~OnRow(x.key)
  /\ x.op = "add" /\ x.pc = "insert" =>
       /\ x.read.position \in Nat
       /\ x.read.isPrimary = (x.seen.rows = {})
       /\ Cardinality(x.seen.rows) < MaxImages

RemoveOK(x) ==
  /\ \A k \in Known(x) : k \in UploadKey => Minted(k)
  /\ Deleting(x) =>
       /\ x.read \in x.seen.rows /\ x.read.key = x.key
       /\ x.seen.status = IF x.album \in Drafts THEN "DRAFT" ELSE "ACTIVE"
       /\ x.album \in Listings => Cardinality(x.seen.rows) > 1
  /\ AtCommit(x) =>
       /\ \E r \in Rows(x.album) : r.key = x.key
       /\ x.next # Null => x.read.isPrimary /\ x.next # x.key
       /\ x.read.isPrimary /\ x.next = Null =>
            \A r \in x.seen.rows : r.key # x.key => ~\E s \in Rows(x.album) : s.key = r.key
  /\ AtUnstore(x) => (x.key \in UploadKey => ~OnRow(x.key))

CreateOK(x) ==
  /\ x.op = "pending" => x.pc \notin {"patch", "readback"}
  /\ x.op = "pending" /\ x.pc = "ok" => x.body \in PendingKey
  /\ x.op \in {"create", "post"} /\ x.pc \in {"resolve", "create"} =>
       /\ x.urls \in Seq(PendingKey) /\ x.urls # <<>>
       /\ x.op = "create" => Len(x.urls) <= MaxImages
  /\ x.op \in {"create", "post"} /\ x.pc = "create" =>
       /\ x.read \subseteq DOMAIN x.urls
       /\ \A i \in x.read : \A j \in 1 .. i - 1 : x.urls[j] # x.urls[i]
  /\ x.op = "draft" /\ x.pc = "create" => x.urls \in Seq(Key)
  /\ x.op = "edit" /\ x.pc \in {"find", "replace"} => x.album \in Drafts /\ x.urls \in Seq(Key)
  /\ x.op = "edit" /\ x.pc = "replace" => x.seen.status \in {"DRAFT", "SCHEDULED"}

\* A call that has found its album.
Engaged(x) ==
  Deleting(x) \/ (x.op = "add" /\ x.pc \in {"upload", "begin", "insert", "cleanup"})

CallOK(x) ==
  /\ IsCall(x)
  /\ Engaged(x) => albums[x.album].status # "ABSENT"
  /\ x.op \in {"add", "remove", "publish", "details", "load"} /\ x.pc \notin {"idle", "ok", "error"} =>
       x.album \in Albums
  /\ x.op = "publish" /\ x.pc = "publish" => x.seen.rows # {}
  /\ AddOK(x) /\ RemoveOK(x) /\ CreateOK(x)

Requests ==
  /\ DOMAIN calls = Calls
  /\ \A c \in Calls : CallOK(calls[c])
  /\ \A c, d \in Calls : Holding(calls[c]) =>
       /\ calls[c].key \notin Known(calls[d])
       /\ Holding(calls[d]) /\ calls[c].key = calls[d].key => c = d
  /\ \A c, d \in Calls :
       AtCommit(calls[c]) /\ AtCommit(calls[d]) /\ calls[c].key = calls[d].key => c = d

TabFields == DOMAIN Tab(Null, Null, {})
IsTab(r) == DOMAIN r = TabFields /\ r = [f \in TabFields |-> r[f]]

Uploads(t, x) == x.tab = t /\ x.op = "pending"

\* What call x may be to a form with these pictures.
Budget(r, x) ==
  /\ x.op \in {"pending", "create"}
  /\ x.op = "pending" => r.picking /\ x.left \in Nat /\ Len(r.urls) + x.left + 1 <= MaxImages

\* A form collects as many pictures as fit, those of its one running batch included.
FormOK(t, r) ==
  /\ r.urls \in Seq(PendingKey) /\ Len(r.urls) <= MaxImages
  /\ \A c \in Calls : calls[c].tab = t => Budget(r, calls[c])
  /\ \A c, d \in Calls : Uploads(t, calls[c]) /\ Uploads(t, calls[d]) => c = d

DraftPages == {"draft", "failed", "left"}

TabOK(t, r) ==
  /\ IsTab(r)
  /\ r.page \in {"draft", "failed", "listing"} => r.album \in Albums
  /\ r.page = "form" => FormOK(t, r)
  /\ \A c \in Calls : calls[c].tab = t /\ calls[c].op = "load" => r.page \in DraftPages

Screens == DOMAIN tabs = Tabs /\ \A t \in Tabs : TabOK(t, tabs[t])

\* A call answers for a file; StoredFilesAreAccountedFor says the same.
Hand(x) == Holding(x) \/ AtUnstore(x)
Accounted ==
  \A k \in files : Folder(k) \in {"auction", "product"} =>
    OnRow(k) \/ Dropped(k) \/ k \in lost \/ \E c \in Calls : Hand(calls[c]) /\ calls[c].key = k

PicturesInv ==
  Shelves /\ Requests /\ Screens /\ Accounted /\ AlbumsAreWholeUnlessRaced

-----------------------------------------------------------------------------
(***************************************************************************)
(* Keys, positions, calls                                                  *)
(***************************************************************************)

\* The folders keep the kinds of key apart.
LEMMA KeysApart ==
  /\ \A k \in UploadKey : /\ k = <<k[1], k[2]>> /\ k[1] \in {"auction", "product"} /\ k[2] \in Nat
                          /\ Folder(k) = k[1] /\ k \notin PendingKey
  /\ \A k \in PendingKey : Folder(k) = "pending"
  /\ \A k \in Key : Folder(k) \in {"auction", "product"} => k \in UploadKey
  /\ \A k \in Key : k # Null
BY KeysAssumption DEF UploadKey, PendingKey, Key, Folder

\* The least of some numbers.
LEMMA LeastNumber ==
  ASSUME NEW S, S \subseteq Nat, S # {}
  PROVE  \E n \in S : \A m \in S : n <= m
<1> DEFINE R == OpToRel(<, Nat)
<1>1. PICK n \in S : \A m \in S : ~(<<m, n>> \in R)
  <2>1. IsWellFoundedOn(R, Nat)
    BY NatLessThanWellFounded
  <2> HIDE DEF R
  <2> QED BY <2>1, WFMin
<1>2. ASSUME NEW m \in S, m < n PROVE FALSE
  BY <1>1, <1>2 DEF OpToRel
<1> QED BY <1>2

\* The greatest of finitely many numbers, by a least number of them without one.
LEMMA GreatestNumber ==
  ASSUME NEW S, S \subseteq Nat, S # {}, IsFiniteSet(S)
  PROVE  Max(S) \in Nat
<1> DEFINE Topped(T) == \E n \in T : \A m \in T : n >= m
           Bare == {Cardinality(T) : T \in {U \in SUBSET Nat :
                                            U # {} /\ IsFiniteSet(U) /\ ~Topped(U)}}
<1>1. Topped(S)
  <2> SUFFICES ASSUME ~Topped(S) PROVE FALSE
    OBVIOUS
  <2>1. Bare # {} /\ Bare \subseteq Nat
    BY FS_CardinalityType
  <2>2. PICK least \in Bare : \A m \in Bare : least <= m
    BY <2>1, LeastNumber
  <2>3. PICK T \in SUBSET Nat :
          T # {} /\ IsFiniteSet(T) /\ ~Topped(T) /\ Cardinality(T) = least
    BY <2>2
  <2>4. PICK x \in T : TRUE
    BY <2>3
  <2>5. IsFiniteSet(T \ {x}) /\ Cardinality(T \ {x}) = least - 1 /\ least \in Nat
    BY <2>3, <2>4, FS_RemoveElement, FS_CardinalityType
  <2>6. Topped(T \ {x})
    <3>1. CASE T \ {x} = {}
      BY <2>3, <2>4, <3>1
    <3>2. CASE T \ {x} # {}
      <4> SUFFICES ASSUME ~Topped(T \ {x}) PROVE FALSE
        OBVIOUS
      <4>1. Cardinality(T \ {x}) \in Bare
        BY <2>5, <3>2
      <4> HIDE DEF Bare
      <4> QED BY <2>2, <2>5, <4>1
    <3> QED BY <3>1, <3>2
  <2>7. PICK n \in T \ {x} : \A m \in T \ {x} : n >= m
    BY <2>6
  <2>8. n \in Nat /\ x \in Nat
    OBVIOUS
  <2> QED BY <2>3, <2>7, <2>8
<1> QED BY <1>1 DEF Max

\* A call that is over holds nothing and has seen nothing.
LEMMA OverOK ==
  ASSUME NEW y, IsCall(y), y.pc \in {"idle", "ok", "error"},
         y.op = "pending" /\ y.pc = "ok" => y.body \in PendingKey
  PROVE  CallOK(y) /\ ~Holding(y) /\ ~Hand(y) /\ Known(y) = {} /\ ~AtCommit(y)
BY DEF CallOK, Engaged, AddOK, RemoveOK, CreateOK, Holding, Hand, Known, Deleting, AtCommit, AtUnstore

LEMMA NoCallIsCall ==
  IsCall(NoCall) /\ NoCall.pc = "idle" /\ NoCall.tab = Null
BY DEF IsCall, CallFields, NoCall

\* What is left of a call that is answered.
LEMMA RepliedIs ==
  ASSUME NEW c \in Calls, IsCall(calls[c]), NEW pc \in {"ok", "error"}, NEW body, NEW y,
         y = Replied(c, pc, body)
  PROVE  /\ IsCall(y) /\ y.pc \in {"idle", pc}
         /\ \A t \in Tabs : y.tab = t => y.tab = calls[c].tab /\ y.op = calls[c].op
                                         /\ y.left = calls[c].left
         /\ y.pc = "ok" => y.op = calls[c].op /\ y.body = body
<1>1. CASE calls[c].tab = Null
  <2>1. y = NoCall
    BY <1>1 DEF Replied
  <2> QED BY <2>1, NoCallIsCall, ScenesAssumption
<1>2. CASE calls[c].tab # Null
  <2>1. PICK x : x = calls[c]
    OBVIOUS
  <2>2. y = [NoCall EXCEPT !.op = x.op, !.pc = pc, !.tab = x.tab, !.album = x.album,
                           !.left = x.left, !.body = body]
    BY <1>2, <2>1 DEF Replied
  <2>3. IsCall(y) /\ y.pc = pc /\ y.op = x.op /\ y.tab = x.tab /\ y.left = x.left /\ y.body = body
    BY <2>2 DEF IsCall, CallFields, NoCall
  <2> QED BY <2>1, <2>3
<1> QED BY <1>1, <1>2

\* Calls depend on the rows, the files and how many were stored.
LEMMA CallStands ==
  ASSUME UNCHANGED <<albums, files, minted>>, NEW x, CallOK(x)
  PROVE  CallOK(x)'
<1>1. \A a : Rows(a)' = Rows(a)
  BY DEF Rows
<1>2. \A k : OnRow(k)' = OnRow(k) /\ Minted(k)' = Minted(k)
  BY <1>1 DEF OnRow, Minted
<1>3. AddOK(x)' /\ CreateOK(x)'
  BY <1>2 DEF CallOK, AddOK, CreateOK
<1>4. RemoveOK(x)'
  BY <1>1, <1>2 DEF CallOK, RemoveOK
<1> QED BY <1>3, <1>4 DEF CallOK

\* One call moves; the others stay what they are.
LEMMA OneCallMoves ==
  ASSUME Requests, NEW c \in Calls, NEW y, calls' = [calls EXCEPT ![c] = y], CallOK(y)',
         \A d \in Calls \ {c} : \A x : x = calls[d] => CallOK(x)',
         \A d \in Calls \ {c} : Holding(calls[d]) => calls[d].key \notin Known(y),
         Holding(y) => \A d \in Calls \ {c} :
           y.key \notin Known(calls[d]) /\ (Holding(calls[d]) => calls[d].key # y.key),
         AtCommit(y) => \A d \in Calls \ {c} : AtCommit(calls[d]) => calls[d].key # y.key
  PROVE  Requests'
<1>1. DOMAIN calls' = Calls /\ calls'[c] = y /\ \A d \in Calls \ {c} : calls'[d] = calls[d]
  BY DEF Requests
<1>2. \A d \in Calls : CallOK(calls[d])'
  <2> SUFFICES ASSUME NEW d \in Calls PROVE CallOK(calls[d])'
    OBVIOUS
  <2>1. PICK x : x = calls'[d]
    OBVIOUS
  <2>2. CallOK(x)'
    BY <1>1, <2>1
  <2> QED BY <2>1, <2>2
<1>3. Holding(y) => Known(y) = {}
  BY DEF Holding, Known, Deleting, AtUnstore
<1>4. ASSUME NEW d \in Calls, NEW e \in Calls, Holding(calls'[d])
      PROVE  /\ calls'[d].key \notin Known(calls'[e])
             /\ Holding(calls'[e]) /\ calls'[d].key = calls'[e].key => d = e
  BY <1>1, <1>3, <1>4 DEF Requests
<1>5. \A d, e \in Calls :
        AtCommit(calls'[d]) /\ AtCommit(calls'[e]) /\ calls'[d].key = calls'[e].key => d = e
  BY <1>1 DEF Requests
<1>6. \A d \in Calls : /\ Holding(calls[d])' = Holding(calls'[d]) /\ Known(calls[d])' = Known(calls'[d])
                       /\ AtCommit(calls[d])' = AtCommit(calls'[d])
  BY DEF Holding, Known, AtCommit, Deleting, AtUnstore
<1> QED BY <1>1, <1>2, <1>4, <1>5, <1>6 DEF Requests

\* A tab looks at its own calls only.
LEMMA ScreensStand ==
  ASSUME Screens, UNCHANGED tabs,
         \A d \in Calls, t \in Tabs : calls'[d].tab = t =>
           calls[d].tab = t /\ calls'[d].op = calls[d].op /\ calls'[d].left = calls[d].left
  PROVE  Screens'
<1>1. ASSUME NEW t \in Tabs PROVE TabOK(t, tabs[t])'
  <2>1. PICK r : r = tabs[t]
    OBVIOUS
  <2>2. TabOK(t, r)
    BY <2>1 DEF Screens
  <2>3. TabOK(t, r)'
    BY <2>2 DEF TabOK, FormOK, Budget, Uploads
  <2> QED BY <2>1, <2>3
<1> QED BY <1>1 DEF Screens

\* A call leaves the file it answers for only to a row, to the bin or to what is lost,
\* and a file that is stored, or loses its row, is in its hands or dropped.
LEMMA AccountedStands ==
  ASSUME Accounted, Requests, NEW c \in Calls, NEW y, calls' = [calls EXCEPT ![c] = y],
         lost \subseteq lost', \A k : Dropped(k) => Dropped(k)',
         \A k \in files' \ files : \/ Hand(y) /\ y.key = k
                                   \/ k \in lost'
                                   \/ Folder(k) \notin {"auction", "product"},
         \A k : OnRow(k) => \/ OnRow(k)' \/ Dropped(k)'
                            \/ Hand(y) /\ y.key = k
                            \/ Folder(k) \notin {"auction", "product"},
         NEW own, own = calls[c].key,
         Hand(calls[c]) => \/ Hand(y) /\ y.key = own
                           \/ OnRow(own)' \/ own \notin files' \/ own \in lost'
  PROVE  Accounted'
<1>1. calls'[c] = y /\ \A d \in Calls \ {c} : calls'[d] = calls[d]
  BY DEF Requests
<1>2. \A d \in Calls : Hand(calls[d])' = Hand(calls'[d])
  BY DEF Hand, Holding, AtUnstore
<1> SUFFICES ASSUME NEW k \in files', Folder(k) \in {"auction", "product"},
                    ~OnRow(k)', ~Dropped(k)', k \notin lost', ~(Hand(y) /\ y.key = k)
             PROVE  \E d \in Calls : Hand(calls'[d]) /\ calls'[d].key = k
  BY <1>1, <1>2 DEF Accounted
<1>3. PICK d \in Calls : Hand(calls[d]) /\ calls[d].key = k
  BY DEF Accounted
<1>4. d # c
  <2> SUFFICES ASSUME d = c PROVE FALSE
    OBVIOUS
  <2>1. k = own /\ Hand(calls[c])
    BY <1>3
  <2>2. ~OnRow(own)'
    BY <2>1
  <2> QED BY <2>1, <2>2
<1> QED BY <1>1, <1>3, <1>4

LEMMA ShelvesStand ==
  ASSUME Shelves, UNCHANGED <<albums, files, minted>>
  PROVE  Shelves'
BY DEF Shelves, Rows, Minted

LEMMA WholeStands ==
  ASSUME AlbumsAreWholeUnlessRaced, UNCHANGED <<albums, raced>>
  PROVE  AlbumsAreWholeUnlessRaced'
BY DEF AlbumsAreWholeUnlessRaced, Whole

\* All but the screens.
Behind == Shelves /\ Requests /\ Accounted /\ AlbumsAreWholeUnlessRaced

\* A step of one call that writes neither a row nor a file.
LEMMA OneCallBehind ==
  ASSUME Behind, UNCHANGED <<albums, files, minted, raced>>, lost \subseteq lost',
         NEW c \in Calls, NEW y, calls' = [calls EXCEPT ![c] = y], CallOK(y),
         Holding(y) => Holding(calls[c]) /\ y.key = calls[c].key,
         \A d \in Calls \ {c} : Holding(calls[d]) => calls[d].key \notin Known(y),
         AtCommit(y) => \A d \in Calls \ {c} : AtCommit(calls[d]) => calls[d].key # y.key,
         Hand(calls[c]) => Hand(y) /\ y.key = calls[c].key
  PROVE  Behind'
<1> USE DEF Behind
<1>1. Shelves' /\ AlbumsAreWholeUnlessRaced'
  BY ShelvesStand, WholeStands
<1>2. Requests'
  <2>1. CallOK(y)'
    BY CallStands
  <2>2. \A d \in Calls \ {c} : \A x : x = calls[d] => CallOK(x)'
    BY CallStands DEF Requests
  <2>3. Holding(y) => \A d \in Calls \ {c} :
           y.key \notin Known(calls[d]) /\ (Holding(calls[d]) => calls[d].key # y.key)
    BY DEF Requests
  <2> QED BY <2>1, <2>2, <2>3, OneCallMoves
<1>3. Accounted'
  <2>1. \A k : (OnRow(k) => OnRow(k)') /\ (Dropped(k) => Dropped(k)')
    BY DEF OnRow, Rows, Dropped
  <2>2. PICK own : own = calls[c].key
    OBVIOUS
  <2>3. Hand(calls[c]) => Hand(y) /\ y.key = own
    BY <2>2
  <2>4. files' \ files = {}
    OBVIOUS
  <2>5. \A k \in files' \ files : \/ Hand(y) /\ y.key = k
                                  \/ k \in lost'
                                  \/ Folder(k) \notin {"auction", "product"}
    BY <2>4
  <2>6. \A k : OnRow(k) => \/ OnRow(k)' \/ Dropped(k)'
                           \/ Hand(y) /\ y.key = k
                           \/ Folder(k) \notin {"auction", "product"}
    BY <2>1
  <2> QED BY <2>1, <2>2, <2>3, <2>5, <2>6, AccountedStands
<1> QED BY <1>1, <1>2, <1>3

LEMMA CallStep ==
  ASSUME PicturesInv, UNCHANGED <<albums, files, minted, raced, tabs>>, lost \subseteq lost',
         NEW c \in Calls, NEW y, calls' = [calls EXCEPT ![c] = y], CallOK(y),
         Holding(y) => Holding(calls[c]) /\ y.key = calls[c].key,
         \A d \in Calls \ {c} : Holding(calls[d]) => calls[d].key \notin Known(y),
         AtCommit(y) => \A d \in Calls \ {c} : AtCommit(calls[d]) => calls[d].key # y.key,
         Hand(calls[c]) => Hand(y) /\ y.key = calls[c].key,
         \A t \in Tabs : y.tab = t =>
           calls[c].tab = t /\ y.op = calls[c].op /\ y.left = calls[c].left
  PROVE  PicturesInv'
<1>1. Behind'
  BY OneCallBehind DEF Behind, PicturesInv
<1>2. Screens'
  <2>1. \A d \in Calls, t \in Tabs : calls'[d].tab = t =>
           calls[d].tab = t /\ calls'[d].op = calls[d].op /\ calls'[d].left = calls[d].left
    BY DEF PicturesInv, Requests
  <2> QED BY <2>1, ScreensStand DEF PicturesInv
<1> QED BY <1>1, <1>2 DEF Behind, PicturesInv

\* A call that answers for no file is refused or answered.
LEMMA CallEnds ==
  ASSUME PicturesInv, UNCHANGED <<albums, files, minted, raced, tabs>>, lost \subseteq lost',
         NEW c \in Calls, ~Hand(calls[c]), NEW pc \in {"ok", "error"}, NEW body,
         calls' = [calls EXCEPT ![c] = Replied(c, pc, body)],
         calls[c].op = "pending" /\ pc = "ok" => body \in PendingKey
  PROVE  PicturesInv'
<1>1. PICK y : y = Replied(c, pc, body)
  OBVIOUS
<1>2. IsCall(calls[c])
  BY DEF PicturesInv, Requests, CallOK
<1>3. /\ IsCall(y) /\ y.pc \in {"idle", pc}
      /\ \A t \in Tabs : y.tab = t => y.tab = calls[c].tab /\ y.op = calls[c].op
                                      /\ y.left = calls[c].left
      /\ y.pc = "ok" => y.op = calls[c].op /\ y.body = body
  BY <1>1, <1>2, RepliedIs
<1>4. CallOK(y) /\ ~Holding(y) /\ ~Hand(y) /\ Known(y) = {} /\ ~AtCommit(y)
  BY <1>3, OverOK
<1> QED BY <1>1, <1>3, <1>4, CallStep

\* A call goes on to its next statement, having read nothing that matters.
LEMMA CallGoesOn ==
  ASSUME PicturesInv, UNCHANGED <<albums, files, minted, raced, tabs, lost>>,
         NEW c \in Calls, NEW pc, Goto(c, pc),
         \/ /\ calls[c].op = "add" /\ calls[c].pc = "check" /\ pc = "upload"
            /\ albums[calls[c].album].status # "ABSENT"
         \/ calls[c].op = "add" /\ calls[c].pc \in {"begin", "insert"} /\ pc = "cleanup"
         \/ calls[c].pc = "patch" /\ pc = "readback"
  PROVE  PicturesInv'
<1>1. PICK x, y : x = calls[c] /\ y = [x EXCEPT !.pc = pc]
  OBVIOUS
<1>2. CallOK(x) /\ IsCall(x)
  BY <1>1 DEF PicturesInv, Requests, CallOK
<1>3. IsCall(y) /\ y.pc = pc /\ y.op = x.op /\ y.key = x.key /\ y.album = x.album /\ y.tab = x.tab
      /\ y.left = x.left
  BY <1>1, <1>2 DEF IsCall, CallFields, NoCall
<1>4. calls' = [calls EXCEPT ![c] = y]
  BY <1>1 DEF Goto, PicturesInv, Requests
<1>5. CallOK(y) /\ Known(y) = {} /\ ~AtCommit(y) /\ (Holding(y) => Holding(x)) /\ (Hand(x) => Hand(y))
  BY <1>1, <1>2, <1>3 DEF CallOK, Engaged, AddOK, RemoveOK, CreateOK, Holding, Hand, Known, Deleting,
                          AtCommit, AtUnstore
<1> QED BY <1>1, <1>3, <1>4, <1>5, CallStep

-----------------------------------------------------------------------------
(***************************************************************************)
(* Steps that only read                                                    *)
(***************************************************************************)
LEMMA CheckAddKeeps ==
  ASSUME PicturesInv, NEW c \in Calls, CheckAdd(c), UNCHANGED tabs
  PROVE  PicturesInv'
<1>1. CASE Goto(c, "upload") /\ IsEditable(calls[c].album)
  <2>1. albums[calls[c].album].status # "ABSENT"
    BY <1>1 DEF IsEditable
  <2> QED BY <1>1, <2>1, CallGoesOn DEF CheckAdd, Is
<1>2. CASE Refuse(c)
  <2>1. ~Hand(calls[c]) /\ calls[c].op # "pending"
    BY DEF CheckAdd, Is, Hand, Holding, AtUnstore
  <2> QED BY <1>2, <2>1, CallEnds DEF CheckAdd, Refuse
<1> QED BY <1>1, <1>2 DEF CheckAdd

\* The next position is one after the greatest.
LEMMA PositionsAreNumbers ==
  ASSUME Shelves, NEW a \in Albums
  PROVE  NextPosition(Rows(a)) \in Nat
<1> DEFINE R == Rows(a)
           P == Positions(R)
<1>1. IsFiniteSet(R) /\ P \subseteq Nat
  BY DEF Shelves, Rows, Album, ImageRow, Positions
<1>2. IsFiniteSet(P)
  <2> DEFINE f == [r \in R |-> r.position]
  <2>1. f \in Surjection(R, P)
    BY DEF Surjection, Positions
  <2> HIDE DEF f, R, P
  <2> QED BY <1>1, <2>1, FS_Surjection
<1>3. R # {} => P # {}
  BY DEF Positions
<1>4. R # {} => Max(P) \in Nat
  <2> HIDE DEF P, R
  <2> QED BY <1>1, <1>2, <1>3, GreatestNumber
<1> QED BY <1>4 DEF NextPosition

LEMMA BeginAddKeeps ==
  ASSUME PicturesInv, NEW c \in Calls, BeginAdd(c), UNCHANGED tabs
  PROVE  PicturesInv'
<1>1. CASE StillOpen(calls[c].album)
  <2>1. PICK x, a : x = calls[c] /\ a = x.album
    OBVIOUS
  <2>2. CallOK(x) /\ IsCall(x) /\ x.op = "add" /\ x.pc = "begin" /\ a \in Albums
    BY <2>1 DEF PicturesInv, Requests, CallOK, BeginAdd, Is
  <2>3. PICK y : y = [x EXCEPT !.pc = "insert", !.seen = albums[a],
                               !.read = [position |-> NextPosition(Rows(a)),
                                         isPrimary |-> Rows(a) = {}]]
    OBVIOUS
  <2>4. calls' = [calls EXCEPT ![c] = y]
    BY <1>1, <2>1, <2>3 DEF BeginAdd, PicturesInv, Requests
  <2>5. IsCall(y) /\ y.pc = "insert" /\ y.op = "add" /\ y.key = x.key /\ y.album = a
        /\ y.tab = x.tab /\ y.left = x.left /\ y.seen = albums[a]
        /\ y.read = [position |-> NextPosition(Rows(a)), isPrimary |-> Rows(a) = {}]
    BY <2>1, <2>2, <2>3 DEF IsCall, CallFields, NoCall
  <2>6. NextPosition(Rows(a)) \in Nat
    BY <2>2, PositionsAreNumbers DEF PicturesInv
  <2>7. y.read.position \in Nat /\ y.read.isPrimary = (y.seen.rows = {})
        /\ Cardinality(y.seen.rows) < MaxImages
    BY <1>1, <2>1, <2>5, <2>6 DEF StillOpen, HasRoom, Rows
  <2>8. CallOK(y) /\ Known(y) = {} /\ ~AtCommit(y) /\ Holding(x) /\ Hand(y)
    BY <2>1, <2>2, <2>5, <2>7 DEF CallOK, Engaged, AddOK, RemoveOK, CreateOK, Holding, Hand, Known, Deleting,
                            AtCommit, AtUnstore
  <2> QED BY <2>1, <2>2, <2>4, <2>5, <2>8, CallStep DEF BeginAdd
<1>2. CASE ~StillOpen(calls[c].album)
  <2>1. Goto(c, "cleanup") /\ calls[c].op = "add" /\ calls[c].pc = "begin"
        /\ UNCHANGED <<albums, files, minted, raced, tabs, lost>>
    BY <1>2 DEF BeginAdd, Is
  <2> QED BY <2>1, CallGoesOn
<1> QED BY <1>1, <1>2

\* The row a removal finds.
LEMMA RowFound ==
  ASSUME NEW a, NEW key, HasRow(a, key)
  PROVE  RowOf(a, key) \in Rows(a) /\ RowOf(a, key).key = key
BY DEF HasRow, RowOf

LEMMA FindImageKeeps ==
  ASSUME PicturesInv, NEW c \in Calls, FindImage(c), UNCHANGED tabs
  PROVE  PicturesInv'
<1>1. CASE HasRow(calls[c].album, calls[c].key) /\ MayRemove(calls[c].album)
  <2>1. PICK x, a : x = calls[c] /\ a = x.album
    OBVIOUS
  <2>2. CallOK(x) /\ IsCall(x) /\ x.op = "remove" /\ x.pc = "find" /\ a \in Albums
    BY <2>1 DEF PicturesInv, Requests, CallOK, FindImage, Is
  <2>3. PICK y : y = [x EXCEPT !.pc = "delete", !.seen = albums[a], !.read = RowOf(a, x.key)]
    OBVIOUS
  <2>4. calls' = [calls EXCEPT ![c] = y]
    BY <1>1, <2>1, <2>3 DEF FindImage, PicturesInv, Requests
  <2>5. IsCall(y) /\ y.pc = "delete" /\ y.op = "remove" /\ y.key = x.key /\ y.album = a
        /\ y.tab = x.tab /\ y.left = x.left /\ y.seen = albums[a] /\ y.read = RowOf(a, x.key)
    BY <2>1, <2>2, <2>3 DEF IsCall, CallFields, NoCall
  <2>6. y.read \in y.seen.rows /\ y.read.key = y.key
    BY <1>1, <2>1, <2>5, RowFound DEF Rows
  <2>7. /\ y.seen.status = IF a \in Drafts THEN "DRAFT" ELSE "ACTIVE"
        /\ a \in Listings => Cardinality(y.seen.rows) > 1
        /\ albums[a].status # "ABSENT"
    BY <1>1, <2>1, <2>5 DEF MayRemove, IsEditable, Rows
  <2>8. Known(y) = {r.key : r \in Rows(a)} /\ Deleting(y) /\ ~AtCommit(y) /\ ~Holding(y) /\ ~Hand(x)
    BY <2>2, <2>5 DEF Known, Deleting, Rows, AtCommit, Holding, Hand, AtUnstore
  <2>9. \A k \in Known(y) : k \in UploadKey => Minted(k)
    BY <2>2, <2>8 DEF PicturesInv, Shelves
  <2>10. CallOK(y)
    BY <2>2, <2>5, <2>6, <2>7, <2>8, <2>9
       DEF CallOK, Engaged, AddOK, RemoveOK, CreateOK, Holding, Deleting, AtCommit, AtUnstore
  <2>11. \A d \in Calls \ {c} : Holding(calls[d]) => calls[d].key \notin Known(y)
    BY <2>2, <2>8 DEF PicturesInv, Requests, CallOK, AddOK, OnRow
  <2> QED BY <2>1, <2>2, <2>4, <2>5, <2>8, <2>10, <2>11, CallStep DEF FindImage
<1>2. CASE ~(HasRow(calls[c].album, calls[c].key) /\ MayRemove(calls[c].album))
  <2>1. Refuse(c) /\ ~Hand(calls[c]) /\ calls[c].op # "pending"
    BY <1>2 DEF FindImage, Is, Hand, Holding, AtUnstore
  <2> QED BY <2>1, CallEnds DEF FindImage, Refuse
<1> QED BY <1>1, <1>2

\* Of some rows of an album, one comes first.
LEMMA OneIsFirst ==
  ASSUME Shelves, NEW a \in Albums, NEW others, others \subseteq Rows(a), others # {}
  PROVE  /\ \E r \in others : \A s \in others : r.position <= s.position
         /\ \A r \in others : r.key # Null
<1>1. \A r \in others : r.position \in Nat /\ r.key \in Key
  BY DEF Shelves, Rows, Album, ImageRow
<1>2. PICK n \in Positions(others) : \A m \in Positions(others) : n <= m
  <2>1. Positions(others) \subseteq Nat /\ Positions(others) # {}
    BY <1>1 DEF Positions
  <2> QED BY <2>1, LeastNumber
<1>3. \E r \in others : \A s \in others : r.position <= s.position
  BY <1>2 DEF Positions
<1> QED BY <1>1, <1>3, KeysApart

LEMMA DeleteRowKeeps ==
  ASSUME PicturesInv, NEW c \in Calls, DeleteRow(c), UNCHANGED tabs
  PROVE  PicturesInv'
<1>1. CASE HasRow(calls[c].album, calls[c].key)
  <2> DEFINE others == {r \in Rows(calls[c].album) : r.key # calls[c].key}
             first == CHOOSE r \in others : \A s \in others : r.position <= s.position
  <2> HIDE DEF others, first
  <2>1. PICK x, a, next :
          /\ x = calls[c] /\ a = x.album
          /\ next = IF x.read.isPrimary /\ others # {} THEN first.key ELSE Null
    OBVIOUS
  <2>2. CallOK(x) /\ IsCall(x) /\ x.op = "remove" /\ x.pc = "delete" /\ a \in Albums
    BY <2>1 DEF PicturesInv, Requests, CallOK, DeleteRow, Is
  <2>3. PICK y : y = [x EXCEPT !.pc = "commit", !.next = next]
    OBVIOUS
  <2>4. calls' = [calls EXCEPT ![c] = y]
    <3>1. calls' = [calls EXCEPT ![c].pc = "commit", ![c].next = next]
      BY <1>1, <2>1 DEF DeleteRow, others, first
    <3> QED BY <2>1, <2>3, <3>1 DEF PicturesInv, Requests
  <2>5. IsCall(y) /\ y.pc = "commit" /\ y.op = "remove" /\ y.key = x.key /\ y.album = a
        /\ y.tab = x.tab /\ y.left = x.left /\ y.seen = x.seen /\ y.read = x.read /\ y.next = next
    BY <2>1, <2>2, <2>3 DEF IsCall, CallFields, NoCall
  <2>6. others # {} => first \in others /\ first.key # Null
    <3>1. others \subseteq Rows(a)
      BY <2>1 DEF others
    <3>2. others # {} => /\ \E r \in others : \A s \in others : r.position <= s.position
                         /\ \A r \in others : r.key # Null
      BY <2>2, <3>1, OneIsFirst DEF PicturesInv
    <3> QED BY <3>2 DEF first
  <2>7. /\ \E r \in Rows(a) : r.key = x.key
        /\ y.next # Null => x.read.isPrimary /\ y.next # x.key
        /\ x.read.isPrimary /\ y.next = Null => \A r \in Rows(a) : r.key = x.key
    <3>1. \A r : r \in others <=> r \in Rows(a) /\ r.key # x.key
      BY <2>1 DEF others
    <3> QED BY <1>1, <2>1, <2>5, <2>6, <3>1 DEF HasRow
  <2>8. Known(y) = Known(x) /\ Deleting(y) /\ Deleting(x) /\ ~Holding(y) /\ ~Hand(x) /\ ~AtUnstore(y)
    BY <2>2, <2>5 DEF Known, Deleting, Holding, Hand, AtUnstore
  <2>9. RemoveOK(y)
    BY <2>1, <2>2, <2>5, <2>7, <2>8 DEF CallOK, RemoveOK
  <2>10. CallOK(y)
    BY <2>1, <2>2, <2>5, <2>8, <2>9 DEF CallOK, Engaged, AddOK, CreateOK, Holding
  <2>11. \A d \in Calls \ {c} : Holding(calls[d]) => calls[d].key \notin Known(y)
    BY <2>1, <2>8 DEF PicturesInv, Requests
  <2>12. \A d \in Calls \ {c} : AtCommit(calls[d]) => calls[d].key # y.key
    BY <2>1, <2>5 DEF DeleteRow, LockedFor, Is, AtCommit
  <2> QED BY <2>1, <2>2, <2>4, <2>5, <2>8, <2>10, <2>11, <2>12, CallStep DEF DeleteRow
<1>2. CASE ~HasRow(calls[c].album, calls[c].key)
  <2>1. Refuse(c) /\ ~Hand(calls[c]) /\ calls[c].op # "pending"
    BY <1>2 DEF DeleteRow, Is, Hand, Holding, AtUnstore
  <2> QED BY <2>1, CallEnds DEF DeleteRow, Refuse
<1> QED BY <1>1, <1>2

LEMMA ResolveKeeps ==
  ASSUME PicturesInv, NEW c \in Calls, ResolveImageKeys(c), UNCHANGED tabs
  PROVE  PicturesInv'
<1>1. PICK x, y : x = calls[c] /\ y = [x EXCEPT !.pc = "create", !.read = Claimed(x.urls)]
  OBVIOUS
<1>2. CallOK(x) /\ IsCall(x) /\ x.op \in {"create", "post"} /\ x.pc = "resolve"
  BY <1>1 DEF PicturesInv, Requests, CallOK, ResolveImageKeys, Is
<1>3. calls' = [calls EXCEPT ![c] = y]
  BY <1>1 DEF ResolveImageKeys, PicturesInv, Requests
<1>4. IsCall(y) /\ y.pc = "create" /\ y.op = x.op /\ y.key = x.key /\ y.tab = x.tab
      /\ y.left = x.left /\ y.urls = x.urls /\ y.read = Claimed(x.urls)
  BY <1>1, <1>2 DEF IsCall, CallFields, NoCall
<1>5. CallOK(y) /\ Known(y) = {} /\ ~AtCommit(y) /\ ~Holding(y) /\ ~Hand(x)
  BY <1>2, <1>4 DEF CallOK, Engaged, AddOK, RemoveOK, CreateOK, Holding, Hand, Known, Deleting,
                    AtCommit, AtUnstore, Claimed
<1> QED BY <1>1, <1>2, <1>3, <1>4, <1>5, CallStep DEF ResolveImageKeys

LEMMA PublishGateKeeps ==
  ASSUME PicturesInv, NEW c \in Calls, PublishGate(c), UNCHANGED tabs
  PROVE  PicturesInv'
<1>1. ~Hand(calls[c]) /\ calls[c].op # "pending"
  BY DEF PublishGate, Is, Hand, Holding, AtUnstore
<1>2. CASE Refuse(c)
  BY <1>1, <1>2, CallEnds DEF PublishGate, Refuse
<1>3. CASE /\ Rows(calls[c].album) # {}
           /\ calls' = [calls EXCEPT ![c].pc = "publish", ![c].seen = albums[calls[c].album]]
  <2>1. PICK x, y : x = calls[c] /\ y = [x EXCEPT !.pc = "publish", !.seen = albums[x.album]]
    OBVIOUS
  <2>2. CallOK(x) /\ IsCall(x) /\ x.op = "publish" /\ x.pc = "gate"
    BY <2>1 DEF PicturesInv, Requests, CallOK, PublishGate, Is
  <2>3. calls' = [calls EXCEPT ![c] = y]
    BY <1>3, <2>1 DEF PicturesInv, Requests
  <2>4. IsCall(y) /\ y.pc = "publish" /\ y.op = "publish" /\ y.key = x.key /\ y.tab = x.tab
        /\ y.album = x.album /\ y.left = x.left /\ y.seen = albums[x.album]
    BY <2>1, <2>2 DEF IsCall, CallFields, NoCall
  <2>5. y.seen.rows # {}
    BY <1>3, <2>1, <2>4 DEF Rows
  <2>6. CallOK(y) /\ Known(y) = {} /\ ~AtCommit(y) /\ ~Holding(y)
    BY <2>2, <2>4, <2>5 DEF CallOK, Engaged, AddOK, RemoveOK, CreateOK, Holding, Known, Deleting,
                            AtCommit, AtUnstore
  <2> QED BY ZenonT(60), <1>1, <2>1, <2>2, <2>3, <2>4, <2>6, CallStep DEF PublishGate
<1> QED BY <1>2, <1>3 DEF PublishGate

LEMMA FindOwnKeeps ==
  ASSUME PicturesInv, NEW c \in Calls, FindOwn(c), UNCHANGED tabs
  PROVE  PicturesInv'
<1>1. ~Hand(calls[c]) /\ calls[c].op # "pending"
  BY DEF FindOwn, Is, Hand, Holding, AtUnstore
<1>2. CASE Refuse(c)
  BY <1>1, <1>2, CallEnds DEF FindOwn, Refuse
<1>3. CASE /\ albums[calls[c].album].status \in {"DRAFT", "SCHEDULED"}
           /\ calls' = [calls EXCEPT ![c].pc = "replace", ![c].seen = albums[calls[c].album]]
  <2>1. PICK x, y : x = calls[c] /\ y = [x EXCEPT !.pc = "replace", !.seen = albums[x.album]]
    OBVIOUS
  <2>2. CallOK(x) /\ IsCall(x) /\ x.op = "edit" /\ x.pc = "find"
    BY <2>1 DEF PicturesInv, Requests, CallOK, FindOwn, Is
  <2>3. calls' = [calls EXCEPT ![c] = y]
    BY <1>3, <2>1 DEF PicturesInv, Requests
  <2>4. IsCall(y) /\ y.pc = "replace" /\ y.op = "edit" /\ y.key = x.key /\ y.tab = x.tab
        /\ y.album = x.album /\ y.left = x.left /\ y.seen = albums[x.album] /\ y.urls = x.urls
    BY <2>1, <2>2 DEF IsCall, CallFields, NoCall
  <2>5. y.seen.status \in {"DRAFT", "SCHEDULED"}
    BY <1>3, <2>1, <2>4
  <2>6. CallOK(y) /\ Known(y) = {} /\ ~AtCommit(y) /\ ~Holding(y)
    BY <2>2, <2>4, <2>5 DEF CallOK, Engaged, AddOK, RemoveOK, CreateOK, Holding, Known, Deleting,
                            AtCommit, AtUnstore
  <2> QED BY <1>1, <2>1, <2>2, <2>3, <2>4, <2>6, CallStep DEF FindOwn
<1> QED BY <1>2, <1>3 DEF FindOwn

\* The reads that answer at once, and the profile.
LEMMA ReadsKeep ==
  ASSUME PicturesInv, NEW c \in Calls, UNCHANGED tabs,
         UpdateDetails(c) \/ ReadDraft(c) \/ UpdateMe(c) \/ FindMe(c)
  PROVE  PicturesInv'
<1>1. CASE UpdateDetails(c) \/ ReadDraft(c) \/ FindMe(c)
  <2>1. PICK pc, body : /\ pc \in {"ok", "error"}
                        /\ calls' = [calls EXCEPT ![c] = Replied(c, pc, body)]
    BY <1>1 DEF UpdateDetails, ReadDraft, FindMe, Answer, Refuse
  <2>2. ~Hand(calls[c]) /\ UNCHANGED <<albums, files, minted, raced, lost>>
    BY <1>1 DEF UpdateDetails, ReadDraft, FindMe, Is, Hand, Holding, AtUnstore
  <2>3. calls[c].op # "pending"
    BY <1>1 DEF UpdateDetails, ReadDraft, FindMe, Is, PicturesInv, Requests, CallOK, CreateOK
  <2> QED BY <2>1, <2>2, <2>3, CallEnds
<1>2. CASE UpdateMe(c)
  <2>1. calls[c].pc = "patch" /\ Goto(c, "readback") /\ UNCHANGED <<albums, files, minted, raced, lost>>
    BY <1>2 DEF UpdateMe, Is
  <2> QED BY <2>1, CallGoesOn
<1> QED BY <1>1, <1>2

-----------------------------------------------------------------------------
(***************************************************************************)
(* Steps that write to the image store                                     *)
(***************************************************************************)

\* A call stays what it is while its file stands, its row stands where it is about to
\* be deleted, and no key it has seen leave comes back.
LEMMA CallSurvives ==
  ASSUME NEW x, CallOK(x), minted \in Nat, minted' \in Nat, minted <= minted',
         Holding(x) => x.key \in files' /\ ~OnRow(x.key)',
         Engaged(x) => albums'[x.album].status # "ABSENT",
         AtCommit(x) => \E r \in albums'[x.album].rows : r.key = x.key,
         AtCommit(x) => \A k \in Known(x) : \A s \in albums'[x.album].rows :
                          s.key = k => \E r \in albums[x.album].rows : r.key = k,
         AtUnstore(x) => (x.key \in UploadKey => ~OnRow(x.key)')
  PROVE  CallOK(x)'
<1>1. \A k : Minted(k) => Minted(k)'
  BY DEF Minted
<1>2. AddOK(x)'
  BY <1>1 DEF CallOK, AddOK
<1>3. CreateOK(x)'
  BY DEF CallOK, CreateOK
<1>4. RemoveOK(x)'
  <2>1. AtCommit(x) => Deleting(x) /\ Known(x) = {r.key : r \in x.seen.rows}
    BY DEF AtCommit, Deleting, Known
  <2>2. AtCommit(x) =>
         /\ \E r \in albums'[x.album].rows : r.key = x.key
         /\ x.next # Null => x.read.isPrimary /\ x.next # x.key
         /\ x.read.isPrimary /\ x.next = Null =>
              \A r \in x.seen.rows : r.key # x.key => ~\E s \in albums'[x.album].rows : s.key = r.key
    BY <2>1 DEF CallOK, RemoveOK, Rows
  <2> QED BY <1>1, <2>2 DEF CallOK, RemoveOK, Rows
<1> QED BY <1>2, <1>3, <1>4 DEF CallOK

\* The rows stand; at most the file the call answers for goes, and what it stores is new.
LEMMA StoreStep ==
  ASSUME PicturesInv, UNCHANGED <<albums, raced, tabs>>, lost \subseteq lost',
         minted' \in Nat, minted <= minted',
         NEW c \in Calls, NEW y, calls' = [calls EXCEPT ![c] = y], CallOK(y)',
         NEW own, own = calls[c].key,
         files \subseteq files' \/ (Hand(calls[c]) /\ files \ {own} \subseteq files'),
         Known(y) = {}, ~AtCommit(y),
         Holding(y) => \A d \in Calls \ {c} :
           y.key \notin Known(calls[d]) /\ (Holding(calls[d]) => calls[d].key # y.key),
         \A k \in files' \ files : \/ Hand(y) /\ y.key = k
                                   \/ k \in lost'
                                   \/ Folder(k) \notin {"auction", "product"},
         Hand(calls[c]) => own \notin files' \/ own \in lost',
         \A t \in Tabs : y.tab = t =>
           calls[c].tab = t /\ y.op = calls[c].op /\ y.left = calls[c].left
  PROVE  PicturesInv'
<1>1. \A a : Rows(a)' = Rows(a)
  BY DEF Rows
<1>2. \A k : OnRow(k)' = OnRow(k)
  BY <1>1 DEF OnRow
<1>3. CallOK(calls[c]) /\ \A k \in files \ files' : k = own /\ Hand(calls[c])
  BY DEF PicturesInv, Requests
<1>4. \A k \in files \ files' : k \in UploadKey => ~OnRow(k)
  BY <1>3 DEF CallOK, AddOK, RemoveOK, Hand
<1>5. \A d \in Calls \ {c} : Holding(calls[d]) => calls[d].key \in files'
  <2>1. \A d \in Calls \ {c} : Holding(calls[d]) => calls[d].key \in files
    BY DEF PicturesInv, Requests, CallOK, AddOK
  <2>2. AtUnstore(calls[c]) => Known(calls[c]) = {own}
    BY DEF AtUnstore, Known, Deleting
  <2> QED BY <1>3, <2>1, <2>2 DEF PicturesInv, Requests, Hand
<1>6. Shelves'
  <2>1. \A k : Minted(k) => Minted(k)'
    BY DEF Minted, PicturesInv, Shelves
  <2>2. \A a \in Albums : \A r \in Rows(a) :
          r.key \in UploadKey => Minted(r.key)' /\ r.url = r.key /\ r.key \in files'
    BY <1>4, <2>1 DEF PicturesInv, Shelves, OnRow
  <2> QED BY <1>1, <2>2 DEF PicturesInv, Shelves
<1>7. Requests'
  <2>1. ASSUME NEW d \in Calls \ {c}, NEW x, x = calls[d] PROVE CallOK(x)'
    <3>1. CallOK(x) /\ minted \in Nat
      BY <2>1 DEF PicturesInv, Requests, Shelves
    <3>2. Holding(x) => x.key \in files' /\ ~OnRow(x.key)'
      BY <1>2, <1>5, <2>1, <3>1 DEF CallOK, AddOK
    <3>3. /\ Engaged(x) => albums'[x.album].status # "ABSENT"
          /\ AtCommit(x) => \E r \in albums'[x.album].rows : r.key = x.key
      BY <3>1 DEF CallOK, RemoveOK, Rows
    <3>4. AtUnstore(x) => (x.key \in UploadKey => ~OnRow(x.key)')
      BY <1>2, <3>1 DEF CallOK, RemoveOK
    <3> QED BY <3>1, <3>2, <3>3, <3>4, CallSurvives
  <2>2. \A d \in Calls \ {c} : Holding(calls[d]) => calls[d].key \notin Known(y)
    OBVIOUS
  <2> QED BY <2>1, <2>2, OneCallMoves DEF PicturesInv
<1>8. Accounted'
  <2>1. Accounted /\ Requests
    BY DEF PicturesInv
  <2>2. \A k : Dropped(k) => Dropped(k)'
    BY DEF Dropped
  <2> QED BY <1>2, <2>1, <2>2, AccountedStands
<1>9. Screens'
  <2>1. \A d \in Calls, t \in Tabs : calls'[d].tab = t =>
           calls[d].tab = t /\ calls'[d].op = calls[d].op /\ calls'[d].left = calls[d].left
    BY DEF PicturesInv, Requests
  <2> QED BY <2>1, ScreensStand DEF PicturesInv
<1> QED BY <1>6, <1>7, <1>8, <1>9, WholeStands DEF PicturesInv

\* The same for a call that is over with it.
LEMMA StoreEnds ==
  ASSUME PicturesInv, UNCHANGED <<albums, raced, tabs>>, lost \subseteq lost',
         minted' \in Nat, minted <= minted',
         NEW c \in Calls, NEW pc \in {"ok", "error"}, NEW body,
         calls' = [calls EXCEPT ![c] = Replied(c, pc, body)],
         calls[c].op = "pending" /\ pc = "ok" => body \in PendingKey,
         NEW own, own = calls[c].key,
         files \subseteq files' \/ (Hand(calls[c]) /\ files \ {own} \subseteq files'),
         \A k \in files' \ files : k \in lost' \/ Folder(k) \notin {"auction", "product"},
         Hand(calls[c]) => own \notin files' \/ own \in lost'
  PROVE  PicturesInv'
<1>1. PICK y : y = Replied(c, pc, body)
  OBVIOUS
<1>2. IsCall(calls[c])
  BY DEF PicturesInv, Requests, CallOK
<1>3. /\ IsCall(y) /\ y.pc \in {"idle", pc}
      /\ \A t \in Tabs : y.tab = t => y.tab = calls[c].tab /\ y.op = calls[c].op
                                      /\ y.left = calls[c].left
      /\ y.pc = "ok" => y.op = calls[c].op /\ y.body = body
  BY <1>1, <1>2, RepliedIs
<1>4. ~Holding(y) /\ ~Hand(y) /\ Known(y) = {} /\ ~AtCommit(y)
  BY <1>3, OverOK
<1>5. CallOK(y)'
  BY <1>3 DEF CallOK, Engaged, AddOK, RemoveOK, CreateOK, Holding, Known, Deleting, AtCommit, AtUnstore
<1> QED BY <1>1, <1>3, <1>4, <1>5, StoreStep

\* The next key is nobody's yet.
LEMMA NextKeyIsNew ==
  ASSUME PicturesInv, NEW k, k \in UploadKey, k[2] = minted + 1
  PROVE  /\ ~OnRow(k)
         /\ \A d \in Calls : k \notin Known(calls[d])
         /\ \A d \in Calls : Holding(calls[d]) => calls[d].key # k
<1>1. minted \in Nat
  BY DEF PicturesInv, Shelves
<1>2. ~Minted(k)
  BY <1>1 DEF Minted
<1> QED BY <1>2 DEF PicturesInv, Shelves, Requests, CallOK, AddOK, RemoveOK, OnRow

LEMMA UploadKeeps ==
  ASSUME PicturesInv, NEW c \in Calls, Upload(c), UNCHANGED tabs
  PROVE  PicturesInv'
<1>1. PICK x, key : x = calls[c] /\ key = FileKey(AlbumFolder(x.album), minted + 1)
  OBVIOUS
<1>2. minted \in Nat /\ minted' = minted + 1 /\ minted' \in Nat /\ minted <= minted'
  BY DEF Upload, PicturesInv, Shelves
<1>3. key \in UploadKey /\ key[2] = minted + 1
  BY <1>1, <1>2 DEF FileKey, UploadKey, AlbumFolder
<1>4. CallOK(x) /\ IsCall(x) /\ x.op = "add" /\ x.pc = "upload" /\ ~Hand(x)
  BY <1>1 DEF Upload, Is, PicturesInv, Requests, CallOK, Hand, Holding, AtUnstore
<1>5. PICK own : own = calls[c].key
  OBVIOUS
<1>6. CASE /\ files' = files \cup {key}
           /\ calls' = [calls EXCEPT ![c].pc = "begin", ![c].key = key]
           /\ lost' = lost
  <2>1. PICK y : y = [x EXCEPT !.pc = "begin", !.key = key]
    OBVIOUS
  <2>2. calls' = [calls EXCEPT ![c] = y]
    BY <1>1, <1>6, <2>1 DEF PicturesInv, Requests
  <2>3. IsCall(y) /\ y.pc = "begin" /\ y.op = "add" /\ y.key = key /\ y.tab = x.tab
        /\ y.album = x.album /\ y.left = x.left
    BY <1>4, <2>1 DEF IsCall, CallFields, NoCall
  <2>4. Known(y) = {} /\ ~AtCommit(y) /\ Hand(y)
    BY <2>3 DEF Known, Deleting, AtCommit, AtUnstore, Hand, Holding
  <2>5. CallOK(y)'
    <3>1. ~OnRow(key)' /\ Minted(key)'
      BY <1>2, <1>3, NextKeyIsNew DEF OnRow, Rows, Upload, Minted
    <3>2. AddOK(y)'
      BY <1>6, <2>3, <3>1 DEF AddOK, Holding
    <3> QED BY <1>4, <2>3, <3>2 DEF Upload, CallOK, Engaged, RemoveOK, CreateOK, Known, Deleting, AtCommit, AtUnstore
  <2>6. \A d \in Calls \ {c} :
           y.key \notin Known(calls[d]) /\ (Holding(calls[d]) => calls[d].key # y.key)
    BY <1>3, <2>3, NextKeyIsNew
  <2>7. \A k \in files' \ files : Hand(y) /\ y.key = k
    BY <1>6, <2>3, <2>4
  <2>8. \A t \in Tabs : y.tab = t =>
           calls[c].tab = t /\ y.op = calls[c].op /\ y.left = calls[c].left
    BY <1>1, <1>4, <2>3
  <2>9. UNCHANGED <<albums, raced, tabs>> /\ lost \subseteq lost' /\ files \subseteq files'
    BY <1>6 DEF Upload
  <2> QED BY <1>1, <1>2, <1>4, <1>5, <2>2, <2>4, <2>5, <2>6, <2>7, <2>8, <2>9, StoreStep
<1>7. CASE /\ \E stored \in {{}, {key}} : files' = files \cup stored /\ lost' = lost \cup stored
           /\ Refuse(c)
  <2>1. files \subseteq files' /\ lost \subseteq lost' /\ \A k \in files' \ files : k \in lost'
    BY <1>7
  <2>2. UNCHANGED <<albums, raced, tabs>> /\ calls' = [calls EXCEPT ![c] = Replied(c, "error", Null)]
    BY <1>7 DEF Upload, Refuse
  <2> QED BY <1>1, <1>2, <1>4, <1>5, <2>1, <2>2, StoreEnds
<1> QED BY <1>1, <1>6, <1>7 DEF Upload

LEMMA UploadPendingKeeps ==
  ASSUME PicturesInv, NEW c \in Calls, UploadPending(c), UNCHANGED tabs
  PROVE  PicturesInv'
<1>1. PICK key, own : key = FileKey("pending", minted + 1) /\ own = calls[c].key
  OBVIOUS
<1>2. minted \in Nat /\ key \in PendingKey
  BY <1>1 DEF PicturesInv, Shelves, FileKey, PendingKey
<1>3. ~Hand(calls[c])
  BY DEF UploadPending, Is, Hand, Holding, AtUnstore
<1>4. CASE minted' = minted + 1 /\ files' = files \cup {key} /\ Answer(c, key)
  <2>1. Folder(key) \notin {"auction", "product"}
    BY <1>2, KeysApart
  <2>2. files \subseteq files' /\ lost \subseteq lost' /\ minted' \in Nat /\ minted <= minted'
        /\ \A k \in files' \ files : Folder(k) \notin {"auction", "product"}
    BY <1>2, <1>4, <2>1 DEF UploadPending
  <2>3. UNCHANGED <<albums, raced, tabs>> /\ calls' = [calls EXCEPT ![c] = Replied(c, "ok", key)]
    BY <1>4 DEF UploadPending, Answer
  <2> QED BY <1>1, <1>2, <1>3, <2>2, <2>3, StoreEnds
<1>5. CASE Refuse(c) /\ UNCHANGED <<files, minted>>
  BY <1>3, <1>5, CallEnds DEF UploadPending, Refuse
<1> QED BY <1>1, <1>4, <1>5 DEF UploadPending

\* A call takes its file out of the store, or a fault leaves it there.
LEMMA DisposalKeeps ==
  ASSUME PicturesInv, NEW c \in Calls, Cleanup(c) \/ Unstore(c), UNCHANGED tabs
  PROVE  PicturesInv'
<1>1. PICK own : own = calls[c].key
  OBVIOUS
<1>2. minted \in Nat /\ minted' \in Nat /\ minted <= minted'
  BY DEF PicturesInv, Shelves, Cleanup, Unstore
<1>3. Hand(calls[c]) /\ calls[c].op # "pending"
  BY DEF Cleanup, Unstore, Is, Hand, Holding, AtUnstore
<1>4. PICK pc, body : /\ pc \in {"ok", "error"}
                      /\ calls' = [calls EXCEPT ![c] = Replied(c, pc, body)]
  BY DEF Cleanup, Unstore, Answer, Refuse
<1>5. /\ UNCHANGED <<albums, raced, tabs>> /\ lost \subseteq lost' /\ files \ {own} \subseteq files'
      /\ files' \ files = {}
      /\ own \notin files' \/ own \in lost'
  BY <1>1 DEF Cleanup, Unstore
<1> QED BY <1>1, <1>2, <1>3, <1>4, <1>5, StoreEnds

-----------------------------------------------------------------------------
(***************************************************************************)
(* Steps that write rows                                                   *)
(***************************************************************************)

\* Rows that call c may leave in album a: a row that is new carries a key no other call
\* has in mind, and a row another call is about to delete stands.
Fits(c, a, rows) ==
  /\ IsFiniteSet(rows)
  /\ \A r, s \in rows : r.key = s.key => r = s
  /\ \A r \in rows : r.key \in UploadKey =>
       /\ Minted(r.key) /\ r.url = r.key /\ r.key \in files
       /\ \A b \in Albums \ {a} : \A s \in Rows(b) : s.key # r.key
  /\ \A s \in rows :
       \/ \E r \in Rows(a) : r.key = s.key
       \/ \A d \in Calls \ {c} :
            /\ s.key \in UploadKey => /\ s.key \notin Known(calls[d])
                                      /\ Holding(calls[d]) => calls[d].key # s.key
            /\ AtCommit(calls[d]) /\ calls[d].album = a => s.key \notin Known(calls[d])
  /\ \A d \in Calls \ {c} : AtCommit(calls[d]) /\ calls[d].album = a =>
       \E r \in rows : r.key = calls[d].key

\* What the call becomes: it has given its own file a row, and the file of a row that
\* goes is in its hands or dropped.
Follows(c, y, a, rows, dropped) ==
  /\ ~Holding(y) /\ ~AtCommit(y)
  /\ \A d \in Calls \ {c} : Holding(calls[d]) => calls[d].key \notin Known(y)
  /\ \A r \in Rows(a) : \/ \E s \in rows : s.key = r.key
                        \/ Hand(y) /\ y.key = r.key
                        \/ r.key \in dropped
  /\ Hand(calls[c]) => \E s \in rows : s.key = calls[c].key
  /\ \A t \in Tabs : y.tab = t =>
       calls[c].tab = t /\ y.op = calls[c].op /\ y.left = calls[c].left

\* One album is rewritten by a call.
LEMMA AlbumStep ==
  ASSUME PicturesInv, UNCHANGED <<files, minted, lost, tabs>>,
         NEW c \in Calls, NEW y, calls' = [calls EXCEPT ![c] = y], CallOK(y)',
         NEW a \in Albums, NEW al \in Album, albums' = [albums EXCEPT ![a] = al],
         NEW rows, rows = al.rows, al.status # "ABSENT",
         Fits(c, a, rows), Follows(c, y, a, rows, al.dropped), albums[a].dropped \subseteq al.dropped,
         raced \subseteq raced', raced' \subseteq raced \cup {a}, a \notin raced' => Whole(al)
  PROVE  PicturesInv'
<1>1. /\ albums' \in [Albums -> Album] /\ albums'[a] = al
      /\ \A b \in Albums \ {a} : albums'[b] = albums[b]
  BY DEF PicturesInv, Shelves
<1>2. Rows(a)' = rows /\ \A b \in Albums \ {a} : Rows(b)' = Rows(b)
  BY <1>1 DEF Rows
<1>3. \A k : Minted(k)' = Minted(k)
  BY DEF Minted
<1>4. \A k : OnRow(k)' => OnRow(k) \/ \E s \in rows : s.key = k
  BY <1>2 DEF OnRow
<1>5. \A k : OnRow(k) => OnRow(k)' \/ Dropped(k)' \/ (Hand(y) /\ y.key = k)
  BY <1>1, <1>2 DEF OnRow, Dropped, Follows
<1>6. Shelves'
  <2>1. \A b \in Albums :
          /\ IsFiniteSet(Rows(b)')
          /\ albums'[b].status = "ABSENT" => Rows(b)' = {} /\ albums'[b].dropped = {}
          /\ \A r, s \in Rows(b)' : r.key = s.key => r = s
          /\ \A r \in Rows(b)' :
               r.key \in UploadKey => Minted(r.key) /\ r.url = r.key /\ r.key \in files
    BY <1>1, <1>2 DEF PicturesInv, Shelves, Fits
  <2>2. \A b1, b2 \in Albums : \A r \in Rows(b1)', s \in Rows(b2)' :
          r.key = s.key /\ r.key \in UploadKey => b1 = b2
    BY <1>2 DEF PicturesInv, Shelves, Fits
  <2> QED BY <1>1, <1>3, <2>1, <2>2 DEF PicturesInv, Shelves
<1>7. Requests'
  <2>1. ASSUME NEW d \in Calls \ {c}, NEW x, x = calls[d] PROVE CallOK(x)'
    <3>1. CallOK(x) /\ minted \in Nat /\ minted' \in Nat /\ minted <= minted'
      BY <2>1 DEF PicturesInv, Requests, Shelves
    <3>2. Holding(x) => x.key \in files' /\ ~OnRow(x.key)'
      <4>1. Holding(x) => x.key \in UploadKey /\ x.key \in files /\ ~OnRow(x.key)
        BY <3>1 DEF CallOK, AddOK, Minted
      <4> QED BY <1>4, <2>1, <4>1 DEF OnRow, Fits
    <3>3. Engaged(x) \/ Deleting(x) \/ AtCommit(x) => x.album \in Albums
      BY <3>1 DEF CallOK, Engaged, Deleting, AtCommit
    <3>4. Engaged(x) => albums'[x.album].status # "ABSENT"
      BY <1>1, <3>1, <3>3 DEF CallOK
    <3>5. AtCommit(x) => \E r \in albums'[x.album].rows : r.key = x.key
      BY <1>1, <2>1, <3>1, <3>3 DEF CallOK, RemoveOK, Rows, Fits
    <3>6. AtCommit(x) => \A k \in Known(x) : \A s \in albums'[x.album].rows :
                           s.key = k => \E r \in albums[x.album].rows : r.key = k
      BY <1>1, <2>1, <3>3 DEF Rows, Fits
    <3>7. AtUnstore(x) => (x.key \in UploadKey => ~OnRow(x.key)')
      <4>1. AtUnstore(x) => x.key \in Known(x)
        BY DEF AtUnstore, Known, Deleting
      <4>2. AtUnstore(x) /\ x.key \in UploadKey => ~OnRow(x.key)
        BY <3>1 DEF CallOK, RemoveOK
      <4>3. \A s \in rows : s.key \in UploadKey => OnRow(s.key) \/ s.key \notin Known(x)
        BY <2>1 DEF OnRow, Fits
      <4> QED BY <1>4, <4>1, <4>2, <4>3
    <3> QED BY <3>1, <3>2, <3>4, <3>5, <3>6, <3>7, CallSurvives
  <2> QED BY <2>1, OneCallMoves DEF PicturesInv, Follows
<1>8. Accounted'
  <2>1. PICK own : own = calls[c].key
    OBVIOUS
  <2>2. Accounted /\ Requests /\ files' \ files = {} /\ lost \subseteq lost'
    BY DEF PicturesInv
  <2>3. Hand(calls[c]) => OnRow(own)'
    BY <1>2, <2>1 DEF OnRow, Follows
  <2>4. \A k : OnRow(k) => \/ OnRow(k)' \/ Dropped(k)'
                           \/ Hand(y) /\ y.key = k
                           \/ Folder(k) \notin {"auction", "product"}
    BY <1>5
  <2>6. \A k : Dropped(k) => Dropped(k)'
    BY <1>1 DEF Dropped
  <2>5. \A k \in files' \ files : \/ Hand(y) /\ y.key = k
                                  \/ k \in lost'
                                  \/ Folder(k) \notin {"auction", "product"}
    BY <2>2
  <2> QED BY <2>1, <2>2, <2>3, <2>4, <2>5, <2>6, AccountedStands
<1>9. Screens'
  <2>1. \A d \in Calls, t \in Tabs : calls'[d].tab = t =>
           calls[d].tab = t /\ calls'[d].op = calls[d].op /\ calls'[d].left = calls[d].left
    BY DEF PicturesInv, Requests, Follows
  <2> QED BY <2>1, ScreensStand DEF PicturesInv
<1>10. AlbumsAreWholeUnlessRaced'
  <2>1. \A b \in Albums \ raced' : Whole(albums'[b])
    BY <1>1 DEF PicturesInv, AlbumsAreWholeUnlessRaced
  <2> QED BY <2>1 DEF AlbumsAreWholeUnlessRaced, Whole
<1> QED BY <1>6, <1>7, <1>8, <1>9, <1>10 DEF PicturesInv

Leads(rows) == {r \in rows : r.isPrimary}

\* Exactly one of some rows leads.
LEMMA OneLead ==
  ASSUME NEW rows, IsFiniteSet(rows)
  PROVE  Cardinality(Leads(rows)) = 1 <=> \E r : Leads(rows) = {r}
<1>1. IsFiniteSet(Leads(rows))
  BY FS_Subset DEF Leads
<1> QED BY <1>1, FS_Singleton

\* A row is added: the first one leads.
LEMMA RowAdded ==
  ASSUME NEW rows, IsFiniteSet(rows), NEW new, new.isPrimary = (rows = {}),
         Cardinality(rows) < MaxImages, rows # {} => Cardinality(Leads(rows)) = 1
  PROVE  /\ IsFiniteSet(rows \cup {new}) /\ Cardinality(rows \cup {new}) <= MaxImages
         /\ Cardinality(Leads(rows \cup {new})) = 1
<1>1. /\ IsFiniteSet(rows \cup {new}) /\ Cardinality(rows) \in Nat
      /\ Cardinality(rows \cup {new}) <= Cardinality(rows) + 1
      /\ Cardinality(rows \cup {new}) \in Nat
  BY FS_AddElement, FS_CardinalityType
<1>2. CASE rows = {}
  <2>1. Leads(rows \cup {new}) = {new}
    BY <1>2 DEF Leads
  <2>2. Cardinality(rows) = 0
    BY <1>2, FS_EmptySet
  <2> QED BY <1>1, <2>1, <2>2, OneLead, PicturesAssumption
<1>3. CASE rows # {}
  <2>1. Leads(rows \cup {new}) = Leads(rows)
    BY <1>3 DEF Leads
  <2> QED BY <1>1, <1>3, <2>1, PicturesAssumption
<1> QED BY <1>2, <1>3

\* What CommitRemove leaves of some rows.
Remaining(rows, key, next) ==
  {IF r.key = next THEN [r EXCEPT !.isPrimary = TRUE] ELSE r : r \in {s \in rows : s.key # key}}

LEMMA RemainingRows ==
  ASSUME NEW rows \in SUBSET ImageRow, IsFiniteSet(rows), NEW key, NEW next,
         \A r, s \in rows : r.key = s.key => r = s
  PROVE  /\ IsFiniteSet(Remaining(rows, key, next))
         /\ Cardinality(Remaining(rows, key, next)) <= Cardinality(rows)
         /\ Remaining(rows, key, next) \in SUBSET ImageRow
         /\ \A r \in Remaining(rows, key, next) :
              r.key # key /\ \E s \in rows : s.key = r.key /\ s.url = r.url
         /\ \A s \in rows : s.key # key => \E r \in Remaining(rows, key, next) : r.key = s.key
         /\ \A r, s \in Remaining(rows, key, next) : r.key = s.key => r = s
<1> DEFINE rest == {s \in rows : s.key # key}
           step(r) == IF r.key = next THEN [r EXCEPT !.isPrimary = TRUE] ELSE r
           f == [r \in rest |-> step(r)]
<1>1. \A r \in rest : step(r) \in ImageRow /\ step(r).key = r.key /\ step(r).url = r.url
  BY DEF ImageRow
<1>2. Remaining(rows, key, next) = {step(r) : r \in rest}
  BY DEF Remaining
<1> HIDE DEF step
<1>3. IsFiniteSet(rest) /\ Cardinality(rest) <= Cardinality(rows) /\ Cardinality(rest) \in Nat
      /\ Cardinality(rows) \in Nat
  BY FS_Subset, FS_CardinalityType
<1>4. f \in Surjection(rest, Remaining(rows, key, next))
  BY <1>2 DEF Surjection
<1>5. /\ IsFiniteSet(Remaining(rows, key, next))
      /\ Cardinality(Remaining(rows, key, next)) <= Cardinality(rest)
      /\ Cardinality(Remaining(rows, key, next)) \in Nat
  <2> HIDE DEF f, rest
  <2> QED BY <1>3, <1>4, FS_Surjection, FS_CardinalityType
<1>6. Remaining(rows, key, next) \in SUBSET ImageRow
  BY <1>1, <1>2
<1>7. \A r \in Remaining(rows, key, next) :
        r.key # key /\ \E s \in rows : s.key = r.key /\ s.url = r.url
  BY <1>1, <1>2
<1>8. \A s \in rows : s.key # key => \E r \in Remaining(rows, key, next) : r.key = s.key
  BY <1>1, <1>2
<1>9. \A r, s \in Remaining(rows, key, next) : r.key = s.key => r = s
  BY <1>1, <1>2
<1> QED BY <1>3, <1>5, <1>6, <1>7, <1>8, <1>9

\* A row is taken away: the one that is first leads if the one taken did.
LEMMA RowTaken ==
  ASSUME NEW rows \in SUBSET ImageRow, IsFiniteSet(rows), NEW read \in rows, NEW key, NEW next,
         read.key = key, \A r, s \in rows : r.key = s.key => r = s,
         next # Null => /\ read.isPrimary /\ next # key
                        /\ \E r \in rows : r.key = next,
         read.isPrimary /\ next = Null => \A r \in rows : r.key = key,
         Cardinality(Leads(rows)) = 1
  PROVE  LET left == Remaining(rows, key, next)
         IN  /\ left # {} => Cardinality(Leads(left)) = 1
             /\ Cardinality(rows) > 1 => left # {}
<1> DEFINE left == Remaining(rows, key, next)
<1>1. PICK lead : Leads(rows) = {lead}
  BY OneLead
<1>2. IsFiniteSet(left)
  BY RemainingRows
<1>3. \A r \in rows : r.key = key <=> r = read
  OBVIOUS
<1>4. CASE read.isPrimary /\ next = Null
  <2>1. rows = {read} /\ left = {}
    BY <1>3, <1>4 DEF Remaining
  <2>2. Cardinality(rows) = 1
    BY <2>1, FS_Singleton
  <2> QED BY <2>1, <2>2
<1>5. CASE read.isPrimary /\ next # Null
  <2>1. lead = read
    BY <1>1, <1>5 DEF Leads
  <2>2. PICK n \in rows : n.key = next /\ n # read
    BY <1>3, <1>5
  <2>3. PICK m : m = [n EXCEPT !.isPrimary = TRUE]
    OBVIOUS
  <2>4. m \in left /\ m.isPrimary
    <3>1. n.key # key
      BY <1>3, <2>2
    <3> QED BY <2>2, <2>3, <3>1 DEF Remaining, ImageRow
  <2>5. ASSUME NEW r \in left, r.isPrimary PROVE r = m
    <3>1. PICK s \in rows : /\ s.key # key
                            /\ r = IF s.key = next THEN [s EXCEPT !.isPrimary = TRUE] ELSE s
      BY DEF Remaining
    <3>2. s.key = next
      <4> SUFFICES ASSUME s.key # next PROVE FALSE
        OBVIOUS
      <4>1. s \in Leads(rows)
        BY <2>5, <3>1 DEF Leads
      <4> QED BY <1>1, <2>1, <3>1, <4>1
    <3>3. s = n
      BY <2>2, <3>2
    <3> QED BY <2>3, <3>1, <3>2, <3>3
  <2>6. Leads(left) = {m}
    BY <2>4, <2>5 DEF Leads
  <2> QED BY <1>2, <2>4, <2>6, OneLead
<1>6. CASE ~read.isPrimary
  <2>1. next = Null /\ \A r \in rows : r.key # next
    BY <1>6, KeysApart DEF ImageRow
  <2>2. left = rows \ {read}
    BY <1>3, <2>1 DEF Remaining
  <2>3. Leads(left) = {lead}
    BY <1>1, <1>6, <2>2 DEF Leads
  <2>4. left # {}
    BY <2>3 DEF Leads
  <2> QED BY <1>2, <2>3, <2>4, OneLead
<1>7. read.isPrimary \in BOOLEAN
  BY DEF ImageRow
<1> QED BY <1>4, <1>5, <1>6, <1>7

\* A commit that is not raced finds the album its transaction read.
LEMMA RacedIs ==
  ASSUME NEW c \in Calls, NEW a, Raced(c, a)
  PROVE  /\ raced \subseteq raced' /\ raced' \subseteq raced \cup {a}
         /\ a \notin raced' => a \notin raced /\ albums[a] = calls[c].seen
BY DEF Raced

\* What an answered call is afterwards.
LEMMA AnsweredCall ==
  ASSUME NEW c \in Calls, IsCall(calls[c]), calls[c].op # "pending", NEW body, NEW y,
         y = Replied(c, "ok", body)
  PROVE  /\ CallOK(y)' /\ ~Holding(y) /\ ~Hand(y) /\ Known(y) = {} /\ ~AtCommit(y)
         /\ \A t \in Tabs : y.tab = t =>
              calls[c].tab = t /\ y.op = calls[c].op /\ y.left = calls[c].left
<1>1. /\ IsCall(y) /\ y.pc \in {"idle", "ok"}
      /\ \A t \in Tabs : y.tab = t => y.tab = calls[c].tab /\ y.op = calls[c].op
                                      /\ y.left = calls[c].left
      /\ y.pc = "ok" => y.op = calls[c].op /\ y.body = body
  BY RepliedIs
<1>2. ~Holding(y) /\ ~Hand(y) /\ Known(y) = {} /\ ~AtCommit(y)
  BY <1>1, OverOK
<1>3. CallOK(y)'
  BY <1>1 DEF CallOK, Engaged, AddOK, RemoveOK, CreateOK, Holding, Known, Deleting, AtCommit, AtUnstore
<1> QED BY <1>1, <1>2, <1>3

LEMMA InsertRowKeeps ==
  ASSUME PicturesInv, NEW c \in Calls, InsertRow(c), UNCHANGED tabs
  PROVE  PicturesInv'
<1>1. PICK x, a, key, new, rows :
        /\ x = calls[c] /\ a = x.album /\ key = x.key
        /\ new = Image(key, key, x.read.position, x.read.isPrimary)
        /\ rows = Rows(a) \cup {new}
  OBVIOUS
<1>2. CallOK(x) /\ IsCall(x) /\ x.op = "add" /\ x.pc = "insert" /\ a \in Albums
  BY <1>1 DEF PicturesInv, Requests, CallOK, InsertRow, Is
<1>3. Holding(x) /\ Engaged(x)
  BY <1>2 DEF Holding, Engaged
<1>4. Minted(key) /\ key \in UploadKey /\ key \in files /\ ~OnRow(key) /\ albums[a].status # "ABSENT"
  BY <1>1, <1>2, <1>3 DEF CallOK, AddOK, Minted
<1>5. CASE Goto(c, "cleanup") /\ UNCHANGED <<albums, raced>>
  <2>1. calls[c].op = "add" /\ calls[c].pc \in {"begin", "insert"}
    BY <1>1, <1>2
  <2> QED BY <1>5, <2>1, CallGoesOn DEF InsertRow
<1>6. CASE albums' = [albums EXCEPT ![a].rows = rows] /\ Raced(c, a) /\ Answer(c, rows)
  <2>1. PICK y, al : y = Replied(c, "ok", rows) /\ al = [albums[a] EXCEPT !.rows = rows]
    OBVIOUS
  <2>2. calls' = [calls EXCEPT ![c] = y] /\ albums' = [albums EXCEPT ![a] = al]
    BY <1>6, <2>1 DEF Answer, PicturesInv, Shelves
  <2>3. /\ CallOK(y)' /\ ~Holding(y) /\ ~AtCommit(y) /\ Known(y) = {}
        /\ \A t \in Tabs : y.tab = t =>
             calls[c].tab = t /\ y.op = calls[c].op /\ y.left = calls[c].left
    BY <1>1, <1>2, <2>1, AnsweredCall
  <2>4. x.read.position \in Nat /\ x.read.isPrimary = (x.seen.rows = {})
        /\ Cardinality(x.seen.rows) < MaxImages
    BY <1>2 DEF CallOK, AddOK
  <2>5. new \in ImageRow /\ new.key = key /\ new.url = key /\ new.isPrimary = x.read.isPrimary
    BY <1>1, <1>4, <2>4 DEF Image, ImageRow, Key
  <2>6. /\ al \in Album /\ rows = al.rows /\ al.status = albums[a].status
        /\ al.dropped = albums[a].dropped
    BY SMTT(60), <1>1, <1>2, <2>1, <2>5 DEF PicturesInv, Shelves, Album, Rows
  <2>7. IsFiniteSet(rows)
    BY <1>1, <1>2, FS_AddElement DEF PicturesInv, Shelves
  <2>8. \A b \in Albums : \A r \in Rows(b) : r.key # key
    BY <1>4 DEF OnRow
  <2>9. \A r, s \in rows : r.key = s.key => r = s
    BY <1>1, <1>2, <2>5, <2>8 DEF PicturesInv, Shelves
  <2>10. \A r \in rows : r.key \in UploadKey =>
           /\ Minted(r.key) /\ r.url = r.key /\ r.key \in files
           /\ \A b \in Albums \ {a} : \A s \in Rows(b) : s.key # r.key
    BY <1>1, <1>2, <1>4, <2>5, <2>8 DEF PicturesInv, Shelves
  <2>11. \A d \in Calls \ {c} :
           key \notin Known(calls[d]) /\ (Holding(calls[d]) => calls[d].key # key)
    BY <1>1, <1>3 DEF PicturesInv, Requests
  <2>12. \A s \in rows :
           \/ \E r \in Rows(a) : r.key = s.key
           \/ \A d \in Calls \ {c} :
                /\ s.key \in UploadKey => /\ s.key \notin Known(calls[d])
                                          /\ Holding(calls[d]) => calls[d].key # s.key
                /\ AtCommit(calls[d]) /\ calls[d].album = a => s.key \notin Known(calls[d])
    BY <1>1, <2>5, <2>11
  <2>13. \A d \in Calls \ {c} : AtCommit(calls[d]) /\ calls[d].album = a =>
           \E r \in rows : r.key = calls[d].key
    BY <1>1 DEF PicturesInv, Requests, CallOK, RemoveOK
  <2>14. \A r \in Rows(a) : \E s \in rows : s.key = r.key
    BY <1>1
  <2>15. \E s \in rows : s.key = calls[c].key
    BY <1>1, <2>5
  <2>16. /\ raced \subseteq raced' /\ raced' \subseteq raced \cup {a}
         /\ a \notin raced' => a \notin raced /\ albums[a] = x.seen
    BY <1>1, <1>6, RacedIs
  <2>17. a \notin raced' => Whole(al)
    <3> SUFFICES ASSUME a \notin raced' PROVE Whole(al)
      OBVIOUS
    <3>1. Whole(albums[a]) /\ albums[a].rows = x.seen.rows /\ IsFiniteSet(Rows(a))
      BY <1>2, <2>16 DEF PicturesInv, AlbumsAreWholeUnlessRaced, Shelves
    <3>2. /\ new.isPrimary = (Rows(a) = {}) /\ Cardinality(Rows(a)) < MaxImages
          /\ Rows(a) # {} => Cardinality(Leads(Rows(a))) = 1
      BY <2>4, <2>5, <3>1 DEF Whole, Rows, Leads
    <3>3. Cardinality(rows) <= MaxImages /\ Cardinality(Leads(rows)) = 1
      BY <1>1, <3>1, <3>2, RowAdded
    <3> QED BY <1>1, <2>6, <3>3 DEF Whole, Leads
  <2>18. UNCHANGED <<files, minted, lost, tabs>> /\ al.status # "ABSENT"
    BY <1>4, <2>6 DEF InsertRow
  <2>19. Fits(c, a, rows)
    BY <2>7, <2>9, <2>10, <2>12, <2>13 DEF Fits
  <2>20. Follows(c, y, a, rows, al.dropped)
    BY <2>3, <2>14, <2>15 DEF Follows
  <2> QED BY <1>2, <2>2, <2>3, <2>6, <2>16, <2>17, <2>18, <2>19, <2>20, AlbumStep
<1> QED BY <1>1, <1>5, <1>6 DEF InsertRow

LEMMA CommitRemoveKeeps ==
  ASSUME PicturesInv, NEW c \in Calls, CommitRemove(c), UNCHANGED tabs
  PROVE  PicturesInv'
<1>1. PICK x, a, key, next, rows :
        /\ x = calls[c] /\ a = x.album /\ key = x.key /\ next = x.next
        /\ rows = Remaining(Rows(a), key, next)
  OBVIOUS
<1>2. CallOK(x) /\ IsCall(x) /\ x.op = "remove" /\ x.pc = "commit" /\ a \in Albums
  BY <1>1 DEF PicturesInv, Requests, CallOK, CommitRemove, Is
<1>3. AtCommit(x) /\ Deleting(x) /\ Engaged(x) /\ ~Hand(x) /\ Known(x) = {r.key : r \in x.seen.rows}
  BY <1>2 DEF AtCommit, Deleting, Engaged, Hand, Holding, AtUnstore, Known
<1>4. AfterRemoval(c) = rows
  BY <1>1 DEF AfterRemoval, Remaining
<1>5. CASE Refuse(c) /\ UNCHANGED <<albums, raced>>
  BY <1>1, <1>2, <1>3, <1>5, CallEnds DEF CommitRemove, Refuse
<1>6. CASE /\ next # Null => HasRow(a, next)
           /\ albums' = [albums EXCEPT ![a].rows = rows] /\ Raced(c, a)
           /\ calls' = [calls EXCEPT ![c].pc = "unstore", ![c].body = rows]
  <2>1. PICK y, al : y = [x EXCEPT !.pc = "unstore", !.body = rows]
                     /\ al = [albums[a] EXCEPT !.rows = rows]
    OBVIOUS
  <2>2. calls' = [calls EXCEPT ![c] = y] /\ albums' = [albums EXCEPT ![a] = al]
    BY <1>1, <1>6, <2>1 DEF PicturesInv, Shelves, Requests
  <2>3. IsCall(y) /\ y.pc = "unstore" /\ y.op = "remove" /\ y.key = key /\ y.album = a
        /\ y.tab = x.tab /\ y.left = x.left
    BY <1>1, <1>2, <2>1 DEF IsCall, CallFields, NoCall
  <2>4. /\ ~Holding(y) /\ ~AtCommit(y) /\ ~Deleting(y) /\ ~Engaged(y) /\ AtUnstore(y) /\ Hand(y)
        /\ Known(y) = {key}
    BY <2>3 DEF Known, Deleting, Holding, AtCommit, AtUnstore, Engaged, Hand
  <2>5. key \in Known(x) /\ (key \in UploadKey => Minted(key))
    BY <1>1, <1>2, <1>3 DEF CallOK, RemoveOK
  <2>6. /\ Rows(a) \in SUBSET ImageRow /\ IsFiniteSet(Rows(a))
        /\ \A r, s \in Rows(a) : r.key = s.key => r = s
    BY <1>2 DEF PicturesInv, Shelves, Rows, Album
  <2>7. /\ IsFiniteSet(rows) /\ Cardinality(rows) <= Cardinality(Rows(a))
        /\ rows \in SUBSET ImageRow
        /\ \A r \in rows : r.key # key /\ \E s \in Rows(a) : s.key = r.key /\ s.url = r.url
        /\ \A s \in Rows(a) : s.key # key => \E r \in rows : r.key = s.key
        /\ \A r, s \in rows : r.key = s.key => r = s
    BY <1>1, <2>6, RemainingRows
  <2>8. /\ al \in Album /\ rows = al.rows /\ al.status = albums[a].status
        /\ al.dropped = albums[a].dropped /\ al.listed = albums[a].listed /\ al.listed \in Nat
    BY <1>2, <2>1, <2>7 DEF PicturesInv, Shelves, Album
  <2>9. al.status # "ABSENT"
    BY <1>1, <1>2, <1>3, <2>8 DEF CallOK
  <2>10. \A r \in rows : r.key \in UploadKey =>
           /\ Minted(r.key) /\ r.url = r.key /\ r.key \in files
           /\ \A b \in Albums \ {a} : \A s \in Rows(b) : s.key # r.key
    BY <1>2, <2>7 DEF PicturesInv, Shelves
  <2>11. key \in UploadKey => ~OnRow(key)'
    <3>1. \A b \in Albums \ {a} : Rows(b)' = Rows(b)
      BY <2>2 DEF Rows, PicturesInv, Shelves
    <3>2. Rows(a)' = rows
      BY <1>2, <2>2, <2>8 DEF Rows, PicturesInv, Shelves
    <3>3. \E r \in Rows(a) : r.key = key
      BY <1>1, <1>2, <1>3 DEF CallOK, RemoveOK
    <3>4. key \in UploadKey => \A b \in Albums \ {a} : \A s \in Rows(b) : s.key # key
      BY <1>2, <3>3 DEF PicturesInv, Shelves
    <3> QED BY <2>7, <3>1, <3>2, <3>4 DEF OnRow
  <2>12. CallOK(y)'
    <3>1. Minted(key)' = Minted(key)
      BY DEF Minted, CommitRemove
    <3>2. RemoveOK(y)'
      BY <2>3, <2>4, <2>5, <2>11, <3>1 DEF RemoveOK
    <3> QED BY <1>2, <2>3, <2>4, <3>2 DEF CallOK, AddOK, CreateOK
  <2>13. \A d \in Calls \ {c} : AtCommit(calls[d]) /\ calls[d].album = a =>
           \E r \in rows : r.key = calls[d].key
    <3> SUFFICES ASSUME NEW d \in Calls \ {c}, AtCommit(calls[d]), calls[d].album = a
                 PROVE  \E r \in rows : r.key = calls[d].key
      OBVIOUS
    <3>1. calls[d].key # key
      BY <1>1, <1>3 DEF PicturesInv, Requests
    <3>2. \E r \in Rows(a) : r.key = calls[d].key
      BY DEF PicturesInv, Requests, CallOK, RemoveOK
    <3> QED BY <2>7, <3>1, <3>2
  <2>14. \A d \in Calls \ {c} : Holding(calls[d]) => calls[d].key \notin Known(y)
    BY <1>1, <2>4, <2>5 DEF PicturesInv, Requests
  <2>15. \A r \in Rows(a) : (\E s \in rows : s.key = r.key) \/ (Hand(y) /\ y.key = r.key)
    BY <2>3, <2>4, <2>7
  <2>16. /\ raced \subseteq raced' /\ raced' \subseteq raced \cup {a}
         /\ a \notin raced' => a \notin raced /\ albums[a] = x.seen
    BY <1>1, <1>6, RacedIs
  <2>17. a \notin raced' => Whole(al)
    <3> SUFFICES ASSUME a \notin raced' PROVE Whole(al)
      OBVIOUS
    <3>1. Whole(albums[a]) /\ x.seen = albums[a] /\ x.seen.rows = Rows(a)
      BY <1>2, <2>16 DEF PicturesInv, AlbumsAreWholeUnlessRaced, Rows
    <3>2. /\ x.read \in Rows(a) /\ x.read.key = key
          /\ albums[a].status = IF a \in Drafts THEN "DRAFT" ELSE "ACTIVE"
          /\ a \in Listings => Cardinality(Rows(a)) > 1
      BY <1>1, <1>2, <1>3, <3>1 DEF CallOK, RemoveOK
    <3>3. /\ next # Null => x.read.isPrimary /\ next # key /\ \E r \in Rows(a) : r.key = next
          /\ x.read.isPrimary /\ next = Null => \A r \in Rows(a) : r.key = key
      BY <1>1, <1>2, <1>3, <1>6, <3>1 DEF CallOK, RemoveOK, HasRow
    <3>4. /\ Cardinality(Leads(Rows(a))) = 1
          /\ Cardinality(Rows(a)) <= MaxImages \/ Cardinality(Rows(a)) <= al.listed
      BY <2>8, <3>1, <3>2 DEF Whole, Leads, Rows
    <3>5. /\ rows # {} => Cardinality(Leads(rows)) = 1
          /\ Cardinality(Rows(a)) > 1 => rows # {}
      BY SMTT(60), <1>1, <2>6, <3>2, <3>3, <3>4, RowTaken
    <3>6. Cardinality(rows) <= MaxImages \/ Cardinality(rows) <= al.listed
      BY <2>6, <2>7, <2>8, <3>4, FS_CardinalityType, PicturesAssumption
    <3>7. al.status \in {"ACTIVE", "SCHEDULED"} => rows # {}
      BY <1>2, <2>8, <3>2, <3>5 DEF Albums
    <3> QED BY <2>8, <3>5, <3>6, <3>7 DEF Whole, Leads
  <2>18. UNCHANGED <<files, minted, lost, tabs>>
    BY DEF CommitRemove
  <2>19. \A t \in Tabs : y.tab = t =>
           calls[c].tab = t /\ y.op = calls[c].op /\ y.left = calls[c].left
    BY <1>1, <1>2, <2>3
  <2>20. \A s \in rows :
           \/ \E r \in Rows(a) : r.key = s.key
           \/ \A d \in Calls \ {c} :
                /\ s.key \in UploadKey => /\ s.key \notin Known(calls[d])
                                          /\ Holding(calls[d]) => calls[d].key # s.key
                /\ AtCommit(calls[d]) /\ calls[d].album = a => s.key \notin Known(calls[d])
    BY <2>7
  <2>21. IsFiniteSet(rows) /\ \A r, s \in rows : r.key = s.key => r = s
    BY <2>7
  <2>22. Fits(c, a, rows)
    BY <2>10, <2>13, <2>20, <2>21 DEF Fits
  <2>23. Follows(c, y, a, rows, al.dropped)
    BY <1>1, <1>3, <2>4, <2>14, <2>15, <2>19 DEF Follows
  <2> QED BY <1>2, <2>2, <2>8, <2>9, <2>12, <2>16, <2>17, <2>18, <2>22, <2>23, AlbumStep
<1> QED BY <1>1, <1>4, <1>5, <1>6 DEF CommitRemove

LEMMA PublishDraftKeeps ==
  ASSUME PicturesInv, NEW c \in Calls, PublishDraft(c), UNCHANGED tabs
  PROVE  PicturesInv'
<1>1. PICK x, a, rows : x = calls[c] /\ a = x.album /\ rows = Rows(a)
  OBVIOUS
<1>2. CallOK(x) /\ IsCall(x) /\ x.op = "publish" /\ x.pc = "publish" /\ a \in Albums /\ ~Hand(x)
  BY <1>1 DEF PicturesInv, Requests, CallOK, PublishDraft, Is, Hand, Holding, AtUnstore
<1>3. CASE Refuse(c) /\ UNCHANGED <<albums, raced>>
  BY <1>1, <1>2, <1>3, CallEnds DEF PublishDraft, Refuse
<1>4. CASE albums' = [albums EXCEPT ![a].status = "SCHEDULED"] /\ Raced(c, a) /\ Answer(c, a)
  <2>1. PICK y, al : y = Replied(c, "ok", a) /\ al = [albums[a] EXCEPT !.status = "SCHEDULED"]
    OBVIOUS
  <2>2. calls' = [calls EXCEPT ![c] = y] /\ albums' = [albums EXCEPT ![a] = al]
    BY <1>4, <2>1 DEF Answer, PicturesInv, Shelves
  <2>3. /\ CallOK(y)' /\ ~Holding(y) /\ ~AtCommit(y) /\ Known(y) = {}
        /\ \A t \in Tabs : y.tab = t =>
             calls[c].tab = t /\ y.op = calls[c].op /\ y.left = calls[c].left
    BY <1>1, <1>2, <2>1, AnsweredCall
  <2>4. /\ al \in Album /\ rows = al.rows /\ al.status = "SCHEDULED" /\ al.status # "ABSENT"
        /\ al.dropped = albums[a].dropped /\ al.listed = albums[a].listed
    BY <1>1, <1>2, <2>1 DEF PicturesInv, Shelves, Album, AlbumStatus, Rows
  <2>5. Fits(c, a, rows)
    <3>1. \A r \in rows : r.key \in UploadKey =>
            \A b \in Albums \ {a} : \A s \in Rows(b) : s.key # r.key
      BY <1>1, <1>2 DEF PicturesInv, Shelves
    <3>2. \A d \in Calls \ {c} : AtCommit(calls[d]) /\ calls[d].album = a =>
            \E r \in rows : r.key = calls[d].key
      BY <1>1 DEF PicturesInv, Requests, CallOK, RemoveOK
    <3>3. /\ IsFiniteSet(rows)
          /\ \A r, s \in rows : r.key = s.key => r = s
          /\ \A r \in rows : r.key \in UploadKey => Minted(r.key) /\ r.url = r.key /\ r.key \in files
      BY <1>1, <1>2 DEF PicturesInv, Shelves
    <3> QED BY <1>1, <3>1, <3>2, <3>3 DEF Fits
  <2>6. Follows(c, y, a, rows, al.dropped)
    BY <1>1, <1>2, <2>3 DEF Follows
  <2>7. /\ raced \subseteq raced' /\ raced' \subseteq raced \cup {a}
        /\ a \notin raced' => a \notin raced /\ albums[a] = x.seen
    BY <1>1, <1>4, RacedIs
  <2>8. a \notin raced' => Whole(al)
    <3>1. x.seen.rows # {}
      BY <1>2 DEF CallOK
    <3>2. a \notin raced' => Whole(albums[a]) /\ rows # {}
      BY <1>1, <1>2, <2>7, <3>1 DEF PicturesInv, AlbumsAreWholeUnlessRaced, Rows
    <3> QED BY <1>1, <2>4, <3>2 DEF Whole, Rows
  <2>9. UNCHANGED <<files, minted, lost, tabs>>
    BY DEF PublishDraft
  <2> QED BY <1>2, <2>2, <2>3, <2>4, <2>5, <2>6, <2>7, <2>8, <2>9, AlbumStep
<1> QED BY <1>1, <1>3, <1>4 DEF PublishDraft

LEMMA IntervalSize ==
  ASSUME NEW n \in Nat
  PROVE  IsFiniteSet(1 .. n) /\ Cardinality(1 .. n) = n
<1>1. CASE n = 0
  BY <1>1, FS_Interval
<1>2. CASE n > 0
  BY <1>2, FS_Interval
<1> QED BY <1>1, <1>2

\* Rows written from a list: as many as its addresses, the first one leading, under keys
\* of their own.
AreListed(rows, urls) ==
  /\ rows \in SUBSET ImageRow /\ IsFiniteSet(rows)
  /\ Cardinality(rows) <= Len(urls)
  /\ urls # <<>> => rows # {}
  /\ rows # {} => Cardinality(Leads(rows)) = 1
  /\ \A r \in rows : r.key \notin UploadKey
  /\ \A r, s \in rows : r.key = s.key => r = s

LEMMA ListedRowsFit ==
  ASSUME NEW a \in Albums, NEW m \in Nat, NEW urls \in Seq(Key), NEW claimed,
         claimed \subseteq DOMAIN urls,
         \A i \in claimed : urls[i] \in PendingKey /\ \A j \in 1 .. i - 1 : urls[j] # urls[i]
  PROVE  AreListed(ListedRows(a, m, urls, claimed), urls)
<1> DEFINE rows == ListedRows(a, m, urls, claimed)
           n == Len(urls)
           key(i) == IF i \in claimed THEN urls[i] ELSE InventedKey(a, m, i)
           row(i) == Image(key(i), urls[i], i - 1, i = 1)
           f == [i \in 1 .. n |-> row(i)]
<1>1. n \in Nat /\ DOMAIN urls = 1 .. n /\ \A i \in 1 .. n : urls[i] \in Key
  OBVIOUS
<1>2. rows = {row(i) : i \in 1 .. n}
  BY <1>1 DEF ListedRows
<1>3. \A i \in 1 .. n : key(i) \in Key /\ key(i) \notin UploadKey
  BY <1>1 DEF Key, InventedKey, PendingKey, UploadKey
<1>4. \A i, j \in 1 .. n : key(i) = key(j) => i = j
  <2> SUFFICES ASSUME NEW i \in 1 .. n, NEW j \in 1 .. n, key(i) = key(j), i < j PROVE FALSE
    BY <1>1
  <2>1. CASE j \in claimed
    <3>1. urls[i] # urls[j]
      BY <1>1, <2>1
    <3>2. key(i) = urls[i] \/ key(i) = InventedKey(a, m, i)
      OBVIOUS
    <3>3. urls[j] \in PendingKey /\ InventedKey(a, m, i) \notin PendingKey
      BY <1>1, <2>1 DEF InventedKey, PendingKey
    <3> QED BY <2>1, <3>1, <3>2, <3>3
  <2>2. CASE j \notin claimed
    <3>1. InventedKey(a, m, i) # InventedKey(a, m, j)
      BY <1>1 DEF InventedKey
    <3>2. InventedKey(a, m, j) \notin PendingKey
      BY <1>1 DEF InventedKey, PendingKey
    <3>3. key(i) \in PendingKey \/ key(i) = InventedKey(a, m, i)
      OBVIOUS
    <3> QED BY <2>2, <3>1, <3>2, <3>3
  <2> QED BY <2>1, <2>2
<1> HIDE DEF key
<1>5. \A i \in 1 .. n : /\ row(i) \in ImageRow /\ row(i).key = key(i)
                        /\ row(i).isPrimary = (i = 1)
  BY <1>1, <1>3 DEF Image, ImageRow, Key
<1> HIDE DEF row
<1>6. rows \in SUBSET ImageRow /\ (\A r \in rows : r.key \notin UploadKey)
  BY <1>1, <1>2, <1>3, <1>5
<1>7. n >= 1 => rows # {}
  BY <1>1, <1>2
<1>8. \A r, s \in rows : r.key = s.key => r = s
  BY <1>2, <1>4, <1>5
<1>9. IsFiniteSet(rows) /\ Cardinality(rows) <= n
  <2>1. f \in Surjection(1 .. n, rows)
    BY <1>2 DEF Surjection
  <2>2. IsFiniteSet(1 .. n) /\ Cardinality(1 .. n) = n
    <3> HIDE DEF n
    <3> QED BY <1>1, IntervalSize
  <2>3. IsFiniteSet(rows) /\ Cardinality(rows) <= n
    <3> HIDE DEF f, rows, n
    <3> QED BY <2>1, <2>2, FS_Surjection
  <2> QED BY <2>3
<1>10. ASSUME n >= 1 PROVE Cardinality(Leads(rows)) = 1
  <2>1. row(1) \in rows /\ row(1).isPrimary
    <3>1. 1 \in 1 .. n
      <4> HIDE DEF n
      <4> QED BY <1>1, <1>10
    <3>2. row(1).isPrimary = (1 = 1)
      BY <1>5, <3>1
    <3> QED BY <1>2, <3>1, <3>2
  <2>2. ASSUME NEW r \in rows, r.isPrimary PROVE r = row(1)
    <3>1. PICK i \in 1 .. n : r = row(i)
      BY <1>2
    <3> QED BY <1>5, <2>2, <3>1
  <2>3. Leads(rows) = {row(1)}
    BY <2>1, <2>2 DEF Leads
  <2> QED BY <1>9, <2>3, OneLead
<1>11. n = 0 => rows = {}
  <2> HIDE DEF n, row
  <2> QED BY <1>2
<1>12. n >= 1 \/ n = 0
  BY <1>1
<1>13. urls # <<>> => n >= 1
  BY EmptySeq
<1> HIDE DEF rows
<1>14. AreListed(rows, urls)
  BY <1>6, <1>8, <1>9, <1>10, <1>7, <1>11, <1>12, <1>13 DEF AreListed
<1> QED BY <1>14 DEF rows

LEMMA CreateListingKeeps ==
  ASSUME PicturesInv, NEW c \in Calls, CreateListing(c), UNCHANGED tabs
  PROVE  PicturesInv'
<1>1. PICK x : x = calls[c]
  OBVIOUS
<1>2. CallOK(x) /\ IsCall(x) /\ x.op \in {"create", "post"} /\ x.pc = "create" /\ ~Hand(x)
  BY <1>1 DEF PicturesInv, Requests, CallOK, CreateListing, Is, Hand, Holding, AtUnstore
<1>3. CASE Refuse(c) /\ UNCHANGED albums
  BY <1>1, <1>2, <1>3, CallEnds DEF CreateListing, Refuse
<1>4. ASSUME NEW a \in Listings, albums[a].status = "ABSENT", Answer(c, a),
             albums' = [albums EXCEPT ![a] = NewListing(c, a)]
      PROVE  PicturesInv'
  <2>1. PICK y, al, rows, listed :
          /\ y = Replied(c, "ok", a) /\ rows = ListedRows(a, 0, x.urls, x.read)
          /\ listed = IF x.op = "post" THEN Len(x.urls) ELSE 0
          /\ al = [status |-> "ACTIVE", rows |-> rows, lists |-> 0, listed |-> listed,
                   dropped |-> {}]
    OBVIOUS
  <2>2. calls' = [calls EXCEPT ![c] = y] /\ albums' = [albums EXCEPT ![a] = al] /\ a \in Albums
    BY <1>1, <1>4, <2>1 DEF Answer, Albums, NewListing
  <2>3. /\ CallOK(y)' /\ ~Holding(y) /\ ~AtCommit(y) /\ Known(y) = {}
        /\ \A t \in Tabs : y.tab = t =>
             calls[c].tab = t /\ y.op = calls[c].op /\ y.left = calls[c].left
    BY <1>1, <1>2, <2>1, AnsweredCall
  <2>4. /\ AreListed(rows, x.urls) /\ Len(x.urls) \in Nat /\ x.urls # <<>>
        /\ x.op = "create" => Len(x.urls) <= MaxImages
    <3>1. /\ x.urls \in Seq(PendingKey) /\ x.urls # <<>> /\ x.read \subseteq DOMAIN x.urls
          /\ x.op = "create" => Len(x.urls) <= MaxImages
          /\ \A i \in x.read : \A j \in 1 .. i - 1 : x.urls[j] # x.urls[i]
      BY <1>2 DEF CallOK, CreateOK
    <3>2. PICK urls, claimed : urls = x.urls /\ claimed = x.read
      OBVIOUS
    <3>3. urls \in Seq(Key) /\ \A i \in claimed : urls[i] \in PendingKey
      BY <3>1, <3>2 DEF Key
    <3>4. AreListed(ListedRows(a, 0, urls, claimed), urls)
      BY <2>2, <3>1, <3>2, <3>3, ListedRowsFit
    <3> QED BY <2>1, <3>1, <3>2, <3>4
  <2>5. /\ al \in Album /\ rows = al.rows /\ al.status = "ACTIVE" /\ al.status # "ABSENT"
        /\ al.listed = listed /\ al.dropped = {}
    BY <2>1, <2>4 DEF Album, AlbumStatus, AreListed
  <2>6. \A d \in Calls : ~(Deleting(calls[d]) /\ calls[d].album = a)
    BY <1>4 DEF PicturesInv, Requests, CallOK, Engaged
  <2>7. \A d \in Calls : ~(AtCommit(calls[d]) /\ calls[d].album = a)
    BY <2>6 DEF AtCommit, Deleting
  <2>8. Fits(c, a, rows)
    BY <2>4, <2>7 DEF Fits, AreListed
  <2>9. Rows(a) = {}
    BY <1>4, <2>2 DEF PicturesInv, Shelves
  <2>10. Follows(c, y, a, rows, al.dropped)
    BY <1>1, <1>2, <2>3, <2>9 DEF Follows
  <2>11. Whole(al)
    <3>1. Cardinality(rows) \in Nat /\ Cardinality(rows) <= Len(x.urls)
      BY <2>4, FS_CardinalityType DEF AreListed
    <3>2. Cardinality(rows) <= MaxImages \/ Cardinality(rows) <= listed
      <4>1. CASE x.op = "post"
        BY <2>1, <3>1, <4>1
      <4>2. CASE x.op = "create"
        BY <2>4, <3>1, <4>2, PicturesAssumption
      <4> QED BY <1>2, <4>1, <4>2
    <3> QED BY <2>4, <2>5, <3>2 DEF Whole, Leads, AreListed
  <2>12. albums[a].dropped \subseteq al.dropped
    BY <1>4, <2>2 DEF PicturesInv, Shelves
  <2>13. UNCHANGED <<files, minted, lost, tabs>> /\ raced' = raced
    BY DEF CreateListing
  <2> QED BY <2>2, <2>3, <2>5, <2>8, <2>10, <2>11, <2>13, <2>12, AlbumStep
<1> QED BY <1>1, <1>3, <1>4 DEF CreateListing

\* A call answers once an album's rows are those of a list; the rows before are dropped.
LEMMA RowsListed ==
  ASSUME PicturesInv, UNCHANGED <<files, minted, lost, raced, tabs>>,
         NEW c \in Calls, ~Hand(calls[c]), calls[c].op # "pending", NEW a \in Albums, Answer(c, a),
         NEW urls \in Seq(Key), NEW n \in Nat, NEW status \in {"DRAFT", "SCHEDULED"},
         status = "SCHEDULED" => urls # <<>>, NEW lists \in Nat,
         NEW dropped, dropped = albums[a].dropped \cup {r.key : r \in Rows(a)},
         albums' = [albums EXCEPT ![a] =
                      [status |-> status, rows |-> ListedRows(a, n, urls, {}),
                       lists |-> lists, listed |-> Len(urls), dropped |-> dropped]],
         \A d \in Calls \ {c} : ~(AtCommit(calls[d]) /\ calls[d].album = a)
  PROVE  PicturesInv'
<1>1. PICK y, rows, al :
        /\ y = Replied(c, "ok", a) /\ rows = ListedRows(a, n, urls, {})
        /\ al = [status |-> status, rows |-> rows, lists |-> lists, listed |-> Len(urls),
                 dropped |-> dropped]
  OBVIOUS
<1>2. calls' = [calls EXCEPT ![c] = y] /\ albums' = [albums EXCEPT ![a] = al]
  BY <1>1 DEF Answer
<1>3. /\ CallOK(y)' /\ ~Holding(y) /\ ~AtCommit(y) /\ Known(y) = {}
      /\ \A t \in Tabs : y.tab = t =>
           calls[c].tab = t /\ y.op = calls[c].op /\ y.left = calls[c].left
  <2>1. IsCall(calls[c])
    BY DEF PicturesInv, Requests, CallOK
  <2> QED BY <1>1, <2>1, AnsweredCall
<1>4. AreListed(rows, urls) /\ Len(urls) \in Nat
  BY <1>1, ListedRowsFit
<1>5. dropped \in SUBSET Key
  BY DEF PicturesInv, Shelves, Album, ImageRow, Rows
<1>6. /\ al \in Album /\ rows = al.rows /\ al.status = status /\ al.status # "ABSENT"
      /\ al.listed = Len(urls) /\ al.dropped = dropped
  BY <1>1, <1>4, <1>5 DEF Album, AlbumStatus, AreListed
<1>7. Fits(c, a, rows)
  BY <1>4 DEF Fits, AreListed
<1>8. Follows(c, y, a, rows, al.dropped)
  BY <1>3, <1>6 DEF Follows
<1>9. Whole(al)
  BY <1>4, <1>6 DEF Whole, Leads, AreListed
<1>10. albums[a].dropped \subseteq al.dropped
  BY <1>6
<1> QED BY <1>2, <1>3, <1>6, <1>7, <1>8, <1>9, <1>10, AlbumStep

LEMMA CreateDraftKeeps ==
  ASSUME PicturesInv, NEW c \in Calls, CreateDraft(c), UNCHANGED tabs
  PROVE  PicturesInv'
<1>1. PICK urls : urls = calls[c].urls
  OBVIOUS
<1>2. PICK a \in Drafts :
        /\ albums[a].status = "ABSENT" /\ Answer(c, a)
        /\ albums' = [albums EXCEPT ![a] =
             [status |-> "DRAFT", rows |-> ListedRows(a, 0, urls, {}), lists |-> 0,
              listed |-> Len(urls), dropped |-> {}]]
  BY <1>1 DEF CreateDraft
<1>3. /\ urls \in Seq(Key) /\ ~Hand(calls[c]) /\ calls[c].op # "pending"
      /\ UNCHANGED <<files, minted, lost, raced, tabs>>
  BY <1>1 DEF PicturesInv, Requests, CallOK, CreateOK, CreateDraft, Is, Hand, Holding, AtUnstore
<1>4. a \in Albums /\ {} = albums[a].dropped \cup {r.key : r \in Rows(a)}
  BY <1>2 DEF Albums, PicturesInv, Shelves
<1>5. \A d \in Calls \ {c} : ~(AtCommit(calls[d]) /\ calls[d].album = a)
  BY <1>2 DEF PicturesInv, Requests, CallOK, Engaged, Deleting, AtCommit
<1> QED BY <1>2, <1>3, <1>4, <1>5, RowsListed

LEMMA ReplaceImagesKeeps ==
  ASSUME PicturesInv, NEW c \in Calls, ReplaceImages(c), UNCHANGED tabs
  PROVE  PicturesInv'
<1>1. PICK x, a, urls, dropped :
        /\ x = calls[c] /\ a = x.album /\ urls = x.urls
        /\ dropped = albums[a].dropped \cup {r.key : r \in Rows(a)}
  OBVIOUS
<1>2. CallOK(x) /\ x.op = "edit" /\ x.pc = "replace" /\ ~Hand(x)
      /\ UNCHANGED <<files, minted, lost, raced, tabs>>
  BY <1>1 DEF PicturesInv, Requests, ReplaceImages, Is, Hand, Holding, AtUnstore
<1>3. /\ a \in Drafts /\ a \in Albums /\ urls \in Seq(Key)
      /\ x.seen.status \in {"DRAFT", "SCHEDULED"}
  BY <1>1, <1>2 DEF CallOK, CreateOK, Albums
<1>4. CASE Refuse(c) /\ UNCHANGED albums
  BY <1>1, <1>2, <1>4, CallEnds DEF Refuse
<1>5. ASSUME albums[a].status = x.seen.status, \A r \in Rows(a) : ~LockedFor(c, r.key),
             ~(albums[a].status = "SCHEDULED" /\ urls = <<>>), Answer(c, a),
             albums' = [albums EXCEPT ![a] =
               [status |-> albums[a].status,
                rows |-> ListedRows(a, albums[a].lists + 1, urls, {}),
                lists |-> albums[a].lists + 1, listed |-> Len(urls), dropped |-> dropped]]
      PROVE  PicturesInv'
  <2>1. PICK n, status : n = albums[a].lists + 1 /\ status = albums[a].status
    OBVIOUS
  <2>2. n \in Nat /\ status \in {"DRAFT", "SCHEDULED"} /\ (status = "SCHEDULED" => urls # <<>>)
    BY <1>3, <1>5, <2>1 DEF PicturesInv, Shelves, Album
  <2>3. \A d \in Calls \ {c} : ~(AtCommit(calls[d]) /\ calls[d].album = a)
    <3> SUFFICES ASSUME NEW d \in Calls \ {c}, AtCommit(calls[d]), calls[d].album = a PROVE FALSE
      OBVIOUS
    <3>1. \E r \in Rows(a) : r.key = calls[d].key
      BY DEF PicturesInv, Requests, CallOK, RemoveOK
    <3>2. PICK r \in Rows(a) : r.key = calls[d].key
      BY <3>1
    <3> QED BY <1>5, <3>2 DEF LockedFor, Is, AtCommit
  <2>4. albums' = [albums EXCEPT ![a] =
                     [status |-> status, rows |-> ListedRows(a, n, urls, {}),
                      lists |-> n, listed |-> Len(urls), dropped |-> dropped]]
    BY <1>5, <2>1
  <2>5. ~Hand(calls[c]) /\ calls[c].op # "pending"
    BY <1>1, <1>2
  <2>6. /\ UNCHANGED <<files, minted, lost, raced, tabs>> /\ Answer(c, a) /\ a \in Albums
        /\ urls \in Seq(Key) /\ dropped = albums[a].dropped \cup {r.key : r \in Rows(a)}
    BY <1>1, <1>2, <1>3, <1>5
  <2> QED BY <2>2, <2>3, <2>4, <2>5, <2>6, RowsListed
<1> QED BY <1>1, <1>4, <1>5 DEF ReplaceImages

\* An admin's suspension leaves rows and calls alone.
LEMMA SuspendKeeps ==
  ASSUME PicturesInv, NEW a \in Listings, SuspendListing(a), UNCHANGED tabs
  PROVE  PicturesInv'
<1>1. a \in Albums /\ UNCHANGED <<files, minted, calls, lost, raced>>
  BY DEF SuspendListing, Albums
<1>2. PICK al : al = [albums[a] EXCEPT !.status = "SUSPENDED"]
  OBVIOUS
<1>3. /\ albums' \in [Albums -> Album] /\ albums'[a] = al
      /\ \A b \in Albums \ {a} : albums'[b] = albums[b]
      /\ al \in Album /\ al.rows = albums[a].rows /\ al.status = "SUSPENDED"
      /\ al.listed = albums[a].listed /\ al.dropped = albums[a].dropped
  BY <1>1, <1>2 DEF SuspendListing, PicturesInv, Shelves, Album, AlbumStatus
<1>4. \A b \in Albums : Rows(b)' = Rows(b) /\ albums'[b].rows = albums[b].rows
                        /\ albums'[b].dropped = albums[b].dropped
                        /\ (albums'[b].status = "ABSENT" => albums[b].status = "ABSENT")
  BY <1>1, <1>3 DEF Rows
<1>5. \A k : OnRow(k)' = OnRow(k) /\ Minted(k)' = Minted(k) /\ Dropped(k)' = Dropped(k)
  BY <1>1, <1>4 DEF OnRow, Minted, Dropped
<1>6. Shelves'
  BY <1>1, <1>3, <1>4, <1>5 DEF PicturesInv, Shelves
<1>7. \A d \in Calls : CallOK(calls[d])'
  <2> SUFFICES ASSUME NEW d \in Calls PROVE CallOK(calls[d])'
    OBVIOUS
  <2>1. PICK x : x = calls[d]
    OBVIOUS
  <2>2. CallOK(x) /\ minted \in Nat /\ minted' \in Nat /\ minted <= minted'
    BY <1>1, <2>1 DEF PicturesInv, Requests, Shelves
  <2>3. Engaged(x) \/ Deleting(x) \/ AtCommit(x) => x.album \in Albums
    BY <2>2 DEF CallOK, Engaged, Deleting, AtCommit
  <2>4. /\ Holding(x) => x.key \in files' /\ ~OnRow(x.key)'
        /\ AtUnstore(x) => (x.key \in UploadKey => ~OnRow(x.key)')
    BY <1>1, <1>5, <2>2 DEF CallOK, AddOK, RemoveOK
  <2>5. /\ Engaged(x) => albums'[x.album].status # "ABSENT"
        /\ AtCommit(x) => \E r \in albums'[x.album].rows : r.key = x.key
        /\ AtCommit(x) => \A k \in Known(x) : \A s \in albums'[x.album].rows :
                            s.key = k => \E r \in albums[x.album].rows : r.key = k
    BY <1>4, <2>2, <2>3 DEF CallOK, RemoveOK, Rows
  <2>6. CallOK(x)'
    BY <2>2, <2>4, <2>5, CallSurvives
  <2> QED BY <1>1, <2>1, <2>6
<1>8. Requests'
  <2>1. \A d \in Calls : /\ Holding(calls[d])' = Holding(calls[d]) /\ Known(calls[d])' = Known(calls[d])
                         /\ AtCommit(calls[d])' = AtCommit(calls[d])
    BY <1>1 DEF Holding, Known, AtCommit, Deleting, AtUnstore
  <2> QED BY <1>1, <1>7, <2>1 DEF PicturesInv, Requests
<1>9. Accounted'
  BY <1>1, <1>5 DEF PicturesInv, Accounted, Hand, Holding, AtUnstore
<1>10. Screens'
  BY <1>1, ScreensStand DEF PicturesInv
<1>11. AlbumsAreWholeUnlessRaced'
  <2>1. \A b \in Albums \ raced : Whole(albums'[b])
    BY <1>3 DEF PicturesInv, AlbumsAreWholeUnlessRaced, Whole
  <2> QED BY <1>1, <2>1 DEF AlbumsAreWholeUnlessRaced, Whole
<1> QED BY <1>6, <1>8, <1>9, <1>10, <1>11 DEF PicturesInv

-----------------------------------------------------------------------------
(***************************************************************************)
(* A crash, and the steps of tabs                                          *)
(***************************************************************************)
Quiet(y) == CallOK(y) /\ ~Hand(y) /\ Known(y) = {} /\ ~AtCommit(y)

\* Calls that have nothing in hand, or lose it for good, become quiet.
LEMMA QuietCalls ==
  ASSUME Behind, UNCHANGED <<albums, files, minted, raced>>, lost \subseteq lost',
         DOMAIN calls' = Calls,
         \A e \in Calls : \/ calls'[e] = calls[e]
                          \/ Quiet(calls'[e]) /\ (Hand(calls[e]) /\ calls[e].key \in files => calls[e].key \in lost')
  PROVE  Behind'
<1>1. \A d \in Calls : CallOK(calls[d])'
  <2> SUFFICES ASSUME NEW d \in Calls PROVE CallOK(calls[d])'
    OBVIOUS
  <2>1. PICK x : x = calls'[d]
    OBVIOUS
  <2>2. CallOK(x)
    BY <2>1 DEF Behind, Requests, Quiet
  <2>3. CallOK(x)'
    BY <2>2, CallStands
  <2> QED BY <2>1, <2>3
<1>2. \A d \in Calls : /\ Holding(calls[d])' = Holding(calls'[d]) /\ Known(calls[d])' = Known(calls'[d])
                       /\ AtCommit(calls[d])' = AtCommit(calls'[d]) /\ Hand(calls[d])' = Hand(calls'[d])
  BY DEF Holding, Known, AtCommit, Deleting, AtUnstore, Hand
<1>3. \A d \in Calls : \/ calls'[d] = calls[d]
                       \/ ~Holding(calls'[d]) /\ Known(calls'[d]) = {} /\ ~AtCommit(calls'[d])
  BY DEF Quiet, Hand
<1>4. \A c, d \in Calls : Holding(calls'[c]) =>
        /\ calls'[c].key \notin Known(calls'[d])
        /\ Holding(calls'[d]) /\ calls'[c].key = calls'[d].key => c = d
  BY <1>3 DEF Behind, Requests
<1>5. \A c, d \in Calls :
        AtCommit(calls'[c]) /\ AtCommit(calls'[d]) /\ calls'[c].key = calls'[d].key => c = d
  BY <1>3 DEF Behind, Requests
<1>6. Requests'
  BY <1>1, <1>2, <1>4, <1>5 DEF Requests
<1>7. Accounted'
  <2>1. \A k : OnRow(k)' = OnRow(k) /\ Dropped(k)' = Dropped(k)
    BY DEF OnRow, Rows, Dropped
  <2>2. ASSUME NEW k \in files, Folder(k) \in {"auction", "product"}, ~OnRow(k), ~Dropped(k),
               k \notin lost'
        PROVE  \E d \in Calls : Hand(calls'[d]) /\ calls'[d].key = k
    <3>1. PICK d \in Calls : Hand(calls[d]) /\ calls[d].key = k
      BY <2>2 DEF Behind, Accounted
    <3> QED BY <2>2, <3>1
  <2> QED BY <1>2, <2>1, <2>2 DEF Accounted
<1> QED BY <1>6, <1>7, ShelvesStand, WholeStands DEF Behind

LEMMA CrashKeeps ==
  ASSUME PicturesInv, Crash, UNCHANGED tabs
  PROVE  PicturesInv'
<1>1. ASSUME NEW e \in Calls
      PROVE  /\ \/ calls'[e] = calls[e]
                \/ Quiet(calls'[e]) /\ (Hand(calls[e]) /\ calls[e].key \in files => calls[e].key \in lost')
             /\ \A t \in Tabs : calls'[e].tab = t =>
                  calls[e].tab = t /\ calls'[e].op = calls[e].op /\ calls'[e].left = calls[e].left
  <2>1. CASE ~Running(e)
    BY <2>1 DEF Crash
  <2>2. CASE Running(e)
    <3>1. PICK y : y = Replied(e, "error", Null)
      OBVIOUS
    <3>2. calls'[e] = y
      BY <2>2, <3>1 DEF Crash
    <3>3. IsCall(calls[e]) /\ CallOK(calls[e])
      BY DEF PicturesInv, Requests, CallOK
    <3>4. /\ IsCall(y) /\ y.pc \in {"idle", "error"}
          /\ \A t \in Tabs : y.tab = t => y.tab = calls[e].tab /\ y.op = calls[e].op
                                          /\ y.left = calls[e].left
      BY <3>1, <3>3, RepliedIs
    <3>5. Quiet(y)
      BY <3>4, OverOK DEF Quiet
    <3>6. Hand(calls[e]) /\ calls[e].key \in files => calls[e].key \in lost'
      BY DEF Crash, InHand, Hand, Holding, AtUnstore, Is
    <3> QED BY <3>2, <3>4, <3>5, <3>6
  <2> QED BY <2>1, <2>2
<1>2. DOMAIN calls' = Calls /\ UNCHANGED <<albums, files, minted, raced>> /\ lost \subseteq lost'
  BY DEF Crash
<1>3. Behind'
  BY <1>1, <1>2, QuietCalls DEF Behind, PicturesInv
<1>4. Screens'
  BY <1>1, ScreensStand DEF PicturesInv
<1> QED BY <1>3, <1>4 DEF Behind, PicturesInv

LEMMA NoCallIsQuiet ==
  Quiet(NoCall) /\ NoCall.tab = Null /\ NoCall.op = Null
<1>1. IsCall(NoCall) /\ NoCall.pc = "idle" /\ NoCall.tab = Null /\ NoCall.op = Null
  BY DEF IsCall, CallFields, NoCall
<1> QED BY <1>1, OverOK DEF Quiet

\* A call whose answer a tab takes has nothing in hand.
LEMMA OverIsQuiet ==
  ASSUME PicturesInv, NEW c \in Calls, calls[c] = NoCall \/ calls[c].pc \in {"idle", "ok", "error"}
  PROVE  ~Hand(calls[c])
<1>1. calls[c] = NoCall => calls[c].pc = "idle"
  BY NoCallIsCall
<1> QED BY <1>1 DEF Hand, Holding, AtUnstore

\* The first statement of each request.
Starts == {<<"add", "check">>, <<"remove", "find">>, <<"publish", "gate">>, <<"details", "update">>,
           <<"load", "read">>, <<"pending", "store">>, <<"avatar", "patch">>, <<"profile", "patch">>}

LEMMA FreshCall ==
  ASSUME NEW t \in Tabs, NEW op, NEW pc, NEW key, NEW left, NEW y, y = Call(t, op, pc, key, left),
         <<op, pc>> \in Starts, op \in {"pending", "avatar", "profile"} \/ tabs[t].album \in Albums
  PROVE  Quiet(y) /\ y.tab = t /\ y.op = op /\ y.left = left
<1>1. /\ IsCall(y) /\ y.tab = t /\ y.op = op /\ y.left = left /\ y.pc = pc
      /\ y.album = tabs[t].album
  BY DEF Call, IsCall, CallFields, NoCall
<1>2. op \in {"add", "remove", "publish", "details", "load", "pending", "avatar", "profile"}
      /\ pc \in {"check", "find", "gate", "update", "read", "store", "patch"}
      /\ (op = "pending" => pc = "store")
  BY DEF Starts
<1> QED BY <1>1, <1>2 DEF Quiet, CallOK, Engaged, AddOK, RemoveOK, CreateOK, Holding, Hand, Known,
                          Deleting, AtCommit, AtUnstore

\* One tab moves, and calls of its own with it.
LEMMA ScreensMove ==
  ASSUME Screens, NEW t \in Tabs, NEW q, q = tabs[t], NEW r,
         DOMAIN tabs' = Tabs, tabs'[t] = r, \A u \in Tabs \ {t} : tabs'[u] = tabs[u],
         IsTab(r), r.page \in {"draft", "failed", "listing"} => r.album \in Albums,
         r.page = "form" => FormOK(t, r)',
         q.page \in DraftPages => r.page \in DraftPages,
         \A e \in Calls, u \in Tabs : calls'[e].tab = u =>
           \/ /\ calls[e].tab = u /\ calls'[e].op = calls[e].op
              /\ u # t => calls'[e].left = calls[e].left
           \/ u = t /\ (calls'[e].op = "load" => r.page \in DraftPages)
  PROVE  Screens'
<1>1. TabOK(t, r)'
  <2>1. \A e \in Calls : calls'[e].tab = t /\ calls'[e].op = "load" => r.page \in DraftPages
    BY DEF Screens, TabOK
  <2> QED BY <2>1 DEF TabOK
<1>2. ASSUME NEW u \in Tabs PROVE TabOK(u, tabs[u])'
  <2>1. CASE u = t
    BY <1>1, <2>1
  <2>2. CASE u # t
    <3>1. PICK w : w = tabs[u]
      OBVIOUS
    <3>2. TabOK(u, w) /\ tabs'[u] = w
      BY <2>2, <3>1 DEF Screens
    <3>3. \A e \in Calls : calls'[e].tab = u =>
            calls[e].tab = u /\ calls'[e].op = calls[e].op /\ calls'[e].left = calls[e].left
      BY <2>2
    <3>4. TabOK(u, w)'
      BY <3>2, <3>3 DEF TabOK, FormOK, Budget, Uploads
    <3> QED BY <3>2, <3>4
  <2> QED BY <2>1, <2>2
<1> QED BY <1>2 DEF Screens

\* Tab t becomes r, and the rest stays.
TabIs(t, r) ==
  DOMAIN tabs' = Tabs /\ tabs'[t] = r /\ \A u \in Tabs \ {t} : tabs'[u] = tabs[u]

\* What a tab and a call of its own may become.
Lands(t, r, y) ==
  /\ IsTab(r)
  /\ r.page \in {"draft", "failed", "listing"} => r.album \in Albums
  /\ tabs[t].page \in DraftPages => r.page \in DraftPages
  /\ y.tab \in {t, Null}
  /\ y.tab = t /\ y.op = "load" => r.page \in DraftPages
  /\ Quiet(y)

\* A tab sends a request or takes an answer.
LEMMA TabStep ==
  ASSUME PicturesInv, UNCHANGED <<albums, files, minted, lost, raced>>,
         NEW t \in Tabs, NEW r, TabIs(t, r),
         NEW c \in Calls, NEW y, calls' = [calls EXCEPT ![c] = y], ~Hand(calls[c]),
         Lands(t, r, y), r.page = "form" => FormOK(t, r)'
  PROVE  PicturesInv'
<1>1. DOMAIN calls' = Calls /\ calls'[c] = y /\ \A d \in Calls \ {c} : calls'[d] = calls[d]
  BY DEF PicturesInv, Requests
<1>2. Behind'
  <2>1. \A e \in Calls : \/ calls'[e] = calls[e]
                         \/ /\ Quiet(calls'[e])
                            /\ Hand(calls[e]) /\ calls[e].key \in files => calls[e].key \in lost'
    BY <1>1 DEF Lands
  <2> QED BY <1>1, <2>1, QuietCalls DEF Behind, PicturesInv
<1>3. Screens'
  <2>1. \A e \in Calls, u \in Tabs : calls'[e].tab = u =>
           \/ /\ calls[e].tab = u /\ calls'[e].op = calls[e].op
              /\ u # t => calls'[e].left = calls[e].left
           \/ u = t /\ (calls'[e].op = "load" => r.page \in DraftPages)
    BY <1>1, ScenesAssumption DEF Lands
  <2> QED BY <2>1, ScreensMove DEF PicturesInv, Lands, TabIs
<1> QED BY <1>2, <1>3 DEF Behind, PicturesInv

\* A tab changes on its own.
LEMMA TabAlone ==
  ASSUME PicturesInv, UNCHANGED <<albums, files, minted, lost, raced, calls>>,
         NEW t \in Tabs, NEW q, q = tabs[t], NEW r, tabs' = [tabs EXCEPT ![t] = r],
         IsTab(r), r.page \in {"draft", "failed", "listing"} => r.album \in Albums,
         r.page = "form" => FormOK(t, r)',
         q.page \in DraftPages => r.page \in DraftPages
  PROVE  PicturesInv'
<1>1. Behind'
  <2>1. DOMAIN calls' = Calls /\ \A e \in Calls : calls'[e] = calls[e]
    BY DEF PicturesInv, Requests
  <2> QED BY <2>1, QuietCalls DEF Behind, PicturesInv
<1>2. DOMAIN tabs' = Tabs /\ tabs'[t] = r /\ \A u \in Tabs \ {t} : tabs'[u] = tabs[u]
  BY DEF PicturesInv, Screens
<1>3. Screens'
  BY <1>2, ScreensMove DEF PicturesInv
<1> QED BY <1>1, <1>3 DEF Behind, PicturesInv

\* A tab that is not the form sends a request.
LEMMA SendKeeps ==
  ASSUME PicturesInv, UNCHANGED Server, NEW t \in Tabs, NEW op, NEW pc, NEW key, NEW left,
         Send(t, op, pc, key, left), <<op, pc>> \in Starts, op # "load",
         op \in {"pending", "avatar", "profile"} \/ tabs[t].page \in {"draft", "listing"},
         tabs[t].page # "form",
         \/ tabs' = [tabs EXCEPT ![t].picking = TRUE]
         \/ tabs' = [tabs EXCEPT ![t].saving = TRUE]
  PROVE  PicturesInv'
<1>1. PICK c, q, y : /\ c \in Calls /\ Free(c) /\ q = tabs[t] /\ y = Call(t, op, pc, key, left)
                     /\ calls' = [calls EXCEPT ![c] = y]
  BY DEF Send
<1>2. PICK r : /\ r \in {[q EXCEPT !.picking = TRUE], [q EXCEPT !.saving = TRUE]}
               /\ tabs' = [tabs EXCEPT ![t] = r]
  BY <1>1 DEF PicturesInv, Screens
<1>3. TabOK(t, q) /\ IsTab(q)
  BY <1>1 DEF PicturesInv, Screens, TabOK
<1>4. IsTab(r) /\ r.page = q.page /\ r.album = q.album
  BY <1>2, <1>3 DEF IsTab, TabFields, Tab
<1>5. TabIs(t, r)
  BY <1>2 DEF PicturesInv, Screens, TabIs
<1>6. r.page \in {"draft", "failed", "listing"} => r.album \in Albums
  BY <1>3, <1>4 DEF TabOK
<1>7. Quiet(y) /\ y.tab = t /\ y.op = op
  BY <1>1, <1>4, <1>6, FreshCall
<1>8. ~Hand(calls[c])
  BY <1>1, OverIsQuiet DEF Free
<1>9. Lands(t, r, y) /\ r.page # "form"
  BY <1>1, <1>4, <1>6, <1>7 DEF Lands
<1>10. UNCHANGED <<albums, files, minted, lost, raced>>
  BY DEF Server
<1> QED BY <1>1, <1>5, <1>8, <1>9, <1>10, TabStep

\* The pages of pictures and of the profile send their requests.
LEMMA PageSendsKeep ==
  ASSUME PicturesInv, NEW t \in Tabs,
         \/ ChooseFiles(t) \/ RemovePicture(t) \/ Publish(t) \/ SaveDetails(t)
         \/ PickAvatar(t) \/ SaveProfile(t)
  PROVE  PicturesInv'
<1>1. CASE ChooseFiles(t) \/ RemovePicture(t) \/ Publish(t) \/ SaveDetails(t)
  <2>1. PICK op, pc, key, left :
          /\ Send(t, op, pc, key, left) /\ UNCHANGED Server
          /\ <<op, pc>> \in {<<"add", "check">>, <<"remove", "find">>, <<"publish", "gate">>,
                             <<"details", "update">>}
          /\ tabs[t].page \in {"draft", "listing"}
          /\ \/ tabs' = [tabs EXCEPT ![t].picking = TRUE]
             \/ tabs' = [tabs EXCEPT ![t].saving = TRUE]
    <3>1. CASE ChooseFiles(t)
      BY <3>1 DEF ChooseFiles, Manages
    <3>2. CASE RemovePicture(t)
      BY <3>2 DEF RemovePicture, Manages
    <3>3. CASE Publish(t)
      BY <3>3 DEF Publish
    <3>4. CASE SaveDetails(t)
      BY <3>4 DEF SaveDetails
    <3> QED BY <1>1, <3>1, <3>2, <3>3, <3>4
  <2>2. <<op, pc>> \in Starts /\ op # "load" /\ tabs[t].page # "form"
    BY <2>1 DEF Starts
  <2> QED BY <2>1, <2>2, SendKeeps
<1>2. CASE PickAvatar(t) \/ SaveProfile(t)
  <2>1. PICK op, pc, key :
          /\ Send(t, op, pc, key, 0) /\ UNCHANGED Server
          /\ <<op, pc>> \in {<<"pending", "store">>, <<"avatar", "patch">>, <<"profile", "patch">>}
          /\ tabs[t].page = "profile"
          /\ \/ tabs' = [tabs EXCEPT ![t].picking = TRUE]
             \/ tabs' = [tabs EXCEPT ![t].saving = TRUE]
    <3>1. CASE PickAvatar(t)
      BY <3>1 DEF PickAvatar
    <3>2. CASE SaveProfile(t)
      BY <3>2 DEF SaveProfile
    <3> QED BY <1>2, <3>1, <3>2
  <2>2. <<op, pc>> \in Starts /\ op \in {"pending", "avatar", "profile"}
    BY <2>1 DEF Starts
  <2> QED BY <2>1, <2>2, SendKeeps
<1> QED BY <1>1, <1>2

\* What one tab knows of itself.
LEMMA TabKnows ==
  ASSUME PicturesInv, NEW t \in Tabs, NEW q, q = tabs[t]
  PROVE  TabOK(t, q) /\ IsTab(q) /\ (q.page = "form" => FormOK(t, q))
BY DEF PicturesInv, Screens, TabOK

LEMMA PickPendingKeeps ==
  ASSUME PicturesInv, NEW t \in Tabs, PickPending(t)
  PROVE  PicturesInv'
<1>1. PICK q, r : q = tabs[t] /\ r = [q EXCEPT !.picking = TRUE]
  OBVIOUS
<1>2. IsTab(q) /\ FormOK(t, q) /\ q.page = "form" /\ ~q.picking
  BY <1>1, TabKnows DEF PickPending
<1>3. IsTab(r) /\ r.page = "form" /\ r.urls = q.urls /\ r.picking
  BY <1>1, <1>2 DEF IsTab, TabFields, Tab
<1>4. PICK c, y, left : /\ c \in Calls /\ Free(c) /\ y = Call(t, "pending", "store", Null, left)
                        /\ calls' = [calls EXCEPT ![c] = y]
                        /\ left \in Nat /\ Len(q.urls) + left + 1 <= MaxImages
  <2>1. PICK n \in 1 .. MaxChosen :
          LET room == MaxImages - Len(q.urls)
          IN  room > 0 /\ Send(t, "pending", "store", Null, (IF n > room THEN room ELSE n) - 1)
    BY <1>1 DEF PickPending
  <2>2. PICK left : left = (IF n > MaxImages - Len(q.urls) THEN MaxImages - Len(q.urls) ELSE n) - 1
    OBVIOUS
  <2>3. /\ Len(q.urls) \in Nat /\ MaxImages \in Nat /\ MaxImages - Len(q.urls) > 0
        /\ n \in Nat /\ n >= 1
    BY <1>2, <2>1, PicturesAssumption, ScenesAssumption DEF FormOK
  <2>4. left \in Nat /\ Len(q.urls) + left + 1 <= MaxImages
    <3>1. CASE n > MaxImages - Len(q.urls)
      <4>1. left = MaxImages - Len(q.urls) - 1
        BY <2>2, <3>1
      <4> QED BY <2>3, <4>1
    <3>2. CASE ~(n > MaxImages - Len(q.urls))
      <4>1. left = n - 1
        BY <2>2, <3>2
      <4> QED BY <2>3, <3>2, <4>1
    <3> QED BY <3>1, <3>2
  <2> QED BY <2>1, <2>2, <2>4 DEF Send
<1>5. Quiet(y) /\ y.tab = t /\ y.op = "pending" /\ y.left = left
  BY <1>4, FreshCall DEF Starts
<1>6. TabIs(t, r) /\ UNCHANGED <<albums, files, minted, lost, raced>>
  BY <1>1 DEF PickPending, PicturesInv, Screens, TabIs, Server
<1>7. ~Hand(calls[c])
  BY <1>4, OverIsQuiet DEF Free
<1>8. Lands(t, r, y)
  BY <1>1, <1>2, <1>3, <1>5 DEF Lands, DraftPages
<1>9. calls'[c] = y /\ \A d \in Calls \ {c} : calls'[d] = calls[d]
  BY <1>4 DEF PicturesInv, Requests
<1>10. \A d \in Calls \ {c} : calls[d].tab = t => calls[d].op = "create"
  BY <1>2 DEF FormOK, Budget
<1>11. FormOK(t, r)'
  <2>1. r.urls \in Seq(PendingKey) /\ Len(r.urls) <= MaxImages
    BY <1>2, <1>3 DEF FormOK
  <2>2. \A d \in Calls : calls'[d].tab = t => Budget(r, calls'[d])
    BY <1>3, <1>4, <1>5, <1>9, <1>10 DEF Budget
  <2>3. \A d, e \in Calls : Uploads(t, calls'[d]) /\ Uploads(t, calls'[e]) => d = e
    BY <1>9, <1>10 DEF Uploads
  <2> QED BY <2>1, <2>2, <2>3 DEF FormOK, Budget, Uploads
<1> QED BY <1>4, <1>6, <1>7, <1>8, <1>11, TabStep

LEMMA SubmitKeeps ==
  ASSUME PicturesInv, NEW t \in Tabs, Submit(t)
  PROVE  PicturesInv'
<1>1. PICK q, r : q = tabs[t] /\ r = [q EXCEPT !.saving = TRUE]
  OBVIOUS
<1>2. IsTab(q) /\ FormOK(t, q) /\ q.page = "form" /\ q.urls # <<>>
  BY <1>1, TabKnows DEF Submit
<1>3. IsTab(r) /\ r.page = "form" /\ r.urls = q.urls /\ r.picking = q.picking
  BY <1>1, <1>2 DEF IsTab, TabFields, Tab
<1>4. PICK c, x, y : /\ c \in Calls /\ Free(c) /\ x = Call(t, "create", "resolve", Null, 0)
                     /\ y = [x EXCEPT !.urls = q.urls] /\ calls' = [calls EXCEPT ![c] = y]
  BY <1>1 DEF Submit
<1>5. IsCall(y) /\ y.tab = t /\ y.op = "create" /\ y.pc = "resolve" /\ y.urls = q.urls
  BY <1>4 DEF Call, IsCall, CallFields, NoCall
<1>6. q.urls \in Seq(PendingKey) /\ Len(q.urls) \in 1 .. MaxImages
  BY <1>2, PicturesAssumption, EmptySeq DEF FormOK
<1>7. Quiet(y)
  BY <1>5, <1>6 DEF Quiet, CallOK, Engaged, AddOK, RemoveOK, CreateOK, Holding, Hand, Known,
                    Deleting, AtCommit, AtUnstore
<1>8. TabIs(t, r) /\ UNCHANGED <<albums, files, minted, lost, raced>>
  BY <1>1 DEF Submit, PicturesInv, Screens, TabIs, Server
<1>9. ~Hand(calls[c])
  BY <1>4, OverIsQuiet DEF Free
<1>10. Lands(t, r, y)
  BY <1>1, <1>2, <1>3, <1>5, <1>7 DEF Lands, DraftPages
<1>11. calls'[c] = y /\ \A d \in Calls \ {c} : calls'[d] = calls[d]
  BY <1>4 DEF PicturesInv, Requests
<1>12. FormOK(t, r)'
  <2>1. \A d \in Calls : calls'[d].tab = t => Budget(r, calls'[d])
    BY <1>2, <1>3, <1>5, <1>11 DEF FormOK, Budget
  <2>2. \A d, e \in Calls : Uploads(t, calls'[d]) /\ Uploads(t, calls'[e]) => d = e
    BY <1>2, <1>5, <1>11 DEF FormOK, Uploads
  <2> QED BY <1>2, <1>3, <2>1, <2>2 DEF FormOK, Budget, Uploads
<1> QED BY <1>4, <1>8, <1>9, <1>10, <1>12, TabStep

\* What an API client's request is when it starts.
LEMMA FreshRequest ==
  ASSUME NEW op, NEW pc, NEW a, NEW urls, NEW y, y = Request(op, pc, a, urls),
         \/ op = "draft" /\ pc = "create" /\ urls \in Seq(Key)
         \/ op = "edit" /\ pc = "find" /\ a \in Drafts /\ urls \in Seq(Key)
         \/ op = "post" /\ pc = "resolve" /\ urls \in Seq(PendingKey) /\ urls # <<>>
  PROVE  Quiet(y) /\ y.tab = Null
<1>1. IsCall(y) /\ y.tab = Null /\ y.op = op /\ y.pc = pc /\ y.album = a /\ y.urls = urls
  BY DEF Request, IsCall, CallFields, NoCall
<1> QED BY <1>1 DEF Quiet, CallOK, Engaged, AddOK, RemoveOK, CreateOK, Holding, Hand, Known,
                    Deleting, AtCommit, AtUnstore

LEMMA CopiesAre ==
  ASSUME NEW n \in Nat, NEW S, NEW url \in S
  PROVE  Copies(n, url) \in Seq(S) /\ (n > 0 => Copies(n, url) # <<>>)
<1>1. Copies(n, url) \in Seq(S) /\ Len(Copies(n, url)) = n
  BY DEF Copies
<1> QED BY <1>1, EmptySeq

LEMMA SendListKeeps ==
  ASSUME PicturesInv, NEW t \in Tabs, SendList(t)
  PROVE  PicturesInv'
<1>1. PICK c \in Calls, n \in 0 .. MaxListed :
        /\ Free(c)
        /\ \/ calls' = [calls EXCEPT ![c] = Request("draft", "create", Null, Copies(n, Elsewhere))]
           \/ \E a \in Drafts : \E url \in {Elsewhere} \cup {r.url : r \in Rows(a)} :
                calls' = [calls EXCEPT ![c] = Request("edit", "find", a, Copies(n, url))]
           \/ \E k \in 0 .. minted :
                /\ n > 0
                /\ calls' = [calls EXCEPT
                     ![c] = Request("post", "resolve", Null, Copies(n, FileKey("pending", k)))]
  BY DEF SendList
<1>2. UNCHANGED <<albums, files, minted, lost, raced, tabs>>
  BY DEF SendList, Server
<1>3. n \in Nat /\ minted \in Nat
  BY ScenesAssumption DEF PicturesInv, Shelves
<1>4. Elsewhere \in Key
  BY DEF Elsewhere, FileKey, Key, PendingKey
<1>5. PICK y : Quiet(y) /\ y.tab = Null /\ calls' = [calls EXCEPT ![c] = y]
  <2>1. CASE calls' = [calls EXCEPT ![c] = Request("draft", "create", Null, Copies(n, Elsewhere))]
    <3>1. PICK urls, y : urls = Copies(n, Elsewhere) /\ y = Request("draft", "create", Null, urls)
      OBVIOUS
    <3>2. Quiet(y) /\ y.tab = Null
      BY <1>3, <1>4, <3>1, CopiesAre, FreshRequest
    <3> QED BY <2>1, <3>1, <3>2
  <2>2. ASSUME NEW a \in Drafts, NEW url \in {Elsewhere} \cup {r.url : r \in Rows(a)},
               calls' = [calls EXCEPT ![c] = Request("edit", "find", a, Copies(n, url))]
        PROVE  \E y : Quiet(y) /\ y.tab = Null /\ calls' = [calls EXCEPT ![c] = y]
    <3>1. PICK urls, y : urls = Copies(n, url) /\ y = Request("edit", "find", a, urls)
      OBVIOUS
    <3>2. url \in Key
      BY <1>4 DEF PicturesInv, Shelves, Albums, Album, ImageRow, Rows
    <3>3. Quiet(y) /\ y.tab = Null
      BY <1>3, <3>1, <3>2, CopiesAre, FreshRequest
    <3> QED BY <2>2, <3>1, <3>3
  <2>3. ASSUME NEW k \in 0 .. minted, n > 0,
               calls' = [calls EXCEPT
                 ![c] = Request("post", "resolve", Null, Copies(n, FileKey("pending", k)))]
        PROVE  \E y : Quiet(y) /\ y.tab = Null /\ calls' = [calls EXCEPT ![c] = y]
    <3>1. PICK url, urls, y : /\ url = FileKey("pending", k) /\ urls = Copies(n, url)
                              /\ y = Request("post", "resolve", Null, urls)
      OBVIOUS
    <3>2. url \in PendingKey
      BY <1>3, <3>1 DEF FileKey, PendingKey
    <3>3. Quiet(y) /\ y.tab = Null
      BY <1>3, <2>3, <3>1, <3>2, CopiesAre, FreshRequest
    <3> QED BY <2>3, <3>1, <3>3
  <2> QED BY <1>1, <2>1, <2>2, <2>3
<1>6. ~Hand(calls[c])
  BY <1>1, OverIsQuiet DEF Free
<1>7. /\ CallOK(y) /\ ~Holding(y) /\ Known(y) = {} /\ ~AtCommit(y)
      /\ \A u \in Tabs : y.tab # u
  BY <1>5, ScenesAssumption DEF Quiet, Hand
<1> QED BY <1>2, <1>5, <1>6, <1>7, CallStep

\* One url less.
LEMMA WithoutOne ==
  ASSUME NEW urls \in Seq(PendingKey), NEW i \in DOMAIN urls
  PROVE  Without(urls, i) \in Seq(PendingKey) /\ Len(Without(urls, i)) = Len(urls) - 1
<1>1. PICK n, before, after : /\ n = Len(urls) /\ before = SubSeq(urls, 1, i - 1)
                              /\ after = SubSeq(urls, i + 1, n)
  OBVIOUS
<1>2. n \in Nat /\ i \in 1 .. n /\ \A j \in 1 .. n : urls[j] \in PendingKey
  BY <1>1
<1>3. before \in Seq(PendingKey) /\ Len(before) = i - 1
  <2>1. i - 1 \in Int /\ \A j \in 1 .. i - 1 : urls[j] \in PendingKey
    BY <1>2
  <2>2. before \in Seq(PendingKey) /\ Len(before) = IF 1 <= i - 1 THEN i - 1 - 1 + 1 ELSE 0
    BY <1>1, <2>1, SubSeqProperties
  <2> QED BY <1>2, <2>2
<1>4. after \in Seq(PendingKey) /\ Len(after) = n - i
  <2>1. i + 1 \in Int /\ n \in Int /\ \A j \in i + 1 .. n : urls[j] \in PendingKey
    BY <1>2
  <2>2. after \in Seq(PendingKey) /\ Len(after) = IF i + 1 <= n THEN n - (i + 1) + 1 ELSE 0
    BY <1>1, <2>1, SubSeqProperties
  <2> QED BY <1>2, <2>2
<1>5. before \o after \in Seq(PendingKey) /\ Len(before \o after) = Len(before) + Len(after)
  BY <1>3, <1>4, ConcatProperties
<1>6. Without(urls, i) = before \o after
  BY <1>1 DEF Without
<1>7. (i - 1) + (n - i) = n - 1
  BY <1>2
<1> QED BY <1>1, <1>3, <1>4, <1>5, <1>6, <1>7

\* A tab changes by itself: a picture is taken off the form, a page is opened or typed in.
LEMMA TabsAloneKeep ==
  ASSUME PicturesInv, NEW t \in Tabs, Unpick(t) \/ OpenListing(t) \/ TypeProfile(t)
  PROVE  PicturesInv'
<1>1. PICK q : q = tabs[t]
  OBVIOUS
<1>2. TabOK(t, q) /\ IsTab(q) /\ (q.page = "form" => FormOK(t, q))
  BY <1>1, TabKnows
<1>3. UNCHANGED <<albums, files, minted, lost, raced, calls>>
  BY DEF Unpick, OpenListing, TypeProfile, Server
<1>4. CASE Unpick(t)
  <2>1. PICK i, r : /\ i \in DOMAIN q.urls /\ r = [q EXCEPT !.urls = Without(q.urls, i)]
                    /\ tabs' = [tabs EXCEPT ![t] = r]
    BY <1>1, <1>4 DEF Unpick, PicturesInv, Screens
  <2>2. FormOK(t, q) /\ q.page = "form" /\ ~q.picking
    BY <1>1, <1>2, <1>4 DEF Unpick
  <2>3. IsTab(r) /\ r.page = "form" /\ r.urls = Without(q.urls, i) /\ r.picking = q.picking
    BY <1>2, <2>1, <2>2 DEF IsTab, TabFields, Tab
  <2>4. r.urls \in Seq(PendingKey) /\ Len(r.urls) <= MaxImages
    BY <2>1, <2>2, <2>3, WithoutOne, PicturesAssumption DEF FormOK
  <2>5. \A d \in Calls : calls[d].tab = t => Budget(r, calls[d])
    BY <2>2, <2>3 DEF FormOK, Budget
  <2>6. FormOK(t, r)'
    BY <1>3, <2>2, <2>4, <2>5 DEF FormOK, Budget, Uploads
  <2> QED BY <1>1, <1>3, <2>1, <2>2, <2>3, <2>6, TabAlone DEF DraftPages
<1>5. CASE OpenListing(t)
  <2>1. PICK a, r : /\ a \in Listings /\ r = Tab("listing", a, Rows(a))
                    /\ tabs' = [tabs EXCEPT ![t] = r]
    BY <1>5 DEF OpenListing
  <2>2. IsTab(r) /\ r.page = "listing" /\ r.album \in Albums
    BY <2>1 DEF IsTab, TabFields, Tab, Albums
  <2>3. q.page \notin DraftPages
    BY <1>1, <1>5 DEF OpenListing, DraftPages
  <2> QED BY <1>1, <1>3, <2>1, <2>2, <2>3, TabAlone
<1>6. CASE TypeProfile(t)
  <2>1. PICK r : r = [q EXCEPT !.dirty = TRUE] /\ tabs' = [tabs EXCEPT ![t] = r]
    BY <1>1, <1>6 DEF TypeProfile, PicturesInv, Screens
  <2>2. IsTab(r) /\ r.page = "profile"
    BY <1>1, <1>2, <1>6, <2>1 DEF TypeProfile, IsTab, TabFields, Tab
  <2>3. q.page \notin DraftPages
    BY <1>1, <1>6 DEF TypeProfile, DraftPages
  <2> QED BY <1>1, <1>3, <2>1, <2>2, <2>3, TabAlone
<1> QED BY <1>4, <1>5, <1>6

\* After an answer the batch goes on or is over.
LEMMA OnwardsIsQuiet ==
  ASSUME NEW t \in Tabs, NEW c \in Calls, NEW op, NEW pc, NEW y, y = Onwards(t, c, op, pc),
         <<op, pc>> \in Starts, op = "pending" \/ tabs[t].album \in Albums
  PROVE  /\ Quiet(y) /\ y.tab \in {t, Null}
         /\ y.tab = t => y.op = op /\ calls[c].left > 0 /\ y.left = calls[c].left - 1
<1>1. CASE calls[c].left > 0
  <2>1. PICK left : left = calls[c].left - 1
    OBVIOUS
  <2>2. y = Call(t, op, pc, Null, left)
    BY <1>1, <2>1 DEF Onwards
  <2> QED BY <1>1, <2>1, <2>2, FreshCall
<1>2. CASE ~(calls[c].left > 0)
  <2>1. y = NoCall
    BY <1>2 DEF Onwards
  <2> QED BY <2>1, NoCallIsQuiet, ScenesAssumption
<1> QED BY <1>1, <1>2

\* A form whose call is over; its picker is free once its upload is.
LEMMA FormLoses ==
  ASSUME Requests, NEW t \in Tabs, NEW q, FormOK(t, q), NEW r, r.urls = q.urls,
         NEW c \in Calls, NEW y, calls' = [calls EXCEPT ![c] = y], y.tab = Null,
         r.picking = q.picking \/ Uploads(t, calls[c])
  PROVE  FormOK(t, r)'
<1>1. calls'[c].tab = Null /\ \A d \in Calls \ {c} : calls'[d] = calls[d]
  BY DEF Requests
<1>2. \A d \in Calls : calls'[d].tab = t => Budget(r, calls'[d])
  <2> SUFFICES ASSUME NEW d \in Calls, calls'[d].tab = t PROVE Budget(r, calls'[d])
    OBVIOUS
  <2>1. d # c /\ calls'[d] = calls[d] /\ Budget(q, calls[d])
    BY <1>1, ScenesAssumption DEF FormOK
  <2>2. Uploads(t, calls[c]) => calls[d].op # "pending"
    BY <2>1 DEF FormOK, Uploads
  <2> QED BY <2>1, <2>2 DEF Budget
<1>3. \A d, e \in Calls : Uploads(t, calls'[d]) /\ Uploads(t, calls'[e]) => d = e
  BY <1>1, ScenesAssumption DEF FormOK, Uploads
<1> QED BY <1>2, <1>3 DEF FormOK, Budget, Uploads

LEMMA PendingStoredKeeps ==
  ASSUME PicturesInv, NEW t \in Tabs, NEW c \in Calls, calls[c].tab = t, calls[c].pc = "ok",
         PendingStored(t, c), UNCHANGED Server
  PROVE  PicturesInv'
<1>1. PICK q, x, y, r :
        /\ q = tabs[t] /\ x = calls[c] /\ y = Onwards(t, c, "pending", "store")
        /\ r = [q EXCEPT !.urls = Append(q.urls, x.body), !.picking = x.left > 0]
  OBVIOUS
<1>2. IsTab(q) /\ FormOK(t, q) /\ q.page = "form" /\ x.op = "pending"
  BY <1>1, TabKnows DEF PendingStored
<1>3. IsTab(r) /\ r.page = "form" /\ r.urls = Append(q.urls, x.body) /\ r.picking = (x.left > 0)
  BY <1>1, <1>2 DEF IsTab, TabFields, Tab
<1>4. x.body \in PendingKey
  BY <1>1, <1>2 DEF PicturesInv, Requests, CallOK, CreateOK
<1>5. Budget(q, x) /\ x.left \in Nat /\ Len(q.urls) + x.left + 1 <= MaxImages
  BY <1>1, <1>2 DEF FormOK, Budget
<1>6. /\ r.urls \in Seq(PendingKey) /\ Len(r.urls) = Len(q.urls) + 1 /\ Len(q.urls) \in Nat
      /\ MaxImages \in Nat
  BY <1>2, <1>3, <1>4, AppendProperties, PicturesAssumption DEF FormOK
<1>7. /\ Quiet(y) /\ y.tab \in {t, Null}
      /\ y.tab = t => y.op = "pending" /\ x.left > 0 /\ y.left = x.left - 1
  BY <1>1, OnwardsIsQuiet DEF Starts
<1>8. calls' = [calls EXCEPT ![c] = y] /\ TabIs(t, r) /\ UNCHANGED <<albums, files, minted, lost, raced>>
  BY <1>1 DEF PendingStored, PicturesInv, Screens, TabIs, Server
<1>9. ~Hand(calls[c])
  BY OverIsQuiet
<1>10. Lands(t, r, y)
  BY <1>1, <1>2, <1>3, <1>7 DEF Lands, DraftPages
<1>11. calls'[c] = y /\ \A d \in Calls \ {c} : calls'[d] = calls[d]
  BY <1>8 DEF PicturesInv, Requests
<1>12. \A d \in Calls \ {c} : calls[d].tab = t => calls[d].op = "create"
  BY <1>1, <1>2 DEF FormOK, Budget, Uploads
<1>13. FormOK(t, r)'
  <2>1. Budget(r, y) \/ y.tab # t
    <3> SUFFICES ASSUME y.tab = t PROVE Budget(r, y)
      OBVIOUS
    <3>1. y.op = "pending" /\ x.left > 0 /\ y.left = x.left - 1 /\ r.picking
      BY <1>3, <1>7
    <3>2. y.left \in Nat /\ Len(r.urls) + y.left + 1 <= MaxImages
      BY <1>5, <1>6, <3>1
    <3> QED BY <3>1, <3>2 DEF Budget
  <2>2. \A d \in Calls : calls'[d].tab = t => Budget(r, calls'[d])
    BY <1>11, <1>12, <2>1 DEF Budget
  <2>3. \A d, e \in Calls : Uploads(t, calls'[d]) /\ Uploads(t, calls'[e]) => d = e
    BY <1>11, <1>12 DEF Uploads
  <2>4. Len(r.urls) <= MaxImages
    BY <1>5, <1>6
  <2> QED BY <1>6, <2>2, <2>3, <2>4 DEF FormOK, Budget, Uploads
<1> QED BY <1>8, <1>9, <1>10, <1>13, TabStep

LEMMA DraftChangedKeeps ==
  ASSUME PicturesInv, NEW t \in Tabs, NEW c \in Calls, calls[c].tab = t, calls[c].pc = "ok",
         DraftChanged(t, c), UNCHANGED Server
  PROVE  PicturesInv'
<1>0. PICK q, x, y, r, z :
        /\ q = tabs[t] /\ x = calls[c] /\ y = Onwards(t, c, "add", "check")
        /\ r = [q EXCEPT !.picking = x.left > 0] /\ z = Call(t, "load", "read", Null, 0)
  OBVIOUS
<1>1. PICK d : d \in Calls /\ Free(d) /\ calls' = [calls EXCEPT ![c] = y, ![d] = z]
  BY <1>0 DEF DraftChanged
<1>2. IsTab(q) /\ q.page \in {"draft", "failed"} /\ q.album \in Albums
  BY <1>0, <1>1, TabKnows DEF DraftChanged, TabOK
<1>3. IsTab(r) /\ r.page = q.page /\ r.album = q.album
  BY <1>0, <1>1, <1>2 DEF IsTab, TabFields, Tab
<1>4. /\ Quiet(y) /\ y.tab \in {t, Null}
      /\ y.tab = t => y.op = "add"
  BY <1>0, <1>1, <1>2, OnwardsIsQuiet DEF Starts
<1>5. Quiet(z) /\ z.tab = t /\ z.op = "load"
  BY <1>0, <1>1, <1>2, FreshCall DEF Starts
<1>6. d # c
  BY <1>0, <1>1, NoCallIsCall, ScenesAssumption DEF Free
<1>7. /\ DOMAIN calls' = Calls /\ calls'[c] = y /\ calls'[d] = z
      /\ \A e \in Calls \ {c, d} : calls'[e] = calls[e]
  BY <1>0, <1>1, <1>6 DEF PicturesInv, Requests
<1>8. ~Hand(calls[c]) /\ ~Hand(calls[d])
  BY <1>0, <1>1, OverIsQuiet DEF Free
<1>9. UNCHANGED <<albums, files, minted, lost, raced>>
  BY DEF Server
<1>10. Behind'
  <2>1. \A e \in Calls : \/ calls'[e] = calls[e]
                         \/ /\ Quiet(calls'[e])
                            /\ Hand(calls[e]) /\ calls[e].key \in files => calls[e].key \in lost'
    BY <1>4, <1>5, <1>7, <1>8
  <2> QED BY <1>7, <1>9, <2>1, QuietCalls DEF Behind, PicturesInv
<1>11. Screens'
  <2>1. \A e \in Calls, u \in Tabs : calls'[e].tab = u =>
           \/ /\ calls[e].tab = u /\ calls'[e].op = calls[e].op
              /\ u # t => calls'[e].left = calls[e].left
           \/ u = t /\ (calls'[e].op = "load" => r.page \in DraftPages)
    BY <1>2, <1>3, <1>4, <1>5, <1>7, ScenesAssumption DEF DraftPages
  <2>2. DOMAIN tabs' = Tabs /\ tabs'[t] = r /\ \A u \in Tabs \ {t} : tabs'[u] = tabs[u]
    BY <1>0, <1>1 DEF DraftChanged, PicturesInv, Screens
  <2>3. r.page # "form" /\ r.album \in Albums
    BY <1>2, <1>3
  <2> QED BY <1>0, <1>1, <1>3, <2>1, <2>2, <2>3, ScreensMove DEF PicturesInv
<1> QED BY <1>10, <1>11 DEF Behind, PicturesInv

\* The other answers.
LEMMA AnswersKeep ==
  ASSUME PicturesInv, NEW t \in Tabs, NEW c \in Calls, calls[c].tab = t, calls[c].pc = "ok",
         \/ ListingChanged(t, c) \/ DraftLoaded(t, c) \/ DetailsSaved(t, c) \/ AvatarStored(t, c)
         \/ (tabs[t].page # "left" /\ (Left(t, c) \/ ProfileSaved(t, c)))
         \/ Ignored(t, c),
         UNCHANGED Server
  PROVE  PicturesInv'
<1>1. PICK q, x : q = tabs[t] /\ x = calls[c]
  OBVIOUS
<1>2. TabOK(t, q) /\ IsTab(q) /\ (q.page = "form" => FormOK(t, q))
  BY <1>1, TabKnows
<1>3. UNCHANGED <<albums, files, minted, lost, raced>> /\ ~Hand(calls[c])
  BY OverIsQuiet DEF Server
<1>4. Quiet(NoCall) /\ NoCall.tab = Null
  BY NoCallIsQuiet
<1>5. CASE ListingChanged(t, c)
  <2>1. PICK y, r : /\ y = Onwards(t, c, "add", "check")
                    /\ r = [q EXCEPT !.shown = x.body, !.picking = x.left > 0]
    OBVIOUS
  <2>2. calls' = [calls EXCEPT ![c] = y] /\ TabIs(t, r) /\ q.page = "listing"
    BY <1>1, <1>5, <2>1 DEF ListingChanged, PicturesInv, Screens, TabIs
  <2>3. IsTab(r) /\ r.page = "listing" /\ r.album = q.album /\ q.album \in Albums
    BY <1>2, <2>1, <2>2 DEF IsTab, TabFields, Tab, TabOK
  <2>4. Quiet(y) /\ y.tab \in {t, Null} /\ (y.tab = t => y.op = "add")
    BY <1>1, <2>1, <2>3, OnwardsIsQuiet DEF Starts
  <2>5. Lands(t, r, y) /\ r.page # "form"
    BY <1>1, <2>2, <2>3, <2>4 DEF Lands, DraftPages
  <2> QED BY <1>3, <2>2, <2>5, TabStep
<1>6. CASE DraftLoaded(t, c)
  <2>1. PICK r : r = [q EXCEPT !.page = "draft", !.shown = x.body,
                               !.picking = q.picking /\ q.page = "draft"]
    OBVIOUS
  <2>2. calls' = [calls EXCEPT ![c] = NoCall] /\ TabIs(t, r) /\ q.page \in {"draft", "failed"}
    BY <1>1, <1>6, <2>1 DEF DraftLoaded, PicturesInv, Screens, TabIs
  <2>3. IsTab(r) /\ r.page = "draft" /\ r.album = q.album /\ q.album \in Albums
    BY <1>2, <2>1, <2>2 DEF IsTab, TabFields, Tab, TabOK
  <2>4. Lands(t, r, NoCall) /\ r.page # "form"
    BY <1>1, <1>4, <2>3 DEF Lands, DraftPages
  <2> QED BY <1>3, <2>2, <2>4, TabStep
<1>7. CASE DetailsSaved(t, c)
  <2>1. PICK r : r = [q EXCEPT !.shown = x.body, !.saving = FALSE]
    OBVIOUS
  <2>2. calls' = [calls EXCEPT ![c] = NoCall] /\ TabIs(t, r) /\ q.page = "listing"
    BY <1>1, <1>7, <2>1 DEF DetailsSaved, PicturesInv, Screens, TabIs
  <2>3. IsTab(r) /\ r.page = "listing" /\ r.album = q.album /\ q.album \in Albums
    BY <1>2, <2>1, <2>2 DEF IsTab, TabFields, Tab, TabOK
  <2>4. Lands(t, r, NoCall) /\ r.page # "form"
    BY <1>1, <1>4, <2>2, <2>3, ScenesAssumption DEF Lands, DraftPages
  <2> QED BY <1>3, <2>2, <2>4, TabStep
<1>8. CASE AvatarStored(t, c)
  <2>1. PICK y : y = Call(t, "avatar", "patch", x.body, 0)
    OBVIOUS
  <2>2. calls' = [calls EXCEPT ![c] = y] /\ TabIs(t, q) /\ q.page = "profile"
    BY <1>1, <1>8, <2>1 DEF AvatarStored, PicturesInv, Screens, TabIs
  <2>3. Quiet(y) /\ y.tab = t /\ y.op = "avatar"
    BY <2>1, FreshCall DEF Starts
  <2>4. Lands(t, q, y) /\ q.page # "form"
    BY <1>1, <1>2, <2>2, <2>3 DEF Lands, DraftPages
  <2> QED BY <1>3, <2>2, <2>4, TabStep
<1>9. CASE Left(t, c)
  <2>1. PICK r : r = Tab("left", Null, {})
    OBVIOUS
  <2>2. calls' = [calls EXCEPT ![c] = NoCall] /\ TabIs(t, r)
    BY <1>9, <2>1 DEF Left, PicturesInv, Screens, TabIs
  <2>3. IsTab(r) /\ r.page = "left"
    BY <2>1 DEF IsTab, TabFields, Tab
  <2>4. Lands(t, r, NoCall) /\ r.page # "form"
    BY <1>4, <2>3, ScenesAssumption DEF Lands, DraftPages
  <2> QED BY <1>3, <2>2, <2>4, TabStep
<1>10. CASE ProfileSaved(t, c)
  <2>1. PICK r : r = [q EXCEPT !.avatar = x.body, !.picking = q.picking /\ x.op # "avatar",
                               !.saving = q.saving /\ x.op # "profile",
                               !.dirty = q.dirty /\ x.op # "profile"]
    OBVIOUS
  <2>2. calls' = [calls EXCEPT ![c] = NoCall] /\ TabIs(t, r) /\ x.op \in {"avatar", "profile"}
    BY <1>1, <1>10, <2>1 DEF ProfileSaved, PicturesInv, Screens, TabIs
  <2>3. IsTab(r) /\ r.page = q.page /\ r.album = q.album
    BY <1>2, <2>1 DEF IsTab, TabFields, Tab
  <2>4. q.page # "form"
    BY <1>1, <1>2, <2>2 DEF FormOK, Budget
  <2>5. Lands(t, r, NoCall) /\ r.page # "form"
    BY <1>1, <1>2, <1>4, <2>3, <2>4, ScenesAssumption DEF Lands, TabOK
  <2> QED BY <1>3, <2>2, <2>5, TabStep
<1>11. CASE Ignored(t, c)
  <2>1. calls' = [calls EXCEPT ![c] = NoCall] /\ TabIs(t, q) /\ q.page = "left"
    BY <1>1, <1>11 DEF Ignored, PicturesInv, Screens, TabIs
  <2>2. Lands(t, q, NoCall) /\ q.page # "form"
    BY <1>1, <1>2, <1>4, <2>1, ScenesAssumption DEF Lands
  <2> QED BY <1>3, <2>1, <2>2, TabStep
<1> QED BY <1>5, <1>6, <1>7, <1>8, <1>9, <1>10, <1>11

\* What a failure leaves of a tab: its page, unless a draft cannot be read.
LEMMA AfterFailureIs ==
  ASSUME PicturesInv, NEW t \in Tabs, NEW c \in Calls, calls[c].tab = t, NEW q, q = tabs[t],
         NEW r, r = AfterFailure(t, c)
  PROVE  /\ IsTab(r) /\ r.album = q.album /\ r.urls = q.urls
         /\ r.page = q.page \/ (r.page = "failed" /\ q.page \in DraftPages \ {"left"})
         /\ q.page = "form" => r.picking = q.picking \/ Uploads(t, calls[c])
<1>1. TabOK(t, q) /\ IsTab(q) /\ (q.page = "form" => FormOK(t, q))
  BY TabKnows
<1>2. r \in {q, [q EXCEPT !.page = "failed"], [q EXCEPT !.picking = FALSE], [q EXCEPT !.saving = FALSE]}
  BY DEF AfterFailure
<1>3. IsTab(r) /\ r.album = q.album /\ r.urls = q.urls
  BY <1>1, <1>2 DEF IsTab, TabFields, Tab
<1>4. CASE q.page = "left" \/ calls[c].op # "load"
  <2>1. r \in {q, [q EXCEPT !.picking = FALSE], [q EXCEPT !.saving = FALSE]}
    <3>1. CASE q.page = "left"
      BY <3>1 DEF AfterFailure
    <3>2. CASE q.page # "left" /\ calls[c].op \in {"add", "remove", "pending", "avatar"}
      BY <3>2 DEF AfterFailure
    <3>3. CASE q.page # "left" /\ calls[c].op \notin {"load", "add", "remove", "pending", "avatar"}
      BY <3>3 DEF AfterFailure
    <3> QED BY <1>4, <3>1, <3>2, <3>3
  <2>2. r.page = q.page
    BY <1>1, <2>1 DEF IsTab, TabFields, Tab
  <2>3. q.page = "form" => calls[c].op \in {"pending", "create"}
    BY <1>1 DEF FormOK, Budget
  <2>4. q.page = "form" /\ calls[c].op = "create" => r = [q EXCEPT !.saving = FALSE]
    BY DEF AfterFailure
  <2>5. q.page = "form" /\ calls[c].op = "create" => r.picking = q.picking
    BY <1>1, <2>4 DEF IsTab, TabFields, Tab
  <2> QED BY <1>3, <2>2, <2>3, <2>5 DEF Uploads
<1>5. CASE q.page # "left" /\ calls[c].op = "load"
  <2>1. r = [q EXCEPT !.page = "failed"] /\ q.page \in DraftPages
    BY <1>1, <1>5 DEF AfterFailure, TabOK
  <2>2. r.page = "failed"
    BY <1>1, <2>1 DEF IsTab, TabFields, Tab
  <2> QED BY <1>3, <1>5, <2>1, <2>2 DEF DraftPages
<1> QED BY <1>4, <1>5

\* An error comes back, or nothing does after the server is done.
LEMMA FailuresKeep ==
  ASSUME PicturesInv, NEW t \in Tabs, NEW c \in Calls, calls[c].tab = t,
         calls[c].pc \in {"idle", "ok", "error"}, calls' = [calls EXCEPT ![c] = NoCall],
         tabs' = [tabs EXCEPT ![t] = AfterFailure(t, c)],
         UNCHANGED <<albums, files, minted, lost, raced>>
  PROVE  PicturesInv'
<1>1. PICK q, r, y : q = tabs[t] /\ r = AfterFailure(t, c) /\ y = NoCall
  OBVIOUS
<1>2. TabOK(t, q) /\ (q.page = "form" => FormOK(t, q))
  BY <1>1, TabKnows
<1>3. /\ IsTab(r) /\ r.album = q.album /\ r.urls = q.urls
      /\ r.page = q.page \/ (r.page = "failed" /\ q.page \in DraftPages \ {"left"})
      /\ q.page = "form" => r.picking = q.picking \/ Uploads(t, calls[c])
  BY <1>1, AfterFailureIs
<1>4. calls' = [calls EXCEPT ![c] = y] /\ TabIs(t, r) /\ ~Hand(calls[c])
  BY <1>1, OverIsQuiet DEF PicturesInv, Screens, TabIs
<1>5. Quiet(y) /\ y.tab = Null
  BY <1>1, NoCallIsQuiet
<1>6. Lands(t, r, y)
  BY <1>1, <1>2, <1>3, <1>5, ScenesAssumption DEF Lands, TabOK, DraftPages
<1>7. r.page = "form" => FormOK(t, r)'
  <2>1. r.page = "form" => q.page = "form"
    BY <1>3
  <2>2. Requests
    BY DEF PicturesInv
  <2> QED BY <1>2, <1>3, <1>4, <1>5, <2>1, <2>2, FormLoses
<1> QED BY <1>4, <1>6, <1>7, TabStep

\* The connection drops while the server works on: the call has no tab any more.
LEMMA HangUpKeeps ==
  ASSUME PicturesInv, NEW t \in Tabs, NEW c \in Calls, calls[c].tab = t,
         calls' = [calls EXCEPT ![c] = [calls[c] EXCEPT !.tab = Null, !.left = 0]],
         tabs' = [tabs EXCEPT ![t] = AfterFailure(t, c)],
         UNCHANGED <<albums, files, minted, lost, raced>>
  PROVE  PicturesInv'
<1>1. PICK q, r, x, y : /\ q = tabs[t] /\ r = AfterFailure(t, c) /\ x = calls[c]
                        /\ y = [x EXCEPT !.tab = Null, !.left = 0]
  OBVIOUS
<1>2. TabOK(t, q) /\ (q.page = "form" => FormOK(t, q))
  BY <1>1, TabKnows
<1>3. /\ IsTab(r) /\ r.album = q.album /\ r.urls = q.urls
      /\ r.page = q.page \/ (r.page = "failed" /\ q.page \in DraftPages \ {"left"})
      /\ q.page = "form" => r.picking = q.picking \/ Uploads(t, calls[c])
  BY <1>1, AfterFailureIs
<1>4. CallOK(x) /\ IsCall(x)
  BY <1>1 DEF PicturesInv, Requests, CallOK
<1>5. /\ IsCall(y) /\ y.tab = Null /\ y.op = x.op /\ y.pc = x.pc /\ y.album = x.album
      /\ y.key = x.key /\ y.read = x.read /\ y.seen = x.seen /\ y.next = x.next
      /\ y.urls = x.urls /\ y.body = x.body
  BY <1>1, <1>4 DEF IsCall, CallFields, NoCall
<1>6. /\ Holding(y) = Holding(x) /\ Deleting(y) = Deleting(x) /\ AtCommit(y) = AtCommit(x)
      /\ AtUnstore(y) = AtUnstore(x)
  BY <1>5 DEF Holding, Deleting, AtCommit, AtUnstore
<1>7. Known(y) = Known(x) /\ Hand(y) = Hand(x) /\ Engaged(y) = Engaged(x)
  BY <1>5, <1>6 DEF Known, Hand, Engaged
<1>8. CallOK(y)
  BY <1>4, <1>5, <1>6, <1>7 DEF CallOK, AddOK, RemoveOK, CreateOK
<1>9. calls' = [calls EXCEPT ![c] = y] /\ calls'[c] = y /\ \A d \in Calls \ {c} : calls'[d] = calls[d]
  BY <1>1 DEF PicturesInv, Requests
<1>10. Behind'
  <2>1. \A d \in Calls \ {c} : Holding(calls[d]) => calls[d].key \notin Known(y)
    BY <1>1, <1>7 DEF PicturesInv, Requests
  <2>2. AtCommit(y) => \A d \in Calls \ {c} : AtCommit(calls[d]) => calls[d].key # y.key
    BY <1>1, <1>5, <1>6 DEF PicturesInv, Requests
  <2>3. /\ Holding(y) => Holding(calls[c]) /\ y.key = calls[c].key
        /\ Hand(calls[c]) => Hand(y) /\ y.key = calls[c].key
    BY <1>1, <1>5, <1>6, <1>7
  <2> QED BY <1>8, <1>9, <2>1, <2>2, <2>3, OneCallBehind DEF Behind, PicturesInv
<1>11. Screens'
  <2>1. \A e \in Calls, u \in Tabs : calls'[e].tab = u =>
           \/ /\ calls[e].tab = u /\ calls'[e].op = calls[e].op
              /\ u # t => calls'[e].left = calls[e].left
           \/ u = t /\ (calls'[e].op = "load" => r.page \in DraftPages)
    BY <1>5, <1>9, ScenesAssumption
  <2>2. DOMAIN tabs' = Tabs /\ tabs'[t] = r /\ \A u \in Tabs \ {t} : tabs'[u] = tabs[u]
    BY <1>1 DEF PicturesInv, Screens
  <2>3. /\ r.page \in {"draft", "failed", "listing"} => r.album \in Albums
        /\ q.page \in DraftPages => r.page \in DraftPages
    BY <1>2, <1>3 DEF TabOK, DraftPages
  <2>4. r.page = "form" => FormOK(t, r)'
    <3> SUFFICES ASSUME r.page = "form" PROVE FormOK(t, r)'
      OBVIOUS
    <3>1. FormOK(t, q) /\ r.urls = q.urls /\ (r.picking = q.picking \/ Uploads(t, calls[c]))
      BY <1>2, <1>3
    <3>2. Requests /\ calls' = [calls EXCEPT ![c] = y] /\ y.tab = Null
      BY <1>5, <1>9 DEF PicturesInv
    <3> QED BY <3>1, <3>2, FormLoses
  <2> QED BY <1>1, <1>3, <2>1, <2>2, <2>3, <2>4, ScreensMove DEF PicturesInv
<1> QED BY <1>10, <1>11 DEF Behind, PicturesInv

\* Answers, refusals and dropped connections.
LEMMA TabsHear ==
  ASSUME PicturesInv, NEW t \in Tabs, NEW c \in Calls,
         Answered(t, c) \/ Refused(t, c) \/ AnswerLost(t, c)
  PROVE  PicturesInv'
<1>1. CASE Answered(t, c)
  <2>1. calls[c].tab = t /\ calls[c].pc = "ok" /\ UNCHANGED Server
    BY <1>1 DEF Answered
  <2>2. CASE PendingStored(t, c)
    BY <2>1, <2>2, PendingStoredKeeps
  <2>3. CASE DraftChanged(t, c)
    BY <2>1, <2>3, DraftChangedKeeps
  <2>4. CASE \/ ListingChanged(t, c) \/ DraftLoaded(t, c) \/ DetailsSaved(t, c) \/ AvatarStored(t, c)
             \/ (tabs[t].page # "left" /\ (Left(t, c) \/ ProfileSaved(t, c)))
             \/ Ignored(t, c)
    BY <2>1, <2>4, AnswersKeep
  <2> QED BY <1>1, <2>2, <2>3, <2>4 DEF Answered
<1>2. CASE Refused(t, c)
  BY <1>2, FailuresKeep DEF Refused, Server
<1>3. CASE AnswerLost(t, c)
  <2>1. /\ calls[c].tab = t /\ calls[c].pc # "error" /\ tabs' = [tabs EXCEPT ![t] = AfterFailure(t, c)]
        /\ UNCHANGED <<albums, files, minted, lost, raced>>
    BY <1>3 DEF AnswerLost
  <2>2. CASE Running(c)
    <3>1. calls' = [calls EXCEPT ![c] = [calls[c] EXCEPT !.tab = Null, !.left = 0]]
      BY <1>3, <2>2 DEF AnswerLost
    <3> QED BY <2>1, <3>1, HangUpKeeps
  <2>3. CASE ~Running(c)
    <3>1. calls' = [calls EXCEPT ![c] = NoCall] /\ calls[c].pc \in {"idle", "ok", "error"}
      BY <1>3, <2>3 DEF AnswerLost, Running
    <3> QED BY <2>1, <3>1, FailuresKeep
  <2> QED BY <2>2, <2>3
<1> QED BY <1>1, <1>2, <1>3

-----------------------------------------------------------------------------
(***************************************************************************)
(* The invariant holds, and what it says                                   *)
(***************************************************************************)
LEMMA OpeningShelves ==
  ASSUME Init
  PROVE  Shelves /\ Accounted /\ AlbumsAreWholeUnlessRaced
<1>1. PICK scene \in Scenes :
        /\ albums = scene.albums
        /\ files = {r.key : r \in SceneRows(scene)}
        /\ minted = Cardinality(files)
  BY DEF Init, SceneRows
<1>2. /\ albums \in [Albums -> Album] /\ IsFiniteSet(SceneRows(scene))
      /\ \A r \in SceneRows(scene) :
           r.key \in UploadKey /\ r.url = r.key /\ r.key[2] \in 1 .. minted
      /\ \A a, b \in Albums : \A r \in Rows(a), s \in Rows(b) : r.key = s.key => a = b /\ r = s
      /\ \A a \in Albums : Whole(albums[a]) /\ (albums[a].status = "ABSENT" => Rows(a) = {})
      /\ \A a \in Albums : albums[a].dropped = {}
  <2>1. \A r \in SceneRows(scene) : r.key \in UploadKey /\ r.url = r.key /\ r.key[2] \in 1 .. minted
    BY <1>1, ScenesAssumption
  <2>2. \A a, b \in Albums : \A r \in Rows(a), s \in Rows(b) : r.key = s.key => a = b /\ r = s
    BY <1>1, ScenesAssumption DEF Rows
  <2>3. \A a \in Albums : Whole(albums[a]) /\ (albums[a].status = "ABSENT" => Rows(a) = {})
    BY <1>1, ScenesAssumption DEF Rows
  <2>4. albums \in [Albums -> Album] /\ IsFiniteSet(SceneRows(scene))
    BY <1>1, ScenesAssumption
  <2>5. \A a \in Albums : albums[a].dropped = {}
    BY <1>1, ScenesAssumption
  <2> QED BY <2>1, <2>2, <2>3, <2>4, <2>5
<1>3. SceneRows(scene) = UNION {Rows(a) : a \in Albums}
  BY <1>1 DEF SceneRows, Rows
<1>4. \A a \in Albums : Rows(a) \subseteq SceneRows(scene) /\ IsFiniteSet(Rows(a))
  BY <1>2, <1>3, FS_Subset
<1>5. minted \in Nat
  <2> DEFINE key == [r \in SceneRows(scene) |-> r.key]
  <2>1. key \in Surjection(SceneRows(scene), files)
    BY <1>1 DEF Surjection
  <2>2. IsFiniteSet(files)
    BY <1>2, <2>1, FS_Surjection
  <2> QED BY <1>1, <2>2, FS_CardinalityType
<1>6. Shelves
  BY <1>1, <1>2, <1>4, <1>5 DEF Shelves, Minted
<1>7. Accounted
  BY <1>1, <1>3 DEF Accounted, OnRow
<1> QED BY <1>2, <1>6, <1>7 DEF AlbumsAreWholeUnlessRaced

LEMMA OpeningScreens ==
  ASSUME Init
  PROVE  Requests /\ Screens
<1>1. \A c \in Calls : calls[c] = NoCall
  BY DEF Init
<1>2. PICK x : x = NoCall
  OBVIOUS
<1>3. Quiet(x) /\ x.tab = Null /\ x.op = Null
  BY <1>2, NoCallIsQuiet
<1>4. \A c \in Calls : calls[c] = x
  BY <1>1, <1>2
<1>5. Requests
  <2>1. DOMAIN calls = Calls
    BY DEF Init
  <2> QED BY <1>3, <1>4, <2>1 DEF Requests, Quiet, Hand
<1>6. PICK scene \in Scenes : tabs = scene.tabs
  BY DEF Init
<1>7. \A t \in Tabs : TabOK(t, tabs[t])
  <2> SUFFICES ASSUME NEW t \in Tabs PROVE TabOK(t, tabs[t])
    OBVIOUS
  <2>1. PICK page \in Pages, a \in Albums \cup {Null} :
          /\ tabs[t] = Tab(page, a, tabs[t].shown)
          /\ page \in {"draft", "listing"} => a \in Albums
    BY <1>6, ScenesAssumption
  <2>2. PICK r : r = tabs[t]
    OBVIOUS
  <2>3. IsTab(r) /\ r.page = page /\ r.album = a /\ r.urls = <<>>
    BY <2>1, <2>2 DEF IsTab, TabFields, Tab
  <2>4. \A c \in Calls : calls[c].tab # t
    BY <1>3, <1>4, ScenesAssumption
  <2>5. FormOK(t, r)
    <3>1. r.urls \in Seq(PendingKey) /\ Len(r.urls) <= MaxImages
      BY ONLY <2>3, PicturesAssumption
    <3> QED BY ONLY <2>4, <3>1 DEF FormOK, Uploads
  <2>6. page # "failed"
    BY DEF Pages
  <2> QED BY <2>1, <2>2, <2>3, <2>4, <2>5, <2>6 DEF TabOK
<1> QED BY <1>5, <1>6, <1>7, ScenesAssumption DEF Screens

LEMMA Standstill ==
  ASSUME PicturesInv, UNCHANGED vars
  PROVE  PicturesInv'
<1>1. UNCHANGED <<albums, files, minted, raced, calls, tabs, lost>>
  BY DEF vars
<1>2. DOMAIN calls' = Calls /\ \A e \in Calls : calls'[e] = calls[e]
  BY <1>1 DEF PicturesInv, Requests
<1>3. Behind'
  BY <1>1, <1>2, QuietCalls DEF Behind, PicturesInv
<1>4. Screens'
  BY <1>1, <1>2, ScreensStand DEF PicturesInv
<1> QED BY <1>3, <1>4 DEF Behind, PicturesInv

LEMMA ServeCallKeeps ==
  ASSUME PicturesInv, NEW c \in Calls, ServeCall(c), UNCHANGED tabs
  PROVE  PicturesInv'
<1>1. CASE CheckAdd(c) \/ Upload(c) \/ BeginAdd(c) \/ InsertRow(c) \/ Cleanup(c)
  BY <1>1, CheckAddKeeps, UploadKeeps, BeginAddKeeps, InsertRowKeeps, DisposalKeeps
<1>2. CASE FindImage(c) \/ DeleteRow(c) \/ CommitRemove(c) \/ Unstore(c)
  BY <1>2, FindImageKeeps, DeleteRowKeeps, CommitRemoveKeeps, DisposalKeeps
<1>3. CASE UploadPending(c) \/ ResolveImageKeys(c) \/ CreateListing(c)
  BY <1>3, UploadPendingKeeps, ResolveKeeps, CreateListingKeeps
<1>4. CASE CreateDraft(c) \/ FindOwn(c) \/ ReplaceImages(c)
  BY <1>4, CreateDraftKeeps, FindOwnKeeps, ReplaceImagesKeeps
<1>5. CASE UpdateDetails(c) \/ ReadDraft(c) \/ UpdateMe(c) \/ FindMe(c)
  BY <1>5, ReadsKeep
<1>6. CASE PublishGate(c) \/ PublishDraft(c)
  BY <1>6, PublishGateKeeps, PublishDraftKeeps
<1> QED BY <1>1, <1>2, <1>3, <1>5, <1>6, <1>4 DEF ServeCall

LEMMA PressKeeps ==
  ASSUME PicturesInv, NEW t \in Tabs, Press(t)
  PROVE  PicturesInv'
<1>1. CASE \/ ChooseFiles(t) \/ RemovePicture(t) \/ Publish(t) \/ SaveDetails(t)
           \/ PickAvatar(t) \/ SaveProfile(t)
  BY <1>1, PageSendsKeep
<1>2. CASE PickPending(t) \/ Submit(t)
  BY <1>2, PickPendingKeeps, SubmitKeeps
<1>3. CASE Unpick(t) \/ OpenListing(t) \/ TypeProfile(t)
  BY <1>3, TabsAloneKeep
<1>4. CASE SendList(t)
  BY <1>4, SendListKeeps
<1> QED BY <1>1, <1>2, <1>3, <1>4 DEF Press

LEMMA StepKeeps ==
  ASSUME PicturesInv, [Next]_vars
  PROVE  PicturesInv'
<1>1. CASE \E t \in Tabs : Press(t)
  BY <1>1, PressKeeps
<1>2. CASE \E c \in Calls : ServeCall(c) /\ UNCHANGED tabs
  BY <1>2, ServeCallKeeps
<1>3. CASE \E t \in Tabs, c \in Calls : Answered(t, c) \/ Refused(t, c) \/ AnswerLost(t, c)
  BY <1>3, TabsHear
<1>4. CASE (Crash \/ \E a \in Listings : SuspendListing(a)) /\ UNCHANGED tabs
  BY <1>4, CrashKeeps, SuspendKeeps
<1>5. CASE UNCHANGED vars
  BY <1>5, Standstill
<1> QED BY <1>1, <1>2, <1>3, <1>4, <1>5 DEF Next

\* The invariant of the pictures, the requests and the pages: every step of a tab, of
\* a request, of an admin and of a crash preserves it.
THEOREM PicturesInvariance == PicturesSpec => []PicturesInv
<1>1. Init => PicturesInv
  BY OpeningShelves, OpeningScreens DEF PicturesInv
<1>2. PicturesInv /\ [Next]_vars => PicturesInv'
  BY StepKeeps
<1> QED BY <1>1, <1>2, PTL DEF PicturesSpec

LEMMA ShelvesLoad ==
  ASSUME Shelves
  PROVE  UploadedPicturesLoad
<1> SUFFICES ASSUME NEW a \in Albums, NEW r \in Rows(a), Folder(r.key) \in {"auction", "product"}
             PROVE  r.url \in files
  BY DEF UploadedPicturesLoad, UploadedRows
<1>1. r.key \in Key
  BY DEF Shelves, Rows, Album, ImageRow
<1>2. r.key \in UploadKey
  BY <1>1, KeysApart DEF Folder
<1> QED BY <1>2 DEF Shelves

LEMMA AccountedIs ==
  ASSUME Accounted
  PROVE  StoredFilesAreAccountedFor
<1> SUFFICES ASSUME NEW k \in files, Folder(k) \in {"auction", "product"}, k \notin lost,
                    ~Dropped(k)
             PROVE  \/ k \in {r.key : r \in UploadedRows}
                    \/ k \in UNION {InHand(c) : c \in Calls}
  BY DEF StoredFilesAreAccountedFor, Dropped
<1>1. CASE OnRow(k)
  <2>1. PICK a \in Albums : \E r \in Rows(a) : r.key = k
    BY <1>1 DEF OnRow
  <2>2. PICK r \in Rows(a) : r.key = k
    BY <2>1
  <2>3. r \in UploadedRows
    BY <2>2 DEF UploadedRows
  <2> QED BY <2>2, <2>3
<1>2. CASE \E c \in Calls : Hand(calls[c]) /\ calls[c].key = k
  <2>1. PICK c \in Calls : Hand(calls[c]) /\ calls[c].key = k
    BY <1>2
  <2>2. k \in InHand(c)
    BY <2>1 DEF InHand, Hand, Holding, AtUnstore, Is
  <2> QED BY <2>2
<1> QED BY <1>1, <1>2 DEF Accounted

\* The row of an uploaded picture never outlives its file, for any number of tabs,
\* requests, failures and crashes: removeDraftImage and removeImage delete the file
\* only after the row is gone for good, and the clean-up of addDraftImage and addImage
\* runs only when no row was written.
THEOREM UploadsAlwaysLoad == PicturesSpec => []UploadedPicturesLoad
<1>1. PicturesInv => UploadedPicturesLoad
  BY ShelvesLoad DEF PicturesInv
<1> QED BY <1>1, PicturesInvariance, PTL

\* Every file uploaded for a draft or a listing is on a row, in the hands of a request
\* that will give it one or delete it, or was lost to a fault: the catch block of
\* addDraftImage and addImage and the last statement of the removals leave no other way.
THEOREM FilesAreAccountedFor == PicturesSpec => []StoredFilesAreAccountedFor
<1>1. PicturesInv => StoredFilesAreAccountedFor
  BY AccountedIs DEF PicturesInv
<1> QED BY <1>1, PicturesInvariance, PTL

\* An album no transaction changed on an outdated read has its one lead, fits its limit
\* and is not empty while on sale: what addDraftImage, removeImage, publishDraft and
\* create check at their reads is enough as long as nobody commits in between.
THEOREM AlbumsStayWhole == PicturesSpec => []AlbumsAreWholeUnlessRaced
<1>1. PicturesInv => AlbumsAreWholeUnlessRaced
  BY DEF PicturesInv
<1> QED BY <1>1, PicturesInvariance, PTL
=============================================================================
