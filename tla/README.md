# BidNest in TLA+

Specifications, model-checking configurations and machine-checked proofs for the
BidNest auction marketplace: a NestJS API over PostgreSQL through Prisma, two
Socket.IO gateways, and a Next.js client. The modules form five families, each
composed over the rows it shares:

* the **auction core** of the API: bidding, settlement, the lifecycle timer, the
  seller's desk and admin cancellation, in one process that may crash;
* the **shop**: listings, carts, offers, checkout, parcels, and the buyer's
  screens over them;
* the **accounts**: sign-in, recovery, renewal and moderation, with the pages and
  the server-side session callback of the web app;
* **realtime**: chat, notifications, support, order pages and hearts, over sockets
  and a query cache;
* the **arena** (one live auction and the tabs that watch it) and the **pictures**
  (rows and files of drafts, listings and avatars, and the pages that send them).

## 1. The system

| Component | State it keeps | Operations | Modelled by |
|---|---|---|---|
| Bidding (`bid/`) | bids, extensions, price, count, end and version of the auction row | `placeBid` | `Bidding` |
| Settlement (`auction.service.ts`) | status, winner, price, `ENDED` event, notifications | `settleAuction`, `findPublicAuction` | `Settlement` |
| Lifecycle timer | `reconciling` flag, batch in hand | `reconcileLifecycle` | `Lifecycle` |
| Seller's desk | draft contents, schedule, pictures, status | create, edit, publish, cancel, add and remove a picture | `SellerDesk`, `Pictures`, `PicturePages` |
| Admin auction moderation | status, event, notifications | `cancelAuction` | `SellerDesk` |
| Products and stock (`product/`, `admin/products`) | listing rows, admin actions | create, edit, restock, pause, activate, remove, take down, reinstate | `Catalogue` |
| Cart | lines | add, update, remove, clear | `Basket` |
| Offers (`ai-tools/negotiator*`) | offers, accept tokens | `negotiate`, redeem | `Haggling` |
| Checkout, orders, payment | payments, orders, items | `checkout` | `Checkout` |
| Shipment | parcel status and events, restock | `updateStatus` | `Parcels` |
| Buyer's screens | cached cart, ticks, receipt, failure screen | open, tick, pay, retry | `ShopFront` |
| Sessions and sign-in (`auth/`) | accounts, sessions, codes, links, devices | login, verify, resend, refresh, logout, forgot, reset, change | `AuthStore`, `SignIn` |
| OAuth sign-in | linked identities | `oauthLogin`, `verifyOAuth` | `SignIn`, `LoginPages` |
| Web sign-in pages, renewal | cookies, pages, the map of spent tokens | forms, route handlers, `jwt`, `apiFetch` | `LoginPages`, `Renewal` |
| Admin user moderation | account status, sessions | `changeUserStatus` | `SignIn` |
| Chat, notifications | conversations, messages, read marks, notices | open, send, list, mark | `Talk` |
| Support chat (`support-chat/`, `admin/support`) | cases, what was seen | ask, escalate, claim, reply, resolve | `SupportDesk` |
| Order pages | query cache, buttons | read, press | `OrderPages` |
| Watchlists | rows, cached list and count | watch, unwatch | `Hearts` |
| Sockets and rooms (`realtime/`) | rooms of each socket | connect, join, emit, drop | `Channels`, `LiveRoom` |
| Live arena, presence | arena on screen, participant rows, registry | `getArena`, join, leave, wake-ups, bid form, result page | `LiveRoom`, `ArenaScreen` |
| Pictures, uploads, storage | picture rows, files, avatar | upload, remove, claim, publish gate | `Pictures`, `PicturePages` |
| Profiles | avatar, auto-reply | `updateMe`, `setAutoReplyMessage` | partly: `Pictures`, `Talk` |
| Categories | a two-level tree | admin edits | not modelled |
| Price estimator, mail, configuration, health, admin reads, browsing pages, seeds | none of their own | input and output | not modelled |

Components of the API meet in the database and in nothing else: every operation
is a Prisma call or transaction that reads rows, checks them, and writes, and
announces after the commit. Nothing sets an isolation level, so PostgreSQL runs
them at READ COMMITTED: **what a transaction read may be stale when it writes**,
and only what the guard of its write repeats is insisted on. The web client meets
the API over HTTP, where answers are lost and overtake each other, and over
sockets, which deliver in order and forget everything when they drop. What is
hard about the system:

* guarded and unguarded writes over stale reads: bids, settlements, edits,
  checkouts, parcels, picture rows, support cases, refresh tokens;
* the time a bid is judged by, captured before its transaction opens;
* retries of what may already have been done: a bid, a refresh, a payment, a form;
* money charged before the order that it pays for;
* external effects next to a transaction: the image store, the payment provider;
* a crash between a commit and its announcement;
* screens that must catch up with events they never heard, from answers that come
  back in any order, and state changed ahead of the server and rolled back.

The complete list, at the lines where it bites, is under `hazards` in
`PROJECT.json`; each names the properties that would catch it going wrong.

### What makes each component correct

| Part | Properties |
|---|---|
| Bidding | the ledger is that of a serial order of the bids (`LedgerSound`); the end is the published one plus earned extensions (`DeadlineEarned`); an id is one bid, whoever retries (`RetriesAreOneBid`); exactly the displaced leader hears (`LeadChangesTold`) |
| Settlement | a sale names a recorded bid above the reserve (`SaleGrounded`), is final (`ResultsAreFinal`), and everybody with a stake hears one ending (`EndingsToldOnce`) |
| Timer, desk | nothing published waits for ever (`AuctionsMoveOn`); terms stand once bidding is open (`OpenTermsStand`) |
| Auction core | the audit log tells what the rows tell (`AuditTrailAgrees`), nothing is announced that is not on record, or twice (`AnnouncedOnceCommitted`), and the whole refines an abstract auction (`ImplementsContract`) |
| Shop | stock is conserved and never negative (`StockConserved`); orders match their charge (`OrdersMatchCharge`); a lot and an accepted offer are paid once (`LotsPaidOnce`, `OffersSpentOnce`); a discount was offered first, and still stood (`DiscountsWereOffered`); parcels walk forward (`ParcelsWalkForward`) |
| Buyer's screens | a receipt stands (`ReceiptsStand`); a refusal is right about the money (`RefusalsTellTheTruth`) |
| Accounts | a code opens one session and a link sets one password (`CodesOpenOneDoor`); every session rests on a second factor of its own account (`SecondFactorHeld`); an account is entered one way, the one it was opened for (`OneWayIn`); the web app never trips the API's replay detection (`OwnClientNeverReplays`) and a sign-in has one live token (`OneLiveToken`) |
| Realtime | a screen at rest shows what the API would answer (`RestingScreensAreCurrent`); an answered press is on its page (`PressesAreShown`); hearts agree with the rows once presses are over (`HeartsTellTheTruth`); receipts and handovers are earned (`ReceiptsAreEarned`, `HandoverEarned`); a reply is seen or dotted (`RepliesAreNoticed`) |
| Arena | a result is read whole (`ResultsAreWhole`); watchers are current, but for edits in the lobby (`WatchersAreCurrent`); seats are given up (`SeatsAreReleased`); a retried press is one bid (`PressesAreOneBid`); the end comes on screen (`EndsAreShown`) |
| Pictures | rows point at files (`UploadedPicturesLoad`), files are on rows, unless a list replaced them (`StoredFilesAreAccountedFor`), albums are whole (`AlbumsAreWholeUnlessRaced`) |

## 2. The modules

```
AuctionRules              minimum bid, anti-sniping, reserve, publish gate, leader
  AuctionStore            rows, audit log, notifications, announcements, clock
    Bidding  Settlement  Lifecycle  SellerDesk
      AuctionHouse        all of them, crashes, properties  MCAuctionHouse
        AuctionHouseProofs    types, ledger, sales, terms
          AuctionRecordProofs what is on record, and the refinement
  LiveRoom                one live auction on the server: arena reads, seats, gateway
    ArenaScreen           the arena page: hooks, reads, bid form, result
      Arena               scenes, fairness, properties      MCArena
        ArenaProofs
AuctionContract           what an auction promises; AuctionHouse implements it

ShopStore                 listings, carts, payments, orders, parcels
  Catalogue  Basket  Parcels  Haggling
                              Checkout
    Shop                  all of them, properties           MCShop
      ShopFront           the buyer's tabs over the shop    MCShopFront
      ShopProofs          both, and sums over finite sets

AuthStore                 accounts, sessions, codes, links, devices
  SignIn                  the endpoints, one statement at a time
    LoginPages            pages, route handlers, cookies
      Renewal             the jwt callback and apiFetch
        Accounts          scenes, properties                MCAccounts
          AccountsProofs

Channels                  sockets, rooms, requests out of order, a tab's query cache
  Talk  SupportDesk  OrderPages  Hearts
    Realtime              all of them, scenes, properties   MCRealtime
      RealtimeProofs

Pictures                  albums, files, avatar, calls
  PicturePages            the four pages, properties        MCPictures
    PicturesProofs
```

### State

Tables are functions from ids, or sequences in insertion order; an id the
database mints is the position of its row. Each operation in flight is a record
with a program counter, what it read and what it is about to emit (`calls`,
`settling`, `pass`, `desk`; `shelf`, `cartCalls`, `checkouts`, `parcelCalls`;
`auth`, `read`; `sends`, `deskCalls`, `presses`, `toggles`; `seating`,
`joining`). A tab or a screen is a record of what it shows, what it has asked
for, and its socket (`tabs`, `page` and `jar`, `screen`, `tab`). Variables that
exist for a property only are marked *history* where they are declared
(`provided`, `behind`, `slipped`, `pages`, `raced`), and so are columns: `ways` of an
account, `edition` of an auction on show, `asked` and `decidedAt` of an offer, `lists`,
`listed` and `dropped` of an album.

### Grain of atomicity

A read is a step of its own. A guarded `updateMany` takes the row lock,
re-evaluates its guard on the committed row and holds the lock to the commit, so
the write and everything its transaction does after it is one step; the emits
after the commit are another, which a crash can cut off. A write by primary key
without a guard is a step that takes whatever it read. Where the code reads twice
in a row with nothing in between that depends on the order, the model has one
step; `getArena`, whose reads matter, keeps the two that can disagree. A burst
of `deleteMany`/`create` in a sign-in transaction reads when it starts and writes
when it commits, so two of them can pass each other. A request of a page is
sent, served and answered in three steps; the answer may be lost. What is read in
one statement and written in a later one stays apart, by an `await` or not: the page
of a thread and the marking of what was new on it (`ServeRead`, `MarkRead`), the
recent offers and the offer they allow (`ReadOffers`, `InsertOffer`), the status of an
auction and the replacement of its pictures (`FindOwn`, `ReplaceImages`).
`ReplaceImages` runs from the guarded write to the commit as one step: the write
locks the auction's row, which every other transaction on its pictures updates too.

| Code | Actions |
|---|---|
| `placeBid` | `ReceiveBid`, `LookupRequest`, `ReadAuction`, `AcceptBid`, `CollideOnRequest`, `LoseRace`, `AnswerLostRace`, `AnnounceBid` |
| `findPublicAuction`, `settleAuction` | `FindPublicAuction`, `SettleRead`, `SettleDecide`, `SettleWrite`, `SettleLost`, `SettleAnnounce` |
| `reconcileLifecycle` | `BeginPass`, `StartAuction`, `SkipStart`, `AnnounceStart`, `BeginSettling`, `SettleNext`, `EndPass`, `PassFails` |
| seller's and admin's auction endpoints | `CreateDraft`, `Begin`, `Publish`, `UpdateOwnAuction`, `Cancel`, `AddDraftImage`, `RemoveDraftImage`, `Refuse`, `AnnounceCancel` |
| death and restart of the process | `Crash`, `CrashCheckout`, `Restart`, `RestartWeb` |
| `ProductService`, `AdminProductsService` | `CreateProduct`, `ReadProduct`, `CountOrders`, `WriteProduct` |
| `CartService` | `ReadForAdd`, `ReadLine`, `WriteCart`, `ClearCart` |
| `negotiate`, `verifyAndConsumeAcceptToken` | `ReadListing`, `ReadOffers`, `InsertOffer`, `verifyAndConsumeAcceptToken` |
| `checkout` | `StartCheckout`, `PriceCart`, `PriceAuction`, `PriceOffer`, `ChargeSession`, `WriteOrders`, `LoseOrders`, `AnnounceOrders` |
| `updateStatus` of a parcel | `LoadParcel`, `MoveParcel`, `LoseParcel`, `AnnounceParcel` |
| cart and checkout pages | `OpenCart`, `FetchCart`, `Tick`, `Proceed`, `OpenLot`, `OpenOffer`, `Pay`, `Arrive`, `Answered`, `NoAnswer`, `Retry` |
| `AuthService` and what it calls | `BeginLogin`, `Trust`, `Cooldown`, `BurnCodes`, `CreateCode`, `FindCandidate`, `ClaimCode`, `OpenSession`, `RememberDevice`, `BeginRefresh`, `Rotate`, `CutReplayed`, `ClaimLink`, `SetPassword`, `CutSessions`, `ForgetDevices`, `ChangeStatus`, ... |
| `refresh.ts`, the `jwt` callback, `apiFetch` | `jwt`, `follow`, `RefreshAnswered`, `catchUp`, `ForgetSpent`, `apiFetch`, ... |
| `UserGateway` and the channel hooks | `handleConnection`, `JoinRoom`, `emitToRoom`, `LoseSocket`, `useUserChannel` |
| `AuctionGateway`, `PresenceRegistry`, `LiveService` | `JoinRoom`, `emitToAuction`, `Register`, `releaseSocket`, `JoinWritten`, `LeaveWritten`, `ReadAuction`, `ReadRest` |
| `listMessages` | `ServeRead`, `MarkRead`, `ShowRead` |
| `updateOwnAuction` | `UpdateOwnAuction` (its row), `FindOwn`, `ReplaceImages` (its pictures), `updateOwnAuction` (what a room sees of it) |
| `createDraft`, `POST /products` with addresses | `CreateDraft`, `ResolveImageKeys`, `CreateListing` |
| picture endpoints and pages | `CheckAdd`, `Upload`, `BeginAdd`, `InsertRow`, `Cleanup`, `FindImage`, `DeleteRow`, `CommitRemove`, `Unstore`, and one action per button |

### What is abstracted

* Money and time are natural numbers (money in satang, percentages in hundredths,
  rounding kept); wording, masking, mappers and layout are left out.
* Tokens, codes, links and ids are positions: they cannot be guessed or collide.
* Auctions: columns a request cannot leave blank, the category and `deletedAt`
  are not carried; `SellerDesk` counts pictures, `Pictures` has their positions,
  flags and files. Watchers of an auction are fixed; admins are not users. A
  request id belongs to one user's client (`MinterOf`).
* Ties in an order the code breaks by id may fall either way.
* Notifications are a set: `EndingsToldOnce` says which ending a person is told of, and
  that it is the one that happened; that it is written once rests on the single `ENDED`
  or `CANCELLED` event of `AuditTrailAgrees`, whose transaction writes them. Of the seller
  of a cancelled auction it says that they hear of nothing else, since only an admin's
  cancellation tells them.
* `LiveRoom` keeps of bidding and settlement the interleavings a watcher can tell
  apart. A socket's delay in the arena is part of the request it starts.
* The assistant's answer is one of *answer*, *fallback*, *exhausted*; the
  negotiator's wording decides nothing; the payment provider declines one total.
* React Query is modelled from how the pages use it (end of `Channels`): joining
  of fetches, invalidation, cancellation, snapshots. It is external code, as are
  Socket.IO's reconnection, the image store and the identity providers.

## 3. Runs

A run of a composed family starts from one of several *scenes* (or *casts*): which
calls, tabs and rows a behaviour has. They are chosen in the initial state, so one
run covers them all, while the product of everything with everything, which adds
states and no new meeting of two writers, is left out. The bounds are constants of
the modules, used in the guards of actions: `MaxTime`/`MaxClock` on the clock,
`MaxFaults` and `MaxLosses` on crashes, dropped sockets and failed requests,
`MaxDrops` on lost answers, `MaxReads` on requests a screen has under way,
`MaxRows`, `MaxMessages`, `MaxSaid`, `MaxMinted`, `MaxChosen`, `MaxListed` on rows, files
and lists of addresses, `ThreadPage` on a page of a thread,
and the finite sets of executions: a finished one is not reused, a retry is another.

| Run | Instance | Properties |
|---|---|---|
| `bid_races` | 3 calls; either 2 bidders race, retry and raise on one auction with the timer and the clock to 2, or one request id comes back with another amount and for another auction, with a crash (`OneStory`) | `LedgerSound`, `DeadlineEarned`, `LeadChangesTold`, `RetriesAreOneBid`, `ImplementsContract` |
| `crashes` | 1 call, a reader, the timer, 2 desk executions (publish, both cancellations), a watcher, 1 fault | `AnnouncedOnceCommitted`, `AuditTrailAgrees`, `EndingsToldOnce`, `SaleGrounded`, `ResultsAreFinal` |
| `seller_desk` | 3 desk executions of every seller operation, whole and partial edits, timer | `TypeOK`, `OpenTermsStand` |
| `moving_on` | 2 auctions, batch of 1, publish and edit, 1 fault, fairness | `AuctionsMoveOn` |
| `settle_race` | 2 calls and the timer | `SoldToHighestBid` (violated) |
| `shop` | 3 listings, 2 buyers, a lot; payments against parcels and a restock, offers, catalogue against a payment, carts against each other; 1 crash | `StockConserved`, `OrdersMatchCharge`, `LotsPaidOnce`, `OffersSpentOnce`, `DiscountsWereOffered`, `ParcelsWalkForward` |
| `shop_front` | 2 tabs of one buyer, a third cart, a restock or an offer, 1 lost answer, 1 crash | `ReceiptsStand`, `RefusalsTellTheTruth` |
| `accounts` | 6 scenes: two browsers at a password account, two people at one browser, providers against the form, recovery, renewal by parallel reads, desks | `CodesOpenOneDoor`, `SecondFactorHeld`, `OneWayIn`, `OwnClientNeverReplays`, `OneLiveToken` |
| `reset_race` | a reset beside a refresh | `ResetCutsSessions` (violated) |
| `realtime` | 18 scenes of one or two screens with one to three calls and one loss; pages of 2 in threads of up to 3 messages | `RestingScreensAreCurrent`, `PressesAreShown`, `HeartsTellTheTruth`, `ReceiptsAreEarned`, `HandoverEarned`, `RepliesAreNoticed` |
| `arena` | 9 scenes of one or two tabs: a bid, an extension and the end; a sale; a start, an edit or a cancellation; two tabs of one person; seats taken and given up; a form whose answers are lost | `ResultsAreWhole`, `WatchersAreCurrent`, `SeatsAreReleased`, `PressesAreOneBid`, `EndsAreShown` |
| `pictures` | 8 scenes: 2 tabs on a draft or a listing, the new-listing form, the profile form, an API client with lists of up to 3 addresses; 3 calls, 3 files, 1 fault | `UploadedPicturesLoad`, `StoredFilesAreAccountedFor`, `AlbumsAreWholeUnlessRaced` |

Why the bounds suffice. *Auctions*: window, extension, cap and batch are one, so
every limit is reached inside the clock's bound; a lost update needs two calls, a
wrong sequence after it a third; a double settlement two settlers; a stale desk
write one desk execution and one other writer; starvation by a batch two auctions.
*Shop*: a lost unit needs two writers of one row, a restock between a read and a
write a third; the discount rounds (7 at 80% is 5.6), so a total rounded in
another place differs. *Accounts*: two presenters of one token, and a third
request that burns it; the clock passes every lifetime. *Realtime and arena*: two
requests under way and one socket loss give every order of answer, event and loss
a single screen can meet; a second screen of the same person, or of the other
side, writes between them; a thread of three messages is longer than its page, and one more
than the page that is being marked. *Pictures*: two files fill an album, three overfill
it, and so does a list of three addresses, all copies of one: of several addresses no
property tells apart, only the repeated one has a case of its own (it is claimed once).
`OneStory` only separates two stories told over the same constants. Symmetry sets
permute executions that no definition tells apart; in `accounts` every scene is
paired with its mirror image, so that browsers are alike too.

Deadlock is checked for the auction core (the timer can always begin a pass) and
the shop (`ShopAtRest` names the states in which every call is over). In the
other families everybody may simply stop: all calls used, the clock at its bound.

Every property of a passing run has a mutant of the code it is about (`mutants` in
`PROJECT.json`): with that definition replaced by the plausible slip beside it in
its module (`..._...`), TLC finds the property violated.

### Runs that find a disagreement

* `settle_race` / `SoldToHighestBid`: a bid captured before the end commits
  between settlement's read of the highest bid and its write, which is guarded on
  `ACTIVE` only. The bid is accepted and announced, and an earlier one wins. A
  guard on `rowVersion`, as bidding has, would close this.
* `reset_race` / `ResetCutsSessions`: `rotate` revokes by primary key and inserts
  the successor without looking whether the session is still live. A refresh that
  looked the session up before a reset revoked it leaves a session of the old
  password alive. A guard on `revokedAt: null` with a count would close this.

### Fairness

`FairSpec` of `AuctionHouse` assumes weak fairness of the clock and of the timer's
own steps: Nest's `@Interval` keeps calling `reconcileLifecycle`, the `finally`
resets the flag, and a query ends or throws. Nothing is assumed of clients. Faults
are bounded, so a settlement that fails for ever is outside what `AuctionsMoveOn`
says. `ArenaFairness` assumes that time passes, that the lifecycle timer runs,
that a request is answered or fails, and that a due browser timer rings. Nobody
has to open, connect, close or bid, and no event has to be emitted or heard:
`EndsAreShown` holds with no socket at all.

## 4. Proofs

Seven modules prove, with TLAPS, what the runs check on small instances, for every
value of the constants: any sets of auctions, users, people, browsers, listings,
sessions, tabs, screens, conversations, cases, calls and files, and any limits.

| Module | Theorem | Statement |
|---|---|---|
| `AuctionHouseProofs` | `Invariance` | `Spec => []Inv` |
| | `TypeCorrect` | `Spec => []TypeOK` |
| | `LedgerIsSound` | `Spec => []LedgerSound` |
| | `SalesAreGrounded` | `Spec => []SaleGrounded` |
| | `OutcomesAreFinal` | `Spec => ResultsAreFinal` |
| | `TermsStandOnceOpen` | `Spec => OpenTermsStand` |
| `AuctionRecordProofs` | `DeadlinesAreEarned` | `Spec => []DeadlineEarned` |
| | `LeadsAreTold` | `Spec => []LeadChangesTold` |
| | `RetriesStandForOneBid` | `Spec => []RetriesAreOneBid` |
| | `AuditTrailsAgree` | `Spec => []AuditTrailAgrees` |
| | `EndingsAreToldOnce` | `Spec => []EndingsToldOnce` |
| | `AnnouncementsFollowCommits` | `Spec => []AnnouncedOnceCommitted` |
| | `HouseImplementsContract` | `Spec => ImplementsContract` (refinement) |
| `ShopProofs` | `ShopInvariance` | `ShopSpec => []ShopInv` |
| | `ShopIsWellTyped` | `ShopSpec => []ShopTypeOK` |
| | `StockIsConserved` | `ShopSpec => []StockConserved` |
| | `ChargesAreMatched` | `ShopSpec => []OrdersMatchCharge` |
| | `LotsArePaidOnce` | `ShopSpec => []LotsPaidOnce` |
| | `OffersAreSpentOnce` | `ShopSpec => []OffersSpentOnce` |
| | `DiscountsAreOffered` | `ShopSpec => []DiscountsWereOffered` |
| | `ParcelsOnlyWalkForward` | `ShopSpec => []ParcelsWalkForward` |
| | `FrontInvariance` | `FrontSpec => []FrontInv` |
| | `ReceiptsAreKept` | `FrontSpec => []ReceiptsStand` |
| | `RefusalsAreTrue` | `FrontSpec => []RefusalsTellTheTruth` |
| `AccountsProofs` | `AccountsAreWellTyped` | `AccountsSpec => []AccountsTypeOK` |
| | `OneDoorPerCode` | `AccountsSpec => []CodesOpenOneDoor` |
| | `SecondFactorsAreHeld` | `AccountsSpec => []SecondFactorHeld` |
| | `OneWayInPerAddress` | `AccountsSpec => []OneWayIn` |
| | `OwnClientIsTrusted` | `AccountsSpec => []OwnClientNeverReplays` |
| | `OneTokenLives` | `AccountsSpec => []OneLiveToken` |
| `PicturesProofs` | `PicturesInvariance` | `PicturesSpec => []PicturesInv` |
| | `UploadsAlwaysLoad` | `PicturesSpec => []UploadedPicturesLoad` |
| | `FilesAreAccountedFor` | `PicturesSpec => []StoredFilesAreAccountedFor` |
| | `AlbumsStayWhole` | `PicturesSpec => []AlbumsAreWholeUnlessRaced` |
| `ArenaProofs` | `ArenaInvariance` | `ArenaSpec => []ArenaInv` |
| | `ResultsStayWhole` | `ArenaSpec => []ResultsAreWhole` |
| | `WatchersStayCurrent` | `ArenaSpec => []WatchersAreCurrent` |
| | `SeatsStayReleasable` | `ArenaSpec => []SeatsAreReleased` |
| | `PressesStayOneBid` | `ArenaSpec => []PressesAreOneBid` |
| `RealtimeProofs` | `RealtimeInductive` | `RealtimeSpec => []RealtimeInv` |
| | `RealtimeScreensAreCurrent` | `RealtimeSpec => []RestingScreensAreCurrent` |
| | `RealtimePressesAreShown` | `RealtimeSpec => []PressesAreShown` |
| | `RealtimeHeartsTellTheTruth` | `RealtimeSpec => []HeartsTellTheTruth` |
| | `RealtimeReceiptsAreEarned` | `RealtimeSpec => []ReceiptsAreEarned` |
| | `RealtimeHandoverEarned` | `RealtimeSpec => []HandoverEarned` |
| | `RealtimeRepliesAreNoticed` | `RealtimeSpec => []RepliesAreNoticed` |

Every invariant and every action property of the passing runs is stated by one of
these theorems, and so is the refinement; what is left to TLC alone is liveness.

They rest on the named assumptions of the modules and on nothing else, and TLC
evaluates each assumption in the runs: in the auction core `RulesAssumption`,
`StoreAssumption`, `BiddingAssumption`, `SettlementAssumption`,
`LifecycleAssumption`, `DeskAssumption`, `HouseAssumption`; in the shop
`RowsAssumption`, `CatalogueAssumption`, `BasketAssumption`, `HagglingAssumption`,
`CheckoutAssumption`, `ShopAssumption`, `FrontAssumption`; in the accounts
`AuthAssumption`, `BrowsersAssumption`, `RenewalAssumption`, `AccountsAssumption`;
for the pictures `PicturesAssumption`, `KeysAssumption`, `ScenesAssumption`; for the
arena `RulesAssumption`, `ScreenAssumption`, `ArenaAssumption`; for realtime
`ChannelsAssumption`, `TalkAssumption`, `DeskAssumption`, `OrderAssumption`,
`HeartAssumption`, `RealtimeScenes`, `RealtimePasts`. They
type the constants, keep `Null` apart from values, make the sets that are added
up finite, and say that a scene is a state the program can be in. An inductive
invariant was put to TLC, conjunct by conjunct, before it was proved.

### Auction core

`LedgerSound` and `SaleGrounded` are not inductive: a step writes what an earlier
step of the same execution read. `Inv` adds what is known of

* a row (`RowOK`): no bids before it opens, and an increment above zero, so that
  the last bid of the ledger is the one the leading order finds;
* a bidding call (`CallOK`): at `write`, the row it read has a version no newer
  than the committed one, and if the versions agree it *is* the committed row, so
  the minimum it was judged by is the current one;
* a settlement (`SettlerOK`): from its check to its write the auction has opened,
  the reserve it read is the row's (terms stand once open), and the bid it chose
  is in the ledger (ledgers only grow);
* a desk operation (`DeskOK`): at `write`, the status it read is one its checks
  let through, `DRAFT` or `SCHEDULED` for an edit or a seller's cancellation.

Each action is shown to preserve `Inv` through two shapes: rows left alone
(`RowsUntouched`) and one row replaced by a lawful successor (`RowReplaced`);
`StepLawful` collects what a step may do to a row and gives both action
properties.

`AuctionRecordProofs` sorts the steps once more, by what they do to the record:
every step leaves it alone or is one of eight kinds of write (`StepKinds`), and
each property is shown once per kind, whichever worker, stale read or crash lies
behind it. `AuditTrailAgrees` follows from `Stories`, which says how many entries
of each type a log has in each status; `RetriesAreOneBid` from `RetryInv` (a
request is on one bid, and a call that was told a bid was told that one);
`AnnouncedOnceCommitted` from `BoxInv` (what a worker holds for sending is on
record, unsent, and in nobody else's hands). The refinement is shown on `View`,
the contract's variables as the record shows them: a quiet step stutters, and each
kind of write is one step of the contract or a stutter.

### Shop

`ShopInv` says what the parts know of each other: listings and the calls that
write them (`Goods`), carts (`Baskets`), offers with the counters before them
(`Bargains`), sessions with what they priced, were charged and spent (`Sales`),
orders with their charge, their parcel and its history (`Ledger`), lots in one
order (`LotsApart`), what was sold was listed (`Listed`), the stock equation
(`Conserved`), parcel calls (`Errands`) and who was told (`Told`). The properties
that add things up need a theory of sums over finite sets, which the library does
not have. It is developed first: a sum unfolds at a member, joins over disjoint
sets, splits over parts and survives renaming (`SumUnfolds`, `SumTakes`,
`SumJoins`, `SumParts`, `SumRenamed`). The library's induction theorems take an
operator and cannot be used here, so each of these is shown by looking at the
least cardinality at which it fails (`EveryNumber`, from `WFMin`).

`FrontInv` adds what a session's answer says of its charge and orders (`Answers`)
and what a tab may hold (`TabsOK`). A tab may show an answer long after it was
given: this is sound because a session keeps its buyer, changes no more once it
has answered, and offers are only added (`Onward`).

### Accounts

`WellFormed` types rows, calls, pages and reads and holds what a call under way
has established, such as the code that a call about to open a session has
claimed. On it rest `Doors` (a claimed code or link is in the hands of one call,
or behind one session), the chains that end in a second factor, and `WaysIn`: the
history of every account, whether it stood at the start or was opened by the form
or a provider meanwhile, holds one way in, and a call that is about to write has
found the address free or the account already its own, which the unique indexes
insist on at the write.
`OwnClientNeverReplays` and `OneLiveToken` speak of an undisturbed web process: no
fault so far, and no client besides it that trades its tokens (`~Does("refresh")`).
Then `SingleFlight` holds (a token is presented by one read at a time, which the
map of spent tokens knows) and so does `Chains` (the last session of a sign-in is
the only live one, and a traded token is remembered, or on its way to being so,
for as long as `GRACE_MS` asks). Neither is inductive without the other.

### Pictures

`Shelves` says what is known of rows and files: an uploaded key is on one row, is
the row's url and has its file. `Requests` says what each call may rely on between
its statements, `Screens` how many pictures a form can still send. A file is in one
pair of hands at a time: a call that stored it, a row, a call that deleted its row, or the
`dropped` of an album whose rows a list replaced (`Accounted`). An uploaded key that
has left its row never comes back to one;
therefore a removal that commits to the album it read finds nothing changed since
it read, which is what `AlbumsAreWholeUnlessRaced` needs of the lead it promotes. A list
is an exception to none of it: it deletes no row that a removal has locked, and the rows
it writes have invented keys, or pending ones, which name no upload.

The attempt also found an ambiguity in `PicturePages`: two arms of the `CASE` in
`AfterFailure` overlapped for a tab that had been left, and the value of such a
`CASE` is any of its true arms. It is now an `IF` before the `CASE`.

### Arena

`ArenaInv` has one part for the server's rows and one for each promise.

* `Ledger`: the bids ascend, the row counts them and shows the last one's amount,
  and a settled row names a bid of that amount. `getArena` reads the row first and
  the winning bid afterwards; a settled row never changes again and bids are only
  added, so whatever the second read finds still fits the first (`ResultsStand`).
* `Forms`: an attempt id stands for one bid at most, and belongs to the form that
  made it; the bids under a form's other ids are among those it has confirmed. A
  press may find its id taken, by a bid whose answer was lost: it adds none.
* `Watched`: of a tab in the room, the newest request that was not overtaken is
  current, or something that contradicts it is still in the outbox and will reach
  the tab. Every commit but an edit in the lobby adds its announcement in the same step,
  and a tab that hears it asks again, which overtakes what it had under way. Current
  means up to such edits (`OnlyEditsMissed`); the start ends them, and is announced.
* `SeatsHeld`: a seat rests on a tab that holds it and knows so, on a call under
  way, or on a counted connection that is alive or whose end is being handled;
  otherwise its owner is in `slipped`.

The last part was not inductive at first, and the state it failed in was a
reachable one: the fifth gap of section 6. `JoinAnswered` records it now, the
scenes have one that reaches it (`EndScene`), and the rest of `SeatsAreReleased`
is proved.

### Realtime

`RealtimeInv` is the wiring (`Wired`: who is connected, in which rooms, with what
in the inbox) and one part for each family of screens. A step belongs to one
family. It keeps that family's part, and of the others it touches at most the
inboxes, into which it puts events (`Carried`): a screen that has more to hear
still keeps its promise. Sockets and restarts belong to nobody and are shown to
keep all the parts at once.

* *Catching up* (`Follows`, `QueueFollows`, `PageFollows`). A resting screen is
  current only because of what happened while it was not at rest, so the invariant
  speaks of screens in every state: unless an event that makes it ask again is still
  in its inbox, or a call is between its commit and its announcement, the newest
  request is unserved, or was overtaken, or holds a good answer; and what is shown
  with nothing under way is good, or was overtaken when it came (`behind`).
  A reconnection is covered by the `connection:ready` that is then in the inbox.
* *Caches* (`Current`). The same for each key of a tab's query cache, where a fetch
  under way may be kept, and a key nobody looks at counts while it is not marked.
  `PressFollows` says it of the page a press came from, with *at least as far as
  the step that was pressed* for good: this needs no socket, and holds because parcels
  only walk forward. `HeartsFollow` says it from the moment the other presses are
  over: a press that waits for its own reread has already asked for it.
* *Receipts* (`TalkRows`). A read mark at position *i* implies a page served to the
  reader that reached *i*, and so does a place in a marking that is still to be written
  (`ReceiptOK`): `listMessages` marks the ids it has read, a message never changes its
  position, and only the other party's messages were new on the page. An answer
  waits for its own marking; a marking waits for nobody, and one that was sent may be
  written after its request has failed or the API has gone down.
* *Handovers* (`CaseOK`, `CallCan`). That the assistant had failed is a fact about a
  prefix of what was said, and what was said is only added to; so a call that
  found the case escalated may rely on it however late it writes. The step that
  decides is `isEscalated` over the last replies, read after the question was saved.
* *Replies* (`WidgetOK`, `Noticed`). An administrator's words at the end of the
  entries are on the dot or among the ids this browser has seen. The widget's case,
  once known, exists (`Opened`), and a room is asked for only by a widget that has
  one. The proof needs that an administrator's thread and a customer's widget do not
  share a browser's `seen` keys, which web `lib/support-inbox-seen.ts:14` states.

The attempts changed the property itself in one place. The bell was claimed exact
whenever all screens of a person are at rest; it is not told of the marks that the
list of notifications makes, so `TalkIsCurrent` says of it that it never counts too
few, and of the header's dot, which is told, that it is exact unless such a list has
a request under way or one that failed. The cache's requests are now a function of the key
(a key has one fetch at a time), and `RealtimePasts` says what a scene may start
from: receipts, cases and pages that an earlier behaviour can have left.

### Only model-checked

* `AuctionsMoveOn` and `EndsAreShown`: liveness under fairness is beyond the prover.
* `RealtimeTypeOK` is checked with TLC when the modules change and is in no run; what
  the proofs need of it is in `RealtimeInv`.
* The properties of the two runs that find a disagreement, which the code breaks.

## 5. Plan

What the project could still say:

1. Action properties of the shop and the accounts that the invariants already give
   (a charge, an order and a spent offer are never taken back).
2. The tree of categories, with the race named among the hazards.
3. A settlement that throws each time, as a fault without a bound, once the code
   has a policy for it.

## 6. What the code does not keep

Met while modelling, and worth a look in code review. The first group are definitions
at the end of the modules, under *Claims of the code's comments that the code does
not keep*; TLC refutes each of them, and two of them are the runs above. The
properties of the runs are stated around the rest, by naming the gap (`behind`,
`slipped`, `raced`, `lost`) or the situation.

**Auctions** (paths under `apps/api/src`)

* `SettledAfterItsEnd` (`auction/auction.service.ts:555`): in the window of
  `settle_race` the late bid may extend the auction, which is then closed before
  its extended end.
* `PublishedPassesGate` (`:765`, written at `:308`): an edit, or the removal of the
  last picture, between publish's check and its write, guarded on `DRAFT` only.
  An auction published without an end is picked up by no pass.
* `StartedWithItsEnd` (`auction/auction-lifecycle.service.ts:91`): a seller moves
  the end of a SCHEDULED auction between the timer's read and its start; the room
  is told the old end.

**Shop**

* `TakedownStands` (`product/product.service.ts:634`) and `SoldOutStaysOff`
  (`:265`): a seller's write carries a status computed from a row read before an
  admin's takedown, or before the sale of the last unit.
* `LinesPaidOnce` (`order/checkout.service.ts:365`): two checkouts price the same
  cart line before either clears it, and both are charged and ordered.
* `MoneyMovedIsTold` (web `checkout/failure-overlay.tsx:115`): `AUCTION_ALREADY_PAID`
  is shown as *not charged*, but losing the unique index comes after the charge
  (`checkout.service.ts:196`). `RefusalsTellTheTruth` leaves that code out.
* Two offers of one buyer that overlap see the same history, so that the cooldown and
  the daily limit can be exceeded (`ai-tools/negotiator-facade.service.ts:75`, inserted at
  `:106`).
* The total charged is the one priced when the request runs; it may differ from
  the one the buyer was shown.
* A stale tab's press on a parcel normally gets a 400 (`shipment/shipment.service.ts:73`),
  where web `order/shipment-controls.tsx:41` re-reads on a 409.

**Accounts**

* `ResetCutsSessions`: the run above. The same window defeats the revocation after
  a replay, and a plain client can hold two live tokens of one sign-in
  (`auth/auth.service.ts:236` says exactly one).
* Two requests for a code pass each other and both codes work
  (`auth/two-factor.service.ts:57`).
* A refresh whose answer was cut off is forgotten (web `lib/auth/refresh.ts:179`,
  "Nothing was consumed"), though the API may have spent the token: the next
  attempt is a replay. `OwnClientNeverReplays` speaks of runs without that fault, and
  without another client that trades the same tokens.

**Chat, support, orders, hearts**

* `ClosedCasesReopen` (`support-chat/support-chat.service.ts:210`): a message
  written while the case is being closed stays in a closed case; a late claim
  replaces an earlier one (`admin/support.service.ts:96`); an answer of the
  assistant's that comes late is not emitted to the queue; Enter pressed twice in
  an empty widget opens two cases.
* A thread reads its page before it has joined its room (web
  `lib/use-conversation-room.ts:10`): a message in between is missing until the
  next one. Page 2 of a thread is the newer one (`chat/conversation-thread.tsx:20`).
* Marking one notification read from two places counts it down twice
  (`notification/notification-list.tsx`); the bell hears of neither and counts what
  was read until its next event (web `notification/notification-bell.tsx:45`).
* A query's first load is not restarted by an invalidation, so an event during it
  is lost on order pages, the header and the hearts; behind an error page a
  timeline answer that was overtaken stays.
* Hearts: the snapshot of one press restores a card another press dropped, and
  another press's reread puts a dropped card back while its DELETE is under way
  (`auction/watch-button.tsx:84`); both are repaired when the last press settles.

**Arena and presence**

* A seller's edit of a SCHEDULED auction changes its price, increment and dates and is
  announced to nobody (`auction/auction.service.ts:713`): a watcher at rest in the lobby
  shows the old terms until the next event, or until a wake-up set by the old start.
  `WatchersAreCurrent` is stated around it.
* A tab is in the room only after its join is handled; an event between its read
  and that moment is missed (`lib/use-auction-room.ts:35`). A failed read ends the
  chain of wake-ups; a cancelled auction stays on screen without a socket.
* Five gaps, recorded in `slipped`, leave a person counted who has gone: a socket
  that drops while its join awaits the token check is registered afterwards
  (`realtime/auction.gateway.ts:113`); a socket that said goodbye is released
  without anybody leaving by it (`:130`); the answer to a POST is lost and the
  page never leaves what it takes for refused; a tab is closed while its POST is
  under way, or while it has no counted connection; a person leaves and comes back
  while a POST is under way, whose answer finds the newer hold and leaves nobody
  (web `lib/use-auction-presence.ts:100`), and then the newer POST is refused.
* The other way round, leaving one of two tabs by navigation marks the person
  LEFT (`:140`), and a watcher whose socket reconnects is not counted again (web
  `lib/use-auction-presence.ts:10`). A join decided on a stale read
  (`live/live.service.ts:221`) goes unannounced.
* `AttemptsCanBeReplayed` (web `auction/place-bid-control.tsx:61`): after a lost
  answer the kept id is sent only with an amount that passes the form, which the
  first bid, having raised the minimum, no longer does; the form stays refused
  with a 409 (`bid/bid.service.ts:427`) until it is mounted again.
* The result page crowns the newest bid it was given
  (`auction/auction-complete-screen.tsx:67`), which in `settle_race` is not the winner.

**Pictures**

* A PATCH of an auction with `imageUrls` deletes the rows of uploaded pictures and leaves
  their files, which nothing refers to and nothing cleans up
  (`auction/auction.service.ts:744`). The form sends none for that reason (web
  `auction/draft-form.tsx:167`), the API accepts them from anybody.
  `StoredFilesAreAccountedFor` names those files (`dropped`).
* Lists of addresses have no limit: a draft, an edit (`:89`, `:744`) and a listing sent by
  another client (`product/dtos/create-product.dto.ts:46`) may hold more pictures than the
  uploads allow. `AlbumsAreWholeUnlessRaced` holds such an album to the list's length.
* Two overlapping removals leave a draft without a lead
  (`auction/auction.service.ts:1018`), a listing without a picture
  (`product/product.service.ts:485`); a removal races publication; an upload over
  a gap in the positions may exceed the limit when removals overlap.
* A listing form sent again after a lost answer creates a second listing that
  shares the files of the first. The avatar saved by the picker and the profile
  saved by the form overwrite each other's answer (`user/profile-form.tsx:188`).
  Reloads of a draft page, and the answer of an edit, may replace newer pictures
  (`auction/draft-detail-screen.tsx:196`, `product/edit-product-screen.tsx:190`).

### Not modelled

* *Categories*: edited by admins alone; other parts only read whether one is
  active, which the shop takes as an input. Their one race is among the hazards.
* *Price estimator and prompts, mail, configuration, health, admin overviews*:
  input and output, or reads, with no state of their own.
* *Browsing pages, filters, layout*: renderings of reads that keep nothing.
* *Other profile columns*: single-row writes that nothing else reads back.
* *A settlement that fails every time*: faults are bounded.
* *Deadlocks of picture transactions*: PostgreSQL aborts one of two transactions that lock
  the auction's row and a picture's in opposite orders (an edit with `imageUrls` beside a
  removal); the model lets one wait. The aborted one changes nothing.
* *A commit whose acknowledgement is lost between the API and PostgreSQL*: an
  operation that committed is taken to know it. (In `addDraftImage` the clean-up
  would otherwise delete the file of a row that exists.)
* *Seeds*: development data, run by hand.
