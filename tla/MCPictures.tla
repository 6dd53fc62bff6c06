----------------------------- MODULE MCPictures -----------------------------
(***************************************************************************)
(* Small instances of PicturePages: two tabs on one draft, two on one      *)
(* listing, the form for a new listing with an edit page or an API client  *)
(* beside it, a draft's page with an API client beside it, and the profile *)
(* form.                                                                   *)
(***************************************************************************)
EXTENDS PicturePages, TLC

CONSTANTS d1, p1, p2, t1, t2

Shelf(folder, n, base) ==
  {Image(FileKey(folder, base + i), FileKey(folder, base + i), i - 1, i = 1) : i \in 1 .. n}

Unlisted(status, rows) ==
  [status |-> status, rows |-> rows, lists |-> 0, listed |-> 0, dropped |-> {}]

Absent == Unlisted("ABSENT", {})

\* No album but the ones given.
With(given) == given @@ [a \in Drafts \cup Listings |-> Absent]

Draft(n) == Unlisted("DRAFT", Shelf("auction", n, 0))
Listing(n) == Unlisted("ACTIVE", Shelf("product", n, 0))

Both(page, a, rows) == (t1 :> Tab(page, a, rows)) @@ (t2 :> Tab(page, a, rows))

Times(m, n) == (t1 :> m) @@ (t2 :> n)

DraftScene(n) ==
  [albums |-> With(d1 :> Draft(n)), tabs |-> Both("draft", d1, Draft(n).rows),
   presses |-> Times(2, 1)]

ListingScene(n) ==
  [albums |-> With(p1 :> Listing(n)), tabs |-> Both("listing", p1, Listing(n).rows),
   presses |-> Times(2, 2)]

FormScene ==
  [albums |-> With(<<>>),
   tabs |-> (t1 :> Tab("form", Null, {})) @@ (t2 :> Tab("closed", Null, {})),
   presses |-> Times(3, 2)]

ProfileScene ==
  [albums |-> With(<<>>),
   tabs |-> (t1 :> Tab("profile", Null, {})) @@ (t2 :> Tab("left", Null, {})),
   presses |-> Times(4, 0)]

ClientScene(m, n) ==
  [albums |-> With(d1 :> Draft(1)),
   tabs |-> (t1 :> Tab("draft", d1, Draft(1).rows)) @@ (t2 :> Tab("client", Null, {})),
   presses |-> Times(m, n)]

NewScene ==
  [albums |-> With(<<>>),
   tabs |-> (t1 :> Tab("form", Null, {})) @@ (t2 :> Tab("client", Null, {})),
   presses |-> Times(2, 2)]

AllScenes ==
  {DraftScene(0), DraftScene(2), ListingScene(2), FormScene, ProfileScene,
   ClientScene(2, 1), ClientScene(1, 2), NewScene}
=============================================================================
