----------------------------- MODULE MCAccounts -----------------------------
(* Small instances of Accounts for TLC. *)
EXTENDS Accounts

CONSTANTS ann, ben, cat, root, g1, l1, b1, b2, r1, r2, d1, d2

Emails == [i \in {g1, l1} |-> IF i = g1 THEN ann ELSE Null]

Scene(signedIn, at, people, until, ops) ==
  [who |-> ben, signedIn |-> signedIn, at |-> at, people |-> people, until |-> until, ops |-> ops]

\* Two browsers at one account with a password, nobody in yet.
PasswordScene == Scene(<<>>, {b1, b2}, {ben}, 1, {"password"})

\* Two people share a browser.
SharedScene == Scene(<<>>, {b1}, {ben, cat}, 1, {"password"})

\* Google, LINE and the registration form after the same addresses.
ProviderScene == Scene(<<>>, {b1, b2}, {}, 0, {"provider", "register"})

\* Two browsers, one mailbox: links asked for, and spent, side by side.
RecoveryScene == Scene(<<>>, {b1, b2}, {}, 1, {"forgot"})

\* One browser, signed in, renewed by parallel reads.
RenewalScene == Scene(<<b1>>, {b1}, {}, 4, {"renew"})

\* An admin's desk and a plain client of the API.
DeskScene == Scene(<<b1>>, {}, {}, 1, {"refresh", "suspend", "change", "login"})

\* A password reset while the browser next to it is signed in.
ResetScene == Scene(<<b1>>, {b2}, {}, 0, {"forgot", "refresh"})

\* The other browser in the place of the only one.
Other(b) == IF b = b1 THEN b2 ELSE b1
Mirrored(x) == [x EXCEPT !.signedIn = [n \in DOMAIN @ |-> Other(@[n])], !.at = {Other(b) : b \in @}]

OneWay == {PasswordScene, SharedScene, ProviderScene, RecoveryScene, RenewalScene, DeskScene}
AllScenes == OneWay \cup {Mirrored(x) : x \in OneWay}
ResetScenes == {ResetScene}

\* Browsers, reads and desks are alike.
Slots == Permutations({b1, b2}) \cup Permutations({r1, r2}) \cup Permutations({d1, d2})
=============================================================================
