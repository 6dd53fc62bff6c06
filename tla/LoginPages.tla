---------------------------- MODULE LoginPages ----------------------------
(***************************************************************************)
(* The sign-in pages of the web app and the route handlers behind them.    *)
(*                                                                         *)
(* A browser keeps a page and a jar of httpOnly cookies.  A form posts to  *)
(* a route handler, which adds what the jar holds and calls the API; the   *)
(* form is disabled until the answer is in.  A browser is the slot of      *)
(* SignIn its calls run in.                                                *)
(***************************************************************************)
EXTENDS SignIn

CONSTANT Browsers

\* Null is not the name of a request.
ASSUME BrowsersAssumption == Browsers \subseteq AuthCalls /\ Null # "login"

VARIABLES
  jar,      \* cookies of each browser
  page      \* the page each browser shows, and what it was told

\* `session` is the refresh token in the NextAuth cookie, `pending` the parked
\* provider sign-in, `state` a LINE round trip under way, `ready` parked tokens.
EmptyJar == [session |-> 0, error |-> FALSE, device |-> 0, pending |-> Null, address |-> Null,
             state |-> FALSE, ready |-> 0]

\* `asked` is the request in flight; `who` and `password` the credentials the
\* code step sends again.
Page(at) == [at |-> at, asked |-> Null, who |-> Null, password |-> Null, identity |-> Null]

\* The n-th of `signedIn` holds the n-th session.
LoginPagesInit(signedIn) ==
  /\ jar = [b \in Browsers |->
       [EmptyJar EXCEPT !.session = Max({0} \cup {n \in DOMAIN signedIn : signedIn[n] = b})]]
  /\ page = [b \in Browsers |-> Page(IF b \in ToSet(signedIn) THEN "home" ELSE "login")]

pageVars == <<jar, page>>

Free(b, at) == page[b].at = at /\ page[b].asked = Null
Ask(b, request) == page' = [page EXCEPT ![b].asked = request]
Show(b, p) == page' = [page EXCEPT ![b] = p]
Put(b, cookies) == jar' = [jar EXCEPT ![b] = cookies]
Hang(b) == auth' = [auth EXCEPT ![b] = IdleAuth] /\ UNCHANGED authStoreVars

\* The answer to `request` is in.
Told(b, request, kinds) ==
  page[b].asked = request /\ auth[b].pc = "done" /\ auth[b].out.kind \in kinds

-----------------------------------------------------------------------------
(***************************************************************************)
(* Password sign-in                                                        *)
(***************************************************************************)

\* sendCode: the login route adds the device cookie.
sendCode(b, u, password) ==
  /\ Free(b, "login")
  /\ BeginLogin(b, u, password, jar[b].device)
  /\ page' = [page EXCEPT ![b].asked = "login", ![b].who = u, ![b].password = password]
  /\ UNCHANGED jar

\* Tokens at once from a known device; otherwise the code step, holding on to
\* the credentials.
LoginPending(b) ==
  /\ Told(b, "login", {"PENDING_2FA"})
  /\ Show(b, [page[b] EXCEPT !.at = "code", !.asked = Null])
  /\ Hang(b) /\ UNCHANGED jar

completeSignIn(b, otp, remember) ==
  /\ Free(b, "code")
  /\ BeginVerify(b, page[b].who, page[b].password, otp, remember)
  /\ Ask(b, "verify") /\ UNCHANGED jar

resend(b) ==
  /\ Free(b, "code")
  /\ BeginResend(b, page[b].who, page[b].password)
  /\ Ask(b, "resend") /\ UNCHANGED jar

Back(b) ==
  /\ page[b].at \in {"code", "email", "otp", "sent", "register", "forgot"}
  /\ page[b].asked = Null
  /\ Show(b, Page("login"))
  /\ UNCHANGED <<jar, auth, authStoreVars>>

\* A refusal leaves the form as it was, with a message.
Refused(b) ==
  /\ \E request \in {"login", "verify", "resend", "register", "reset", "google", "email", "otp",
                     "again"} : Told(b, request, {"REFUSED"})
  /\ Ask(b, Null)
  /\ Hang(b) /\ UNCHANGED jar

\* A new code is on its way.
Resent(b) ==
  /\ Told(b, "resend", {"PENDING_2FA"}) \/ Told(b, "again", {"PENDING_2FA"})
  /\ Ask(b, Null)
  /\ Hang(b) /\ UNCHANGED jar

\* The device token of an answer replaces the one in the jar.
writeDeviceToken(cookies, device) ==
  IF device = 0 THEN cookies ELSE [cookies EXCEPT !.device = device]

\* Google's answer parks the identity even with tokens in it; an answer to the
\* code of a provider clears the parked sign-in.
Settled(b) ==
  CASE page[b].asked = "otp" -> [jar[b] EXCEPT !.pending = Null, !.address = Null]
    [] page[b].asked = "google" -> [jar[b] EXCEPT !.pending = page[b].identity]
    [] OTHER -> jar[b]

\* signInWithTokens: NextAuth makes the pair a session, and the person is in.
signInWithTokens(b) ==
  LET answer == auth[b].out
      kept == Settled(b)
  IN  /\ \/ Told(b, "login", {"TOKENS"}) \/ Told(b, "verify", {"TOKENS"})
         \/ Told(b, "google", {"TOKENS"}) \/ Told(b, "otp", {"TOKENS"})
      /\ Put(b, [writeDeviceToken(kept, answer.device) EXCEPT !.session = answer.session,
                                                              !.error = FALSE])
      /\ Show(b, Page("home"))
      /\ Hang(b)

\* NextAuth refused twice: the pair is lost, the page says so.
SignInFailed(b) ==
  /\ \/ Told(b, "login", {"TOKENS"}) \/ Told(b, "verify", {"TOKENS"})
     \/ Told(b, "google", {"TOKENS"}) \/ Told(b, "otp", {"TOKENS"})
  /\ Put(b, writeDeviceToken(Settled(b), auth[b].out.device))
  /\ Ask(b, Null)
  /\ Hang(b)

\* signOut clears the cookie of NextAuth; the API hears nothing of it.
signOut(b) ==
  /\ page[b].at = "home"
  /\ Put(b, [jar[b] EXCEPT !.session = 0, !.error = FALSE])
  /\ Show(b, Page("login"))
  /\ UNCHANGED <<auth, authStoreVars>>

-----------------------------------------------------------------------------
(***************************************************************************)
(* Provider sign-in                                                        *)
(***************************************************************************)

\* Google hands the page an id token, and the page posts it.
signInWithGoogle(b, i) ==
  /\ Free(b, "login") /\ EmailOf[i] # Null
  /\ BeginOAuth(b, "oauthLogin", i, jar[b].address, jar[b].device, FALSE)
  /\ page' = [page EXCEPT ![b].asked = "google", ![b].identity = i]
  /\ UNCHANGED jar

\* startOAuth parks the identity whatever a successful answer says.
GoogleStarted(b) ==
  /\ Told(b, "google", {"PENDING_2FA"})
  /\ Put(b, [jar[b] EXCEPT !.pending = page[b].identity])
  /\ Show(b, Page("otp"))
  /\ Hang(b)

\* LINE takes the browser away with a state cookie, ...
LineStart(b) ==
  /\ Free(b, "login")
  /\ Put(b, [jar[b] EXCEPT !.state = TRUE])
  /\ Show(b, Page("provider"))
  /\ UNCHANGED <<auth, authStoreVars>>

\* ... and brings it back, cancelled, or with the cookie gone, ...
LineFailed(b) ==
  /\ Free(b, "provider")
  /\ Put(b, [jar[b] EXCEPT !.state = FALSE])
  /\ Show(b, Page("login"))
  /\ UNCHANGED <<auth, authStoreVars>>

\* ... or with an identity of the person at the browser.
LineCallback(b, i) ==
  /\ Free(b, "provider") /\ jar[b].state /\ EmailOf[i] = Null
  /\ BeginOAuth(b, "oauthLogin", i, Null, jar[b].device, FALSE)
  /\ page' = [page EXCEPT ![b].asked = "line", ![b].identity = i]
  /\ Put(b, [jar[b] EXCEPT !.state = FALSE])

\* A known device gets its tokens parked for the ready page; everybody else is
\* asked for an address or for the code.
LineAnswered(b) ==
  /\ Told(b, "line", Answers)
  /\ CASE auth[b].out.kind = "TOKENS" ->
            /\ Put(b, [jar[b] EXCEPT !.pending = Null, !.address = Null,
                                     !.ready = auth[b].out.session])
            /\ Show(b, Page("ready"))
       [] auth[b].out.kind = "REFUSED" -> Show(b, Page("login")) /\ UNCHANGED jar
       [] OTHER ->
            /\ Put(b, [jar[b] EXCEPT !.pending = page[b].identity, !.address = Null])
            /\ Show(b, Page(IF auth[b].out.kind = "EMAIL_REQUIRED" THEN "email" ELSE "otp"))
  /\ Hang(b)

\* OAuthReady: the parked tokens are claimed once, and made a session unless
\* NextAuth refuses them.
claimTokens(b) ==
  /\ Free(b, "ready")
  /\ \/ /\ jar[b].ready # 0
        /\ Put(b, [jar[b] EXCEPT !.ready = 0, !.session = jar[b].ready, !.error = FALSE])
        /\ Show(b, Page("home"))
     \/ /\ Put(b, [jar[b] EXCEPT !.ready = 0])
        /\ Show(b, Page("login"))
  /\ UNCHANGED <<auth, authStoreVars>>

\* submitEmail and resend: the start route again, with the address given now
\* or the one parked before.
submitEmail(b, email) ==
  /\ Free(b, "email") /\ jar[b].pending # Null
  /\ BeginOAuth(b, "oauthLogin", jar[b].pending, email, jar[b].device, FALSE)
  /\ page' = [page EXCEPT ![b].asked = "email", ![b].who = email]
  /\ UNCHANGED jar

EmailAnswered(b) ==
  /\ Told(b, "email", {"PENDING_2FA", "TOKENS", "EMAIL_REQUIRED"})
  /\ Put(b, [jar[b] EXCEPT !.address = page[b].who])
  /\ Show(b, Page(IF auth[b].out.kind = "EMAIL_REQUIRED" THEN "email" ELSE "otp"))
  /\ Hang(b)

resendOAuth(b) ==
  /\ Free(b, "otp") /\ jar[b].pending # Null
  /\ BeginOAuth(b, "oauthLogin", jar[b].pending, jar[b].address, jar[b].device, FALSE)
  /\ Ask(b, "again") /\ UNCHANGED jar

\* A trusted device answers a resend with tokens the form does not look at.
ResendIgnored(b) ==
  /\ Told(b, "again", {"TOKENS"})
  /\ Ask(b, Null)
  /\ Hang(b) /\ UNCHANGED jar

\* submitCode: the code against the identity parked in the jar.
submitCode(b, otp, remember) ==
  /\ Free(b, "otp") /\ jar[b].pending # Null
  /\ BeginOAuth(b, "verifyOAuth", jar[b].pending, jar[b].address, otp, remember)
  /\ Ask(b, "otp") /\ UNCHANGED jar

\* The parked cookies are short-lived; without them every submission is turned
\* away and the way on is back.
CookiesExpire(b) ==
  /\ jar[b].pending # Null \/ jar[b].ready # 0
  /\ Put(b, [jar[b] EXCEPT !.pending = Null, !.address = Null, !.ready = 0])
  /\ UNCHANGED <<page, auth, authStoreVars>>

-----------------------------------------------------------------------------
(***************************************************************************)
(* Registering, and forgotten passwords                                    *)
(***************************************************************************)
OpenForm(b, form) ==
  /\ Free(b, "login")
  /\ Show(b, Page(form))
  /\ UNCHANGED <<jar, auth, authStoreVars>>

createAccount(b, u, password) ==
  /\ Free(b, "register")
  /\ BeginRegister(b, u, password)
  /\ Ask(b, "register") /\ UNCHANGED jar

requestPasswordReset(b, u) ==
  /\ Free(b, "forgot")
  /\ BeginForgot(b, u)
  /\ Ask(b, "forgot") /\ UNCHANGED jar

\* The link in the mail opens the form, in any browser.
resetPassword(b, n, password) ==
  /\ Free(b, "reset")
  /\ BeginReset(b, n, password)
  /\ Ask(b, "reset") /\ UNCHANGED jar

\* Registered and reset lead to the login page; a forgotten password says the
\* same thing whatever came of it.
FormAccepted(b) ==
  /\ \/ /\ Told(b, "register", {"OK"}) \/ Told(b, "reset", {"OK"})
        /\ Show(b, Page("login"))
     \/ /\ Told(b, "forgot", {"OK"})
        /\ Show(b, Page("sent"))
  /\ Hang(b) /\ UNCHANGED jar

\* An answer is in, or a cookie has run out.
PageAnswered(b) ==
  \/ LoginPending(b) \/ signInWithTokens(b) \/ SignInFailed(b) \/ GoogleStarted(b)
  \/ LineAnswered(b) \/ EmailAnswered(b) \/ ResendIgnored(b) \/ CookiesExpire(b)
  \/ FormAccepted(b) \/ Refused(b) \/ Resent(b)
=============================================================================
