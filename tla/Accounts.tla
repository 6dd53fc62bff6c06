----------------------------- MODULE Accounts -----------------------------
(***************************************************************************)
(* Sign-in as a whole: browsers on the login pages, the web process that   *)
(* renews their sessions, and the API they share with an admin's desk.     *)
(*                                                                         *)
(* A behaviour plays one scene: the browsers where `who` is signed in when *)
(* it starts, the browsers `at` which people go on, whose passwords they   *)
(* type, what they take up, and when it ends.                              *)
(***************************************************************************)
EXTENDS Renewal

CONSTANTS
  Scenes,             \* the scenes a run plays
  Desks               \* the slots of plain API clients, an admin's among them

ASSUME AccountsAssumption ==
  /\ Desks \subseteq AuthCalls \ (Browsers \cup Reads)
  /\ {0, 1} \subseteq Passwords
  /\ \A s \in Scenes : /\ s.people \cup {s.who} \subseteq Registered
                      /\ s.signedIn \in Seq(Browsers) /\ Len(s.signedIn) <= MaxRows
                      /\ s.at \subseteq Browsers

VARIABLE scene

accountsVars == <<authStoreVars, auth, pageVars, renewalVars, scene>>

AccountsInit ==
  /\ scene \in Scenes
  /\ AuthStoreInit(scene.who, Len(scene.signedIn))
  /\ SignInInit
  /\ LoginPagesInit(scene.signedIn)
  /\ RenewalInit

Does(op) == op \in scene.ops

-----------------------------------------------------------------------------
(***************************************************************************)
(* What a person at a browser takes up                                     *)
(***************************************************************************)
PasswordActs(b) ==
  /\ Does("password")
  /\ \/ \E u \in scene.people : sendCode(b, u, 0)
     \/ \E otp \in DOMAIN codes, remember \in BOOLEAN : completeSignIn(b, otp, remember)
     \/ resend(b)
     \/ Back(b)
     \/ signOut(b)

ProviderActs(b) ==
  /\ Does("provider")
  /\ \/ \E i \in Identities : signInWithGoogle(b, i) \/ LineCallback(b, i)
     \/ LineStart(b) \/ LineFailed(b) \/ claimTokens(b)
     \/ \E email \in People : submitEmail(b, email)
     \/ \E otp \in DOMAIN codes, remember \in BOOLEAN : submitCode(b, otp, remember)
     \/ resendOAuth(b)
     \/ Back(b)
     \/ signOut(b)

AccountActs(b) ==
  \/ /\ Does("register")
     /\ OpenForm(b, "register") \/ \E u \in People : createAccount(b, u, 0)
  \/ /\ Does("forgot")
     /\ \/ OpenForm(b, "forgot") \/ OpenForm(b, "reset") \/ Back(b)
        \/ \E u \in People : requestPasswordReset(b, u)
        \/ \E n \in DOMAIN links : resetPassword(b, n, 1)

\* A client of the API without the web app, and an admin.
DeskActs(k) ==
  \/ Does("refresh") /\ \E t \in DOMAIN sessions : BeginRefresh(k, t) \/ BeginLogout(k, t)
  \/ Does("change") /\ \E u \in Admins : BeginChange(k, u, 0, 1)
  \/ Does("login") /\ \E u \in Registered : BeginLogin(k, u, 0, 0)
  \/ Does("suspend") /\ \E admin \in Admins, u \in People, status \in {"ACTIVE", "SUSPENDED"} :
                          ChangeStatus(k, admin, u, status)

AccountsNext ==
  /\ \/ \E b \in scene.at :
          \/ PasswordActs(b) /\ UNCHANGED renewalVars
          \/ ProviderActs(b) /\ UNCHANGED renewalVars
          \/ AccountActs(b) /\ UNCHANGED renewalVars
          \/ PageAnswered(b) /\ UNCHANGED renewalVars
     \/ \E k \in Desks : DeskActs(k) /\ UNCHANGED <<pageVars, renewalVars>>
     \/ \E k \in AuthCalls : Serve(k) /\ UNCHANGED <<pageVars, renewalVars>>
     \/ Does("renew") /\ Renew
     \/ clock < scene.until /\ PassTime /\ UNCHANGED <<auth, pageVars, renewalVars>>
  /\ UNCHANGED scene

AccountsSpec == AccountsInit /\ [][AccountsNext]_accountsVars

-----------------------------------------------------------------------------
(***************************************************************************)
(* Properties                                                              *)
(***************************************************************************)

\* Rows, calls, cookies and pages stay well formed.
AccountsTypeOK ==
  /\ AuthStoreTypeOK /\ SignInTypeOK
  /\ \A b \in Browsers :
       /\ {jar[b].session, jar[b].ready} \subseteq {0} \cup DOMAIN sessions
       /\ jar[b].device \in {0} \cup DOMAIN devices
       /\ page[b].at \in {"login", "code", "home", "provider", "email", "otp", "ready", "sent",
                          "register", "forgot", "reset"}
  /\ \A r \in Reads : read[r].pc \in {"idle", "call", "wait", "got", "send"}

\* A code opens one session, whoever presents it and however many at once, and
\* a reset link sets one password: consume claims the row it found.
CodesOpenOneDoor ==
  /\ \A s, t \in DOMAIN sessions :
       s # t /\ sessions[s].via = "code" /\ sessions[t].via = "code"
         => sessions[s].proof # sessions[t].proof
  /\ \A j, k \in AuthCalls :
       j # k /\ {auth[j].op, auth[k].op} = {"reset"}
             /\ {auth[j].pc, auth[k].pc} \subseteq {"password", "cut", "forget"}
         => auth[j].row # auth[k].row

\* Behind every session is a second factor of its own account: a code it was
\* sent and that is spent, a device remembered after such a code, or the
\* exemption of an admin.
SecondFactorHeld ==
  \A t \in DOMAIN sessions :
    LET first == sessions[sessions[t].login]
        Answered(n) == codes[n].used /\ codes[n].userId = sessions[t].userId
    IN  CASE first.via = "code" -> Answered(first.proof)
          [] first.via = "device" -> /\ devices[first.proof].userId = sessions[t].userId
                                     /\ Answered(devices[first.proof].code)
          [] first.via = "admin" -> sessions[t].userId \in Admins /\ ADMIN_SKIP_2FA
          [] OTHER -> FALSE

\* One address, one way in: an account is opened once, by the form or by one
\* identity, and the only identity ever on it is the one that opened it.  The
\* form and the providers may be after one address at once: none of them finds
\* an account, and all go on to open one.
OneWayIn ==
  \A u \in People :
    /\ \A v, w \in account[u].ways : v = w
    /\ \A i \in Identities : linked[i] = u => account[u].ways = {i}

\* The web app does not trip the API's replay detection: while it runs
\* undisturbed and nobody else trades its tokens, one it presents a second time
\* was traded GRACE ago.
OwnClientNeverReplays ==
  faults = 0 /\ ~Does("refresh") =>
    \A r \in Reads :
      LET t == auth[r].row
      IN  auth[r].pc = "replay" =>
          \/ clock - sessions[t].revokedAt >= GRACE_MS
          \/ ~\E n \in DOMAIN sessions : sessions[n].via = "rotation" /\ sessions[n].proof = t

\* A sign-in has one live refresh token at a time, however many reads renew it
\* side by side.
OneLiveToken ==
  faults = 0 /\ ~Does("refresh") =>
    \A s, t \in DOMAIN sessions :
      s # t /\ sessions[s].login = sessions[t].login => ~Live(s) \/ ~Live(t)

-----------------------------------------------------------------------------
(***************************************************************************)
(* Claims of the code's comments that the code does not keep               *)
(***************************************************************************)

\* "Every refresh session on the account is revoked" by a reset: no session
\* that rests on the old password outlives it.
ResetCutsSessions ==
  \A t \in DOMAIN sessions :
    Live(t) /\ sessions[t].knew \notin {Null, account[sessions[t].userId].password}
      => \E k \in AuthCalls : auth[k].pc = "cut" /\ auth[k].userId = sessions[t].userId
=============================================================================
