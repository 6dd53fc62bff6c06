------------------------------- MODULE SignIn -------------------------------
(***************************************************************************)
(* AuthService and the parts of AdminUsersService that touch sign-in, one  *)
(* call of an endpoint per slot.                                           *)
(*                                                                         *)
(*   login, resend   idle -> (trust ->) cooldown -> burn -> create -> done *)
(*   verify          idle -> candidate -> claim -> session -> (device ->)  *)
(*   provider        idle -> address -> open -> as login, or as verify     *)
(*   refresh         idle -> rotate | replay -> done                       *)
(*   reset           idle -> link -> password -> cut -> forget -> done     *)
(*                                                                         *)
(* Between any two steps other calls run.  A transaction that burns the    *)
(* unused rows and inserts a new one reads those rows when it starts and   *)
(* changes them when it commits: at READ COMMITTED a row another call      *)
(* inserted in between is not among them.                                  *)
(***************************************************************************)
EXTENDS AuthStore

CONSTANT AuthCalls    \* executions of an auth endpoint

VARIABLE auth         \* progress of each call

\* `row` is the code, link, device or session at hand, `snap` the rows a burn
\* saw unused, `out` the answer.
IdleAuth == [pc |-> "idle", op |-> Null, userId |-> Null, identity |-> Null, password |-> Null,
             row |-> 0, via |-> Null, remember |-> FALSE, snap |-> {}, out |-> Null]

SignInInit == auth = [k \in AuthCalls |-> IdleAuth]

\* Answers: what the caller is told, with the session and device it is given.
Answers == {"PENDING_2FA", "EMAIL_REQUIRED", "TOKENS", "OK", "REFUSED"}
Answer(kind, session, device) == [kind |-> kind, session |-> session, device |-> device]
Said(kind) == Answer(kind, 0, 0)

Go(k, pc) == auth' = [auth EXCEPT ![k].pc = pc]
Done(answer) == [IdleAuth EXCEPT !.pc = "done", !.out = answer]
End(k, answer) == auth' = [auth EXCEPT ![k] = Done(answer)]

-----------------------------------------------------------------------------
(***************************************************************************)
(* Passwords and codes                                                     *)
(***************************************************************************)

\* authenticate: a password on an account that is active.
authenticate(u, password) ==
  account[u].password # Null /\ account[u].password = password /\ account[u].status = "ACTIVE"

\* login: the admin exemption, then the device, then a code.
BeginLogin(k, u, password, device) ==
  /\ auth[k].pc = "idle"
  /\ IF authenticate(u, password)
     THEN auth' = [auth EXCEPT ![k] = [IdleAuth EXCEPT
            !.pc = IF u \in Admins /\ ADMIN_SKIP_2FA THEN "session" ELSE "trust",
            !.op = "login", !.userId = u, !.password = password, !.row = device,
            !.via = "admin"]]
     ELSE End(k, Said("REFUSED"))
  /\ UNCHANGED authStoreVars

\* A device that is known stands in for the code.
Trust(k) ==
  /\ auth[k].pc = "trust"
  /\ auth' = [auth EXCEPT ![k].pc = IF isTrusted(auth[k].userId, auth[k].row)
                                    THEN "session" ELSE "cooldown",
                          ![k].via = "device"]
  /\ UNCHANGED authStoreVars

BeginResend(k, u, password) ==
  /\ auth[k].pc = "idle"
  /\ IF authenticate(u, password)
     THEN auth' = [auth EXCEPT ![k] = [IdleAuth EXCEPT !.pc = "cooldown", !.op = "resend",
                                                       !.userId = u]]
     ELSE End(k, Said("REFUSED"))
  /\ UNCHANGED authStoreVars

\* Inside the cooldown a login still answers that a code is out; a resend is
\* turned away.
Cooldown(k) ==
  /\ auth[k].pc = "cooldown"
  /\ IF checkCooldown(auth[k].userId)
     THEN End(k, Said(IF auth[k].op = "resend" THEN "REFUSED" ELSE "PENDING_2FA"))
     ELSE Go(k, "burn")
  /\ UNCHANGED authStoreVars

\* issue, first statement: the codes it will burn.
BurnCodes(k) ==
  /\ auth[k].pc = "burn"
  /\ auth' = [auth EXCEPT ![k].pc = "create", ![k].snap = UnusedCodes(auth[k].userId)]
  /\ UNCHANGED authStoreVars

\* issue, commit: those are burned and the new code is in.
CreateCode(k) ==
  /\ auth[k].pc = "create"
  /\ Len(codes) < MaxRows
  /\ codes' = Append([n \in DOMAIN codes |->
                        IF n \in auth[k].snap THEN [codes[n] EXCEPT !.used = TRUE] ELSE codes[n]],
                     [userId |-> auth[k].userId, used |-> FALSE, createdAt |-> clock,
                      expiresAt |-> clock + OTP_TTL])
  /\ End(k, Said("PENDING_2FA"))
  /\ UNCHANGED <<account, linked, sessions, links, devices, audit, clock>>

\* verifyTwoFactor: the password again, next to the code.
BeginVerify(k, u, password, otp, remember) ==
  /\ auth[k].pc = "idle"
  /\ IF authenticate(u, password)
     THEN auth' = [auth EXCEPT ![k] = [IdleAuth EXCEPT
            !.pc = "candidate", !.op = "verify", !.userId = u, !.password = password,
            !.row = otp, !.remember = remember]]
     ELSE End(k, Said("REFUSED"))
  /\ UNCHANGED authStoreVars

\* consume: the newest live code must be the one presented.
FindCandidate(k) ==
  /\ auth[k].pc = "candidate"
  /\ IF auth[k].row # 0 /\ Candidate(auth[k].userId) = auth[k].row
     THEN Go(k, "claim") ELSE End(k, Said("REFUSED"))
  /\ UNCHANGED authStoreVars

\* Mutant: the update that claims a code names its id only.
Claimable_Always(row) == TRUE

\* The guard of the updateMany that claims a code or a link.
Claimable(row) == ~row.used

ClaimCode(k) ==
  LET n == auth[k].row
  IN  /\ auth[k].pc = "claim"
      /\ \/ /\ Claimable(codes[n])
            /\ codes' = [codes EXCEPT ![n].used = TRUE]
            /\ auth' = [auth EXCEPT ![k].pc = "session", ![k].via = "code"]
         \/ /\ ~Claimable(codes[n])
            /\ End(k, Said("REFUSED"))
            /\ UNCHANGED codes
      /\ UNCHANGED <<account, linked, sessions, links, devices, audit, clock>>

\* completeLogin and issueForResolved: the session, and an address that now
\* counts as verified.
OpenSession(k) ==
  LET u == auth[k].userId
      t == Len(sessions) + 1
      proof == IF auth[k].via = "admin" THEN 0 ELSE auth[k].row
  IN  /\ auth[k].pc = "session"
      /\ t <= MaxRows
      /\ sessions' = Append(sessions, NewSession(u, auth[k].via, proof, t, auth[k].password))
      /\ account' = [account EXCEPT ![u].verified = TRUE]
      /\ IF auth[k].remember
         THEN auth' = [auth EXCEPT ![k].pc = "device", ![k].out = Answer("TOKENS", t, 0)]
         ELSE End(k, Answer("TOKENS", t, 0))
      /\ UNCHANGED <<linked, codes, links, devices, audit, clock>>

\* remember: the token's row, kept with the code that earned it.
RememberDevice(k) ==
  /\ auth[k].pc = "device"
  /\ Len(devices) < MaxRows
  /\ devices' = Append(devices, [userId |-> auth[k].userId, revokedAt |-> Null,
                                 expiresAt |-> clock + DEVICE_TTL, code |-> auth[k].row])
  /\ End(k, Answer("TOKENS", auth[k].out.session, Len(devices) + 1))
  /\ UNCHANGED <<account, linked, sessions, codes, links, audit, clock>>

-----------------------------------------------------------------------------
(***************************************************************************)
(* Registration and providers                                              *)
(***************************************************************************)

\* register: the address is looked up, then the row inserted; the unique index
\* settles a race.
BeginRegister(k, u, password) ==
  /\ auth[k].pc = "idle"
  /\ IF account[u].status = "NONE"
     THEN auth' = [auth EXCEPT ![k] = [IdleAuth EXCEPT !.pc = "insert", !.op = "register",
                                                       !.userId = u, !.password = password]]
     ELSE End(k, Said("REFUSED"))
  /\ UNCHANGED authStoreVars

InsertAccount(k) ==
  LET u == auth[k].userId
  IN  /\ auth[k].pc = "insert"
      /\ IF account[u].status = "NONE"
         THEN /\ account' = [account EXCEPT ![u] = [status |-> "ACTIVE", verified |-> FALSE,
                   password |-> auth[k].password, ways |-> @.ways \cup {Null}]]
              /\ End(k, Said("OK"))
         ELSE End(k, Said("REFUSED")) /\ UNCHANGED account
      /\ UNCHANGED <<linked, sessions, codes, links, devices, audit, clock>>

\* The step a provider sign-in goes on with once its account is known.
AfterResolve(op) == IF op = "oauthLogin" THEN "trust" ELSE "candidate"

\* resolveAccount, first read: the account this identity is already on.
BeginOAuth(k, op, identity, email, row, remember) ==
  LET call == [IdleAuth EXCEPT !.op = op, !.identity = identity, !.row = row,
                               !.remember = remember]
      known == IF EmailOf[identity] # Null THEN EmailOf[identity] ELSE email
  IN  /\ auth[k].pc = "idle"
      /\ IF linked[identity] # Null
         THEN auth' = [auth EXCEPT ![k] =
                IF account[linked[identity]].status = "ACTIVE"
                THEN [call EXCEPT !.pc = AfterResolve(op), !.userId = linked[identity]]
                ELSE Done(Said("REFUSED"))]
         ELSE IF known = Null
              THEN End(k, Said(IF op = "oauthLogin" THEN "EMAIL_REQUIRED" ELSE "REFUSED"))
              ELSE auth' = [auth EXCEPT ![k] = [call EXCEPT !.pc = "address", !.userId = known]]
      /\ UNCHANGED authStoreVars

\* Second read: one address, one way in.
FindAddress(k) ==
  /\ auth[k].pc = "address"
  /\ IF account[auth[k].userId].status = "NONE" THEN Go(k, "open")
     ELSE End(k, Said("REFUSED"))
  /\ UNCHANGED authStoreVars

\* Mutant: an address taken meanwhile is signed in to.
AddressFree_Joins(u, i) == linked[i] = Null

\* The unique indexes, as they stand when the rows are inserted.
AddressFree(u, i) == account[u].status = "NONE" /\ linked[i] = Null

\* The account and the identity on it are one nested create; a unique index
\* taken meanwhile fails the request.
OpenAccount(k) ==
  LET u == auth[k].userId
      i == auth[k].identity
  IN  /\ auth[k].pc = "open"
      /\ IF AddressFree(u, i)
         THEN /\ account' = [account EXCEPT ![u] =
                   [status |-> "ACTIVE", password |-> Null, verified |-> EmailOf[i] # Null,
                    ways |-> @.ways \cup {i}]]
              /\ linked' = [linked EXCEPT ![i] = u]
              /\ Go(k, AfterResolve(auth[k].op))
         ELSE End(k, Said("REFUSED")) /\ UNCHANGED <<account, linked>>
      /\ UNCHANGED <<sessions, codes, links, devices, audit, clock>>

-----------------------------------------------------------------------------
(***************************************************************************)
(* Renewing and ending sessions                                            *)
(***************************************************************************)
BeginRefresh(k, t) ==
  /\ auth[k].pc = "idle"
  /\ auth' = [auth EXCEPT ![k] =
       IF lookupRefreshToken(t) = "REPLAYED"
       THEN [IdleAuth EXCEPT !.pc = "replay", !.op = "refresh", !.row = t]
       ELSE IF lookupRefreshToken(t) = "VALID" /\ account[sessions[t].userId].status = "ACTIVE"
            THEN [IdleAuth EXCEPT !.pc = "rotate", !.op = "refresh", !.row = t]
            ELSE Done(Said("REFUSED"))]
  /\ UNCHANGED authStoreVars

\* rotate: the old session is revoked by its id, whatever became of it since
\* the lookup, and a new one opened, in one transaction.
Rotate(k) ==
  LET old == auth[k].row
      t == Len(sessions) + 1
      s == sessions[old]
  IN  /\ auth[k].pc = "rotate"
      /\ t <= MaxRows
      /\ sessions' = Append([sessions EXCEPT ![old].revokedAt = clock],
                            NewSession(s.userId, "rotation", old, s.login, s.knew))
      /\ End(k, Answer("TOKENS", t, 0))
      /\ UNCHANGED <<account, linked, codes, links, devices, audit, clock>>

\* A spent token came back: every session of the account is cut.
CutReplayed(k) ==
  /\ auth[k].pc = "replay"
  /\ sessions' = revokeAllSessions(sessions[auth[k].row].userId)
  /\ End(k, Said("REFUSED"))
  /\ UNCHANGED <<account, linked, codes, links, devices, audit, clock>>

BeginLogout(k, t) ==
  /\ auth[k].pc = "idle"
  /\ IF lookupRefreshToken(t) \in {"VALID", "EXPIRED"}
     THEN auth' = [auth EXCEPT ![k] = [IdleAuth EXCEPT !.pc = "revoke", !.op = "logout",
                                                       !.row = t]]
     ELSE End(k, Said("OK"))
  /\ UNCHANGED authStoreVars

RevokeSession(k) ==
  /\ auth[k].pc = "revoke"
  /\ sessions' = [sessions EXCEPT ![auth[k].row].revokedAt = IF @ = Null THEN clock ELSE @]
  /\ End(k, Said("OK"))
  /\ UNCHANGED <<account, linked, codes, links, devices, audit, clock>>

-----------------------------------------------------------------------------
(***************************************************************************)
(* New passwords and suspension                                            *)
(***************************************************************************)
BeginForgot(k, u) ==
  /\ auth[k].pc = "idle"
  /\ IF account[u].status = "ACTIVE"
     THEN auth' = [auth EXCEPT ![k] = [IdleAuth EXCEPT !.pc = "burnLinks", !.op = "forgot",
                                                       !.userId = u]]
     ELSE End(k, Said("OK"))
  /\ UNCHANGED authStoreVars

BurnLinks(k) ==
  /\ auth[k].pc = "burnLinks"
  /\ auth' = [auth EXCEPT ![k].pc = "createLink", ![k].snap = UnusedLinks(auth[k].userId)]
  /\ UNCHANGED authStoreVars

CreateLink(k) ==
  /\ auth[k].pc = "createLink"
  /\ Len(links) < MaxRows
  /\ links' = Append([n \in DOMAIN links |->
                        IF n \in auth[k].snap THEN [links[n] EXCEPT !.used = TRUE] ELSE links[n]],
                     [userId |-> auth[k].userId, used |-> FALSE, expiresAt |-> clock + RESET_TTL])
  /\ End(k, Said("OK"))
  /\ UNCHANGED <<account, linked, sessions, codes, devices, audit, clock>>

\* PasswordResetService.consume: the link is found, then claimed.
BeginReset(k, n, password) ==
  /\ auth[k].pc = "idle"
  /\ IF n \in DOMAIN links /\ ~links[n].used /\ links[n].expiresAt > clock
     THEN auth' = [auth EXCEPT ![k] = [IdleAuth EXCEPT
            !.pc = "link", !.op = "reset", !.userId = links[n].userId, !.row = n,
            !.password = password]]
     ELSE End(k, Said("REFUSED"))
  /\ UNCHANGED authStoreVars

ClaimLink(k) ==
  LET n == auth[k].row
  IN  /\ auth[k].pc = "link"
      /\ \/ /\ Claimable(links[n])
            /\ links' = [links EXCEPT ![n].used = TRUE]
            /\ Go(k, "password")
         \/ /\ ~Claimable(links[n])
            /\ End(k, Said("REFUSED"))
            /\ UNCHANGED links
      /\ UNCHANGED <<account, linked, sessions, codes, devices, audit, clock>>

\* changeOwnPassword: an admin, with the current password.
BeginChange(k, u, current, password) ==
  /\ auth[k].pc = "idle"
  /\ u \in Admins
  /\ IF account[u].password # Null /\ account[u].password = current
     THEN auth' = [auth EXCEPT ![k] = [IdleAuth EXCEPT !.pc = "password", !.op = "change",
                                                       !.userId = u, !.password = password]]
     ELSE End(k, Said("REFUSED"))
  /\ UNCHANGED authStoreVars

SetPassword(k) ==
  /\ auth[k].pc = "password"
  /\ account' = [account EXCEPT ![auth[k].userId].password = auth[k].password]
  /\ Go(k, "cut")
  /\ UNCHANGED <<linked, sessions, codes, links, devices, audit, clock>>

CutSessions(k) ==
  /\ auth[k].pc = "cut"
  /\ sessions' = revokeAllSessions(auth[k].userId)
  /\ Go(k, "forget")
  /\ UNCHANGED <<account, linked, codes, links, devices, audit, clock>>

ForgetDevices(k) ==
  /\ auth[k].pc = "forget"
  /\ devices' = [d \in DOMAIN devices |->
       IF devices[d].userId = auth[k].userId /\ devices[d].revokedAt = Null
       THEN [devices[d] EXCEPT !.revokedAt = clock] ELSE devices[d]]
  /\ End(k, Said("OK"))
  /\ UNCHANGED <<account, linked, sessions, codes, links, audit, clock>>

\* The live sessions a suspension takes with it.
RevokedBySuspension(u) ==
  [t \in DOMAIN sessions |->
     IF sessions[t].userId = u /\ Live(t) THEN [sessions[t] EXCEPT !.revokedAt = clock]
     ELSE sessions[t]]

\* changeUserStatus: status, admin_actions and sessions are one transaction.
ChangeStatus(k, admin, u, status) ==
  /\ auth[k].pc = "idle"
  /\ admin \in Admins
  /\ IF admin # u /\ account[u].status # "NONE"
     THEN /\ account' = [account EXCEPT ![u].status = status]
          /\ audit' = [audit EXCEPT ![u] = Append(@, IF status = "SUSPENDED" THEN "SUSPEND_USER"
                                                     ELSE "REACTIVATE_USER")]
          /\ sessions' = IF status = "SUSPENDED" THEN RevokedBySuspension(u) ELSE sessions
          /\ End(k, Said("OK"))
     ELSE End(k, Said("REFUSED")) /\ UNCHANGED <<account, audit, sessions>>
  /\ UNCHANGED <<linked, codes, links, devices, clock>>

-----------------------------------------------------------------------------
\* The steps a call takes once it has begun.
Serve(k) ==
  \/ Trust(k) \/ Cooldown(k) \/ BurnCodes(k) \/ CreateCode(k) \/ FindCandidate(k)
  \/ ClaimCode(k) \/ OpenSession(k) \/ RememberDevice(k) \/ InsertAccount(k)
  \/ FindAddress(k) \/ OpenAccount(k) \/ Rotate(k) \/ CutReplayed(k) \/ RevokeSession(k)
  \/ BurnLinks(k) \/ CreateLink(k) \/ ClaimLink(k) \/ SetPassword(k) \/ CutSessions(k)
  \/ ForgetDevices(k)

SignInTypeOK ==
  \A k \in AuthCalls :
    /\ auth[k].userId \in People \cup {Null}
    /\ auth[k].row \in Nat
    /\ auth[k].snap \subseteq Nat
    /\ auth[k].out # Null => auth[k].out.kind \in Answers
=============================================================================
