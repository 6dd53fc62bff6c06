----------------------------- MODULE AuthStore -----------------------------
(***************************************************************************)
(* The rows sign-in keeps: accounts and the provider identities on them,   *)
(* refresh sessions, emailed codes, reset links and trusted devices.       *)
(*                                                                         *)
(* A token, a code or a link is the index of its row: none of them can be  *)
(* guessed.  A person is also their email address.                         *)
(***************************************************************************)
EXTENDS Integers, Sequences, FiniteSets, FiniteSetsExt, SequencesExt

CONSTANTS
  Null,
  People,             \* accounts, and the addresses they are opened with
  Admins,             \* the people whose role is ADMIN
  Registered,         \* the accounts as a run starts, each with a password
  Identities,         \* provider accounts
  EmailOf,            \* the verified address an identity comes with, or Null
  Passwords,          \* passwords people may choose, as numbers
  ADMIN_SKIP_2FA,
  OTP_TTL, OTP_COOLDOWN, RESET_TTL, REFRESH_TTL, ACCESS_TTL, DEVICE_TTL,
  MaxTime,            \* bound on the clock
  MaxRows             \* bound on the rows of each token table

ASSUME AuthAssumption ==
  /\ Admins \subseteq People /\ Registered \subseteq People
  /\ EmailOf \in [Identities -> People \cup {Null}]
  /\ Null \notin People \cup Identities /\ Null \notin Nat
  /\ Passwords \subseteq Nat /\ 0 \in Passwords
  /\ ADMIN_SKIP_2FA \in BOOLEAN
  /\ \A n \in {OTP_TTL, OTP_COOLDOWN, RESET_TTL, REFRESH_TTL, ACCESS_TTL, DEVICE_TTL,
               MaxTime, MaxRows} : n \in Nat

VARIABLES
  account,    \* users
  linked,     \* auth_accounts: the person an identity signs in
  sessions,   \* user_sessions, in insertion order
  codes,      \* two_factor_codes
  links,      \* password_reset_tokens
  devices,    \* trusted_devices
  audit,      \* admin_actions of each person
  clock

authStoreVars == <<account, linked, sessions, codes, links, devices, audit, clock>>

\* `ways` is a history: what the row was opened with, Null for the form.
Account == [status : {"NONE", "ACTIVE", "SUSPENDED"}, password : Passwords \cup {Null},
            verified : BOOLEAN, ways : SUBSET (Identities \cup {Null})]

\* `revokedAt` is Null while a session is live.  `via` records what opened it
\* (a code, a device, a rotated session, or the admin exemption), `login` the
\* session its chain of rotations began with, `knew` the password it rests on.
SessionRow == [userId : People, expiresAt : Nat, revokedAt : Nat \cup {Null},
               accessExpiry : Nat, via : {"code", "device", "rotation", "admin"},
               proof : Nat, login : Nat, knew : Passwords \cup {Null}]

CodeRow == [userId : People, used : BOOLEAN, createdAt : Nat, expiresAt : Nat]
LinkRow == [userId : People, used : BOOLEAN, expiresAt : Nat]
DeviceRow == [userId : People, revokedAt : Nat \cup {Null}, expiresAt : Nat, code : Nat]

\* `who` signed in `logins` times before, each time behind a code of its own.
AuthStoreInit(who, logins) ==
  /\ account = [u \in People |->
       IF u \in Registered THEN [status |-> "ACTIVE", password |-> 0, verified |-> FALSE, ways |-> {Null}]
       ELSE [status |-> "NONE", password |-> Null, verified |-> FALSE, ways |-> {}]]
  /\ linked = [i \in Identities |-> Null]
  /\ codes = [n \in 1 .. logins |-> [userId |-> who, used |-> TRUE, createdAt |-> 0,
                                     expiresAt |-> OTP_TTL]]
  /\ sessions = [n \in 1 .. logins |->
       [userId |-> who, expiresAt |-> REFRESH_TTL, revokedAt |-> Null,
        accessExpiry |-> ACCESS_TTL, via |-> "code", proof |-> n, login |-> n, knew |-> 0]]
  /\ links = <<>> /\ devices = <<>>
  /\ audit = [u \in People |-> <<>>]
  /\ clock = 0

-----------------------------------------------------------------------------
(***************************************************************************)
(* Statements several operations share                                     *)
(***************************************************************************)
Live(t) == sessions[t].revokedAt = Null /\ sessions[t].expiresAt > clock

\* lookupRefreshToken: a token spent or revoked is a replay, whatever its age.
lookupRefreshToken(t) ==
  IF t \notin DOMAIN sessions THEN "UNKNOWN"
  ELSE IF sessions[t].revokedAt # Null THEN "REPLAYED"
  ELSE IF sessions[t].expiresAt <= clock THEN "EXPIRED" ELSE "VALID"

NewSession(u, via, proof, login, knew) ==
  [userId |-> u, expiresAt |-> clock + REFRESH_TTL, revokedAt |-> Null,
   accessExpiry |-> clock + ACCESS_TTL, via |-> via, proof |-> proof, login |-> login,
   knew |-> knew]

\* revokeAllSessions: one updateMany over the account's live rows.
revokeAllSessions(u) ==
  [t \in DOMAIN sessions |->
     IF sessions[t].userId = u /\ sessions[t].revokedAt = Null
     THEN [sessions[t] EXCEPT !.revokedAt = clock] ELSE sessions[t]]

\* checkCooldown: the newest code, used or not, is younger than the cooldown.
checkCooldown(u) ==
  \E n \in DOMAIN codes : codes[n].userId = u /\ clock - codes[n].createdAt < OTP_COOLDOWN

UnusedCodes(u) == {n \in DOMAIN codes : codes[n].userId = u /\ ~codes[n].used}
UnusedLinks(u) == {n \in DOMAIN links : links[n].userId = u /\ ~links[n].used}

\* The newest code that may still be redeemed; 0 when there is none.
Candidate(u) == Max({0} \cup {n \in UnusedCodes(u) : codes[n].expiresAt > clock})

\* Mutant: the device is looked up by its token alone.
isTrusted_AnyAccount(u, d) ==
  /\ d \in DOMAIN devices
  /\ devices[d].revokedAt = Null /\ devices[d].expiresAt > clock

\* isTrusted: a live row of this very account.
isTrusted(u, d) ==
  /\ d \in DOMAIN devices
  /\ devices[d].userId = u /\ devices[d].revokedAt = Null /\ devices[d].expiresAt > clock

\* AccessTokenGuard: the token's own expiry, and the account read afresh.
canActivate(t) == sessions[t].accessExpiry > clock /\ account[sessions[t].userId].status = "ACTIVE"

PassTime ==
  /\ clock < MaxTime
  /\ clock' = clock + 1
  /\ UNCHANGED <<account, linked, sessions, codes, links, devices, audit>>

AuthStoreTypeOK ==
  /\ account \in [People -> Account]
  /\ linked \in [Identities -> People \cup {Null}]
  /\ sessions \in Seq(SessionRow)
  /\ codes \in Seq(CodeRow) /\ links \in Seq(LinkRow) /\ devices \in Seq(DeviceRow)
  /\ audit \in [People -> Seq({"SUSPEND_USER", "REACTIVATE_USER"})]
  /\ clock \in 0 .. MaxTime
=============================================================================
