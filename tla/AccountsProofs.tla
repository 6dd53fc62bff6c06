----------------------------- MODULE AccountsProofs --------------------------
(***************************************************************************)
(* Proofs about Accounts.                                                  *)
(***************************************************************************)
EXTENDS Accounts, TLAPS, FiniteSetTheorems, SequenceTheorems, WellFoundedInduction

-----------------------------------------------------------------------------
(***************************************************************************)
(* The inductive invariant                                                 *)
(***************************************************************************)
Resting == {"idle", "done"}
AtToken == {"rotate", "replay", "revoke"}
AtCode == {"trust", "cooldown", "burn", "create"}
AtAddress == {"address", "open"}
AtPassword == {"password", "cut", "forget"}
Elsewhere == {"candidate", "claim", "session", "device", "insert", "burnLinks", "createLink", "link"}

AnswerRow == [kind : Answers, session : Nat, device : Nat]

Call == [pc : Resting \cup AtToken \cup AtCode \cup AtAddress \cup AtPassword \cup Elsewhere,
         op : {Null, "login", "resend", "verify", "register", "oauthLogin", "verifyOAuth",
               "refresh", "logout", "forgot", "reset", "change"},
         userId : People \cup {Null}, identity : Identities \cup {Null},
         password : Passwords \cup {Null}, row : Nat, via : {Null, "admin", "device", "code"},
         remember : BOOLEAN, snap : SUBSET Nat, out : AnswerRow \cup {Null}]

Answered(n, u) == n \in DOMAIN codes /\ codes[n].used /\ codes[n].userId = u

Remembers(d, u) == d \in DOMAIN devices /\ devices[d].userId = u

\* What stands behind a session of u.
Vouched(via, n, u) ==
  \/ via = "code" /\ Answered(n, u)
  \/ via = "device" /\ Remembers(n, u)
  \/ via = "admin" /\ u \in Admins /\ ADMIN_SKIP_2FA

AnswerOK(a) ==
  /\ a \in AnswerRow
  /\ a.session \in {0} \cup DOMAIN sessions /\ a.device \in {0} \cup DOMAIN devices
  /\ a.kind = "TOKENS" => a.session # 0

CallOK(c) ==
  /\ c \in Call
  /\ c.pc \notin Resting \cup AtToken => c.userId \in People
  /\ c.pc \in AtToken => c.row \in DOMAIN sessions
  /\ c.pc \in AtCode => ~c.remember
  /\ c.pc \in AtAddress => /\ c.identity \in Identities /\ c.op \in {"oauthLogin", "verifyOAuth"}
                           /\ c.op = "oauthLogin" => ~c.remember
  /\ c.pc \in AtPassword /\ c.op = "reset" => c.row \in DOMAIN links /\ links[c.row].used
  /\ c.pc = "link" => c.row \in DOMAIN links
  /\ c.pc = "claim" => c.row \in DOMAIN codes /\ codes[c.row].userId = c.userId
  /\ c.pc = "session" => /\ Vouched(c.via, c.row, c.userId)
                         /\ c.remember => c.via = "code"
  /\ c.pc = "device" => Answered(c.row, c.userId) /\ c.out.session # 0
  /\ c.pc \in {"device", "done"} => AnswerOK(c.out)

SessionOK(t) ==
  LET s == sessions[t]
      first == sessions[s.login]
  IN  /\ s.login \in DOMAIN sessions
      /\ first.userId = s.userId
      /\ Vouched(first.via, first.proof, s.userId)
      /\ s.via # "rotation" => s.login = t
      /\ s.revokedAt # Null => s.revokedAt <= clock

Rows ==
  /\ AuthStoreTypeOK
  /\ Len(sessions) <= MaxRows
  /\ \A t \in DOMAIN sessions : SessionOK(t)
  /\ \A d \in DOMAIN devices : Answered(devices[d].code, devices[d].userId)

CallsOK == /\ auth \in [AuthCalls -> Call]
           /\ \A k \in AuthCalls : CallOK(auth[k])

\* A call that holds a code it has claimed and opens the session next.
Holds(k) == auth[k].pc = "session" /\ auth[k].via = "code"
Resets(k) == auth[k].op = "reset" /\ auth[k].pc \in AtPassword

Doors ==
  /\ \A s, t \in DOMAIN sessions :
       s # t /\ sessions[s].via = "code" /\ sessions[t].via = "code"
         => sessions[s].proof # sessions[t].proof
  /\ \A k \in AuthCalls, t \in DOMAIN sessions :
       Holds(k) /\ sessions[t].via = "code" => sessions[t].proof # auth[k].row
  /\ \A j, k \in AuthCalls : j # k /\ Holds(j) /\ Holds(k) => auth[j].row # auth[k].row
  /\ \A j, k \in AuthCalls : j # k /\ Resets(j) /\ Resets(k) => auth[j].row # auth[k].row

WaysIn ==
  /\ \A u \in People : account[u].status = "NONE" => account[u].ways = {}
  /\ \A u \in People, i \in Identities :
       account[u].status = "NONE" => linked[i] # u
  /\ OneWayIn

Jar == [session : Nat, error : BOOLEAN, device : Nat, pending : Identities \cup {Null},
        address : People \cup {Null}, state : BOOLEAN, ready : Nat]

PageRow == [at : {"login", "code", "home", "provider", "email", "otp", "ready", "sent",
                  "register", "forgot", "reset"},
            asked : {Null, "login", "verify", "resend", "register", "forgot", "reset", "google",
                     "line", "email", "otp", "again"},
            who : People \cup {Null}, password : Passwords \cup {Null},
            identity : Identities \cup {Null}]

JarOK(cookies) ==
  /\ cookies \in Jar
  /\ {cookies.session, cookies.ready} \subseteq {0} \cup DOMAIN sessions
  /\ cookies.device \in {0} \cup DOMAIN devices

PageOK(p) == p \in PageRow /\ (p.at = "code" \/ p.asked = "login" => p.who \in People)

PagesOK ==
  /\ jar \in [Browsers -> Jar] /\ page \in [Browsers -> PageRow]
  /\ \A b \in Browsers : JarOK(jar[b]) /\ PageOK(page[b])

ReadRow == [pc : {"idle", "call", "wait", "got", "send"}, browser : Browsers \cup {Null},
            token : Nat, hops : Nat, outcome : {Null, "renewed", "dead", "unreachable"},
            fetch : BOOLEAN, sent : Nat]

ReadOK(rd) ==
  rd \in ReadRow /\ (rd.pc # "idle" => rd.browser \in Browsers /\ rd.token \in DOMAIN sessions)

Memory == [became : Int, until : Nat]

ReadsOK ==
  /\ read \in [Reads -> ReadRow] /\ spent \in [1 .. MaxRows -> Memory]
  /\ \A r \in Reads : ReadOK(read[r])
  /\ \A t \in 1 .. MaxRows : spent[t].became \in {-1, 0} \cup DOMAIN sessions
  /\ attempt \in [Browsers -> Nat \cup {Null}]
  /\ faults \in Nat

WellFormed == scene \in Scenes /\ Rows /\ CallsOK /\ PagesOK /\ ReadsOK

Undisturbed == faults = 0 /\ ~Does("refresh")

Rotated(t) == \E n \in DOMAIN sessions : sessions[n].via = "rotation" /\ sessions[n].proof = t

\* The read r has traded t and its answer is on the way.
Answering(r, t) ==
  read[r].pc = "call" /\ read[r].token = t /\ auth[r].pc = "done" /\ auth[r].out.kind = "TOKENS"

\* A traded token is remembered for as long as GRACE asks.
Remembering(t) ==
  \/ clock - sessions[t].revokedAt >= GRACE_MS
  \/ spent[t].became > 0 /\ spent[t].until >= sessions[t].revokedAt + GRACE_MS
  \/ \E r \in Reads : Answering(r, t)

SingleFlight ==
  /\ \A k \in AuthCalls \ Reads : auth[k].pc \notin {"rotate", "replay"}
  /\ \A r \in Reads : auth[r].pc \in {"rotate", "replay"} =>
                        read[r].pc = "call" /\ read[r].token = auth[r].row
  /\ \A r \in Reads : read[r].pc = "call" => spent[read[r].token].became = -1
  /\ \A q, r \in Reads : q # r /\ read[q].pc = "call" /\ read[r].pc = "call"
                           => read[q].token # read[r].token

Chains ==
  /\ \A n \in DOMAIN sessions :
       sessions[n].via = "rotation" => sessions[n].proof \in DOMAIN sessions
  /\ \A s, t \in DOMAIN sessions :
       s < t /\ sessions[s].login = sessions[t].login => sessions[s].revokedAt # Null
  /\ \A r \in Reads, t \in DOMAIN sessions :
       auth[r].pc = "rotate" /\ sessions[t].login = sessions[auth[r].row].login
         => t <= auth[r].row
  /\ \A t \in DOMAIN sessions :
       Rotated(t) => sessions[t].revokedAt # Null /\ Remembering(t)
  /\ \A r \in Reads : auth[r].pc = "replay" /\ Rotated(auth[r].row)
                        => clock - sessions[auth[r].row].revokedAt >= GRACE_MS

Renewals == Undisturbed => SingleFlight /\ Chains

-----------------------------------------------------------------------------
(***************************************************************************)
(* Facts about numbers and sequences                                       *)
(***************************************************************************)

\* A nonempty set of numbers below a bound has a greatest member, and Max finds it.
LEMMA MaxIsIn ==
  ASSUME NEW n \in Nat, NEW S, S \subseteq 0 .. n, S # {}
  PROVE  Max(S) \in S /\ \A x \in S : x <= Max(S)
<1> DEFINE T == {m \in Nat : \A x \in S : x <= m}
           R == OpToRel(<, Nat)
<1>1. n \in T
  OBVIOUS
<1>2. PICK m \in T : \A y \in T : ~(<<y, m>> \in R)
  <2>1. IsWellFoundedOn(R, Nat)
    BY NatLessThanWellFounded
  <2> HIDE DEF R
  <2> QED BY <1>1, <2>1, WFMin
<1>3. \A y \in T : ~(y < m)
  <2> SUFFICES ASSUME NEW y \in T, y < m PROVE FALSE
    OBVIOUS
  <2> <<y, m>> \in R
    BY DEF OpToRel
  <2> QED BY <1>2
<1>4. m \in S
  <2> SUFFICES ASSUME m \notin S PROVE FALSE
    OBVIOUS
  <2>1. PICK x \in S : TRUE
    OBVIOUS
  <2>2. m # 0 /\ m - 1 \in T
    BY <2>1
  <2> QED BY <2>2, <1>3
<1> QED BY <1>4 DEF Max

\* Changing the rows of a table in place keeps it a table of the same length.
LEMMA RowsInPlace ==
  ASSUME NEW S, NEW s \in Seq(S), NEW f, f = [i \in DOMAIN s |-> f[i]],
         \A i \in DOMAIN s : f[i] \in S
  PROVE  f \in Seq(S) /\ Len(f) = Len(s) /\ DOMAIN f = DOMAIN s
<1>1. Len(s) \in Nat /\ DOMAIN s = 1 .. Len(s)
  BY LenProperties
<1>2. f \in [1 .. Len(s) -> S]
  BY <1>1
<1> QED BY <1>1, <1>2, SeqDef, LenProperties

\* A table with one more row keeps the rows it had.
LEMMA RowAppended ==
  ASSUME NEW S, NEW s \in Seq(S), NEW x \in S
  PROVE  /\ Append(s, x) \in Seq(S) /\ Len(Append(s, x)) = Len(s) + 1
         /\ Len(s) \in Nat /\ DOMAIN s = 1 .. Len(s)
         /\ DOMAIN Append(s, x) = DOMAIN s \cup {Len(s) + 1} /\ Len(s) + 1 \notin DOMAIN s
         /\ Append(s, x)[Len(s) + 1] = x
         /\ \A i \in DOMAIN s : Append(s, x)[i] = s[i]
<1>1. /\ Append(s, x) \in Seq(S) /\ Len(Append(s, x)) = Len(s) + 1
      /\ \A i \in 1 .. Len(s) : Append(s, x)[i] = s[i]
      /\ Append(s, x)[Len(s) + 1] = x
  BY AppendProperties
<1>2. Len(s) \in Nat /\ DOMAIN s = 1 .. Len(s) /\ DOMAIN Append(s, x) = 1 .. (Len(s) + 1)
  BY <1>1, LenProperties
<1> QED BY <1>1, <1>2

-----------------------------------------------------------------------------
(***************************************************************************)
(* What no step takes back                                                 *)
(***************************************************************************)

\* Rows are added and never deleted, and keep whose they are and what they
\* stand on; a code or a link that is used stays so.
Grown ==
  /\ \A t \in DOMAIN sessions :
       /\ t \in DOMAIN sessions'
       /\ sessions'[t].userId = sessions[t].userId /\ sessions'[t].via = sessions[t].via
       /\ sessions'[t].proof = sessions[t].proof /\ sessions'[t].login = sessions[t].login
  /\ \A n \in DOMAIN codes :
       /\ n \in DOMAIN codes'
       /\ codes'[n].userId = codes[n].userId /\ (codes[n].used => codes'[n].used)
  /\ \A n \in DOMAIN links : n \in DOMAIN links' /\ (links[n].used => links'[n].used)
  /\ \A d \in DOMAIN devices :
       /\ d \in DOMAIN devices'
       /\ devices'[d].userId = devices[d].userId /\ devices'[d].code = devices[d].code

\* What vouches for a session goes on vouching for it.
LEMMA VouchersStand ==
  ASSUME Grown, NEW n, NEW u, NEW via
  PROVE  (Answered(n, u) => Answered(n, u)') /\ (Vouched(via, n, u) => Vouched(via, n, u)')
BY DEF Grown, Answered, Vouched, Remembers

\* A call, an answer, a jar or a read that is well formed stays so.
LEMMA CallsStand ==
  ASSUME Grown, NEW c, CallOK(c)
  PROVE  CallOK(c)'
<1>1. AnswerOK(c.out) => AnswerOK(c.out)'
  BY DEF AnswerOK, Grown
<1>2. Answered(c.row, c.userId) => Answered(c.row, c.userId)'
  BY VouchersStand
<1>3. Vouched(c.via, c.row, c.userId) => Vouched(c.via, c.row, c.userId)'
  BY VouchersStand
<1>4. c.row \in DOMAIN links => c.row \in DOMAIN links' /\ (links[c.row].used => links'[c.row].used)
  BY DEF Grown
<1>5. c.row \in DOMAIN sessions => c.row \in DOMAIN sessions'
  BY DEF Grown
<1>6. c.row \in DOMAIN codes => c.row \in DOMAIN codes' /\ codes'[c.row].userId = codes[c.row].userId
  BY DEF Grown
<1> QED BY <1>1, <1>2, <1>3, <1>4, <1>5, <1>6 DEF CallOK

\* Cookies that are well formed stay so.
LEMMA JarsStand ==
  ASSUME Grown, NEW cookies, JarOK(cookies)
  PROVE  JarOK(cookies)'
BY DEF Grown, JarOK

\* So does a read.
LEMMA ReadsStand ==
  ASSUME Grown, NEW rd, ReadOK(rd)
  PROVE  ReadOK(rd)'
BY DEF Grown, ReadOK

\* Leaving the rows alone is growing by nothing.
LEMMA UnchangedGrown ==
  ASSUME UNCHANGED <<sessions, codes, links, devices>>
  PROVE  Grown
BY DEF Grown

-----------------------------------------------------------------------------
(***************************************************************************)
(* Calls begin, and calls are dropped                                      *)
(***************************************************************************)

\* A call without anything in it is well formed, and so is one that has ended
\* with a well formed answer.
LEMMA IdleIsOK == CallOK(IdleAuth) /\ IdleAuth.pc = "idle"
BY AuthAssumption DEF CallOK, Call, IdleAuth, Resting, AtToken, AtCode, AtAddress, AtPassword,
                      AnswerOK, Vouched, Answered, Remembers

\* A call that has ended with a well formed answer is well formed.
LEMMA DoneIsOK ==
  ASSUME NEW a, AnswerOK(a)
  PROVE  CallOK(Done(a)) /\ Done(a).pc = "done" /\ Done(a).out = a
<1>1. Done(a) \in Call /\ Done(a).pc = "done" /\ Done(a).out = a
  BY AuthAssumption DEF Call, Done, IdleAuth, Resting, AnswerOK
<1> QED BY <1>1 DEF CallOK, Resting, AtToken, AtCode, AtAddress, AtPassword

\* An answer without tokens is well formed.
LEMMA SaidIsOK ==
  ASSUME NEW kind \in Answers, kind # "TOKENS"
  PROVE  AnswerOK(Said(kind))
BY DEF AnswerOK, AnswerRow, Said, Answer

\* What a call is when it begins: well formed, and holding nothing yet.
Begun(c) ==
  /\ CallOK(c)
  /\ ~(c.pc = "session" /\ c.via = "code") /\ ~(c.op = "reset" /\ c.pc \in AtPassword)

\* A call that is turned away at once holds nothing.
LEMMA RefusedIsBegun ==
  ASSUME NEW kind \in Answers, kind # "TOKENS"
  PROVE  Begun(Done(Said(kind))) /\ Done(Said(kind)).pc = "done"
BY SaidIsOK, DoneIsOK DEF Begun, AtPassword

\* The slot k takes up the call c and the rows stay as they are.
Takes(k, c) == auth[k].pc = "idle" /\ auth' = [auth EXCEPT ![k] = c] /\ UNCHANGED authStoreVars

\* A call other than a refresh begins.
Starts(k) == \E c : Takes(k, c) /\ Begun(c) /\ c.pc \notin {"rotate", "replay"}

\* login begins: past the password, or refused.
LEMMA LoginStarts ==
  ASSUME NEW k, NEW u \in People, NEW password \in Passwords \cup {Null}, NEW device \in Nat,
         BeginLogin(k, u, password, device)
  PROVE  Starts(k)
<1>1. CASE authenticate(u, password)
  <2> DEFINE c == [IdleAuth EXCEPT
            !.pc = IF u \in Admins /\ ADMIN_SKIP_2FA THEN "session" ELSE "trust",
            !.op = "login", !.userId = u, !.password = password, !.row = device,
            !.via = "admin"]
  <2>1. c \in Call
    BY AuthAssumption DEF Call, IdleAuth, Resting, AtCode, Elsewhere
  <2>2. /\ c.pc = IF u \in Admins /\ ADMIN_SKIP_2FA THEN "session" ELSE "trust"
        /\ c.userId = u /\ c.via = "admin" /\ c.op = "login" /\ ~c.remember
    BY DEF IdleAuth
  <2>3. Takes(k, c)
    BY <1>1 DEF BeginLogin, Takes
  <2> HIDE DEF c
  <2>4. Begun(c) /\ c.pc \notin {"rotate", "replay"}
    BY <2>1, <2>2 DEF Begun, CallOK, Resting, AtToken, AtCode, AtAddress, AtPassword, Vouched
  <2> QED BY <2>3, <2>4 DEF Starts
<1>2. CASE ~authenticate(u, password)
  <2> Takes(k, Done(Said("REFUSED")))
    BY <1>2 DEF BeginLogin, Takes, End
  <2> QED BY RefusedIsBegun DEF Starts, Answers
<1> QED BY <1>1, <1>2

\* resend begins.
LEMMA ResendStarts ==
  ASSUME NEW k, NEW u \in People, NEW password, BeginResend(k, u, password)
  PROVE  Starts(k)
<1>1. CASE authenticate(u, password)
  <2> DEFINE c == [IdleAuth EXCEPT !.pc = "cooldown", !.op = "resend", !.userId = u]
  <2>1. c \in Call /\ c.pc = "cooldown" /\ c.userId = u /\ ~c.remember
    BY AuthAssumption DEF Call, IdleAuth, Resting, AtCode
  <2>3. Takes(k, c)
    BY <1>1 DEF BeginResend, Takes
  <2> HIDE DEF c
  <2>4. Begun(c) /\ c.pc \notin {"rotate", "replay"}
    BY <2>1 DEF Begun, CallOK, Resting, AtToken, AtCode, AtAddress, AtPassword
  <2> QED BY <2>3, <2>4 DEF Starts
<1>2. CASE ~authenticate(u, password)
  <2> Takes(k, Done(Said("REFUSED")))
    BY <1>2 DEF BeginResend, Takes, End
  <2> QED BY RefusedIsBegun DEF Starts, Answers
<1> QED BY <1>1, <1>2

\* verify begins with the code that was typed.
LEMMA VerifyStarts ==
  ASSUME NEW k, NEW u \in People, NEW password \in Passwords \cup {Null}, NEW otp \in Nat,
         NEW remember \in BOOLEAN, BeginVerify(k, u, password, otp, remember)
  PROVE  Starts(k)
<1>1. CASE authenticate(u, password)
  <2> DEFINE c == [IdleAuth EXCEPT
            !.pc = "candidate", !.op = "verify", !.userId = u, !.password = password,
            !.row = otp, !.remember = remember]
  <2>1. c \in Call /\ c.pc = "candidate" /\ c.userId = u
    BY AuthAssumption DEF Call, IdleAuth, Resting, Elsewhere
  <2>3. Takes(k, c)
    BY <1>1 DEF BeginVerify, Takes
  <2> HIDE DEF c
  <2>4. Begun(c) /\ c.pc \notin {"rotate", "replay"}
    BY <2>1 DEF Begun, CallOK, Resting, AtToken, AtCode, AtAddress, AtPassword
  <2> QED BY <2>3, <2>4 DEF Starts
<1>2. CASE ~authenticate(u, password)
  <2> Takes(k, Done(Said("REFUSED")))
    BY <1>2 DEF BeginVerify, Takes, End
  <2> QED BY RefusedIsBegun DEF Starts, Answers
<1> QED BY <1>1, <1>2

\* register begins, unless the address is taken.
LEMMA RegisterStarts ==
  ASSUME NEW k, NEW u \in People, NEW password \in Passwords, BeginRegister(k, u, password)
  PROVE  Starts(k)
<1>1. CASE account[u].status = "NONE"
  <2> DEFINE c == [IdleAuth EXCEPT !.pc = "insert", !.op = "register",
                                   !.userId = u, !.password = password]
  <2>1. c \in Call /\ c.pc = "insert" /\ c.userId = u
    BY AuthAssumption DEF Call, IdleAuth, Resting, Elsewhere
  <2>3. Takes(k, c)
    BY <1>1 DEF BeginRegister, Takes
  <2> HIDE DEF c
  <2>4. Begun(c) /\ c.pc \notin {"rotate", "replay"}
    BY <2>1 DEF Begun, CallOK, Resting, AtToken, AtCode, AtAddress, AtPassword
  <2> QED BY <2>3, <2>4 DEF Starts
<1>2. CASE account[u].status # "NONE"
  <2> Takes(k, Done(Said("REFUSED")))
    BY <1>2 DEF BeginRegister, Takes, End
  <2> QED BY RefusedIsBegun DEF Starts, Answers
<1> QED BY <1>1, <1>2

\* A provider's sign-in without a code to show does not ask to be remembered.
LEMMA OAuthStarts ==
  ASSUME NEW k, NEW op \in {"oauthLogin", "verifyOAuth"}, NEW identity \in Identities,
         NEW email \in People \cup {Null}, NEW row \in Nat, NEW remember \in BOOLEAN,
         op = "oauthLogin" => ~remember,
         linked \in [Identities -> People \cup {Null}],
         BeginOAuth(k, op, identity, email, row, remember)
  PROVE  Starts(k)
<1> DEFINE call == [IdleAuth EXCEPT !.op = op, !.identity = identity, !.row = row,
                                    !.remember = remember]
           known == IF EmailOf[identity] # Null THEN EmailOf[identity] ELSE email
<1>0. linked[identity] \in People \cup {Null} /\ known \in People \cup {Null}
  BY AuthAssumption
<1>c. /\ call \in Call /\ call.op = op /\ call.identity = identity /\ call.remember = remember
      /\ call.via = Null
  BY AuthAssumption DEF Call, IdleAuth, Resting
<1>1. CASE linked[identity] # Null /\ account[linked[identity]].status = "ACTIVE"
  <2> DEFINE u == linked[identity]
             c == [call EXCEPT !.pc = AfterResolve(op), !.userId = u]
  <2>1. Takes(k, c)
    BY <1>1 DEF BeginOAuth, Takes
  <2>u. u \in People
    BY <1>0, <1>1
  <2>p. AfterResolve(op) \in AtCode \cup Elsewhere
    BY DEF AfterResolve, AtCode, Elsewhere
  <2> HIDE DEF call, u
  <2>2. /\ c \in Call /\ c.pc = AfterResolve(op) /\ c.userId \in People
        /\ c.remember = remember /\ c.op = op
    <3>1. PICK pc : pc = AfterResolve(op) /\ pc \in AtCode \cup Elsewhere
      BY <2>p
    <3>2. PICK d : d = [call EXCEPT !.pc = pc]
      OBVIOUS
    <3>3. c = [d EXCEPT !.userId = u]
      BY <3>1, <3>2
    <3> HIDE DEF c
    <3>4. d \in Call /\ d.pc = pc /\ d.remember = call.remember /\ d.op = call.op
      BY <3>1, <3>2, <1>c DEF Call
    <3>5. /\ c \in Call /\ c.pc = d.pc /\ c.userId = u /\ c.remember = d.remember
          /\ c.op = d.op
      BY <3>3, <3>4, <2>u DEF Call
    <3> QED BY <3>1, <3>4, <3>5, <2>u, <1>c
  <2> HIDE DEF c
  <2>3. Begun(c) /\ c.pc \notin {"rotate", "replay"}
    BY <2>2 DEF Begun, CallOK, Resting, AtToken, AtCode, AtAddress, AtPassword, AfterResolve
  <2> QED BY <2>1, <2>3 DEF Starts
<1>2. CASE linked[identity] # Null /\ account[linked[identity]].status # "ACTIVE"
  <2> Takes(k, Done(Said("REFUSED")))
    BY <1>2 DEF BeginOAuth, Takes
  <2> QED BY RefusedIsBegun DEF Starts, Answers
<1>3. CASE linked[identity] = Null /\ known = Null
  <2> DEFINE kind == IF op = "oauthLogin" THEN "EMAIL_REQUIRED" ELSE "REFUSED"
  <2>1. Takes(k, Done(Said(kind)))
    BY <1>3 DEF BeginOAuth, Takes, End
  <2>2. kind \in Answers /\ kind # "TOKENS"
    BY DEF Answers
  <2> HIDE DEF kind
  <2> QED BY <2>1, <2>2, RefusedIsBegun DEF Starts
<1>4. CASE linked[identity] = Null /\ known # Null
  <2> DEFINE c == [call EXCEPT !.pc = "address", !.userId = known]
  <2>1. Takes(k, c)
    BY <1>4 DEF BeginOAuth, Takes
  <2> HIDE DEF call, known
  <2>2. /\ c \in Call /\ c.pc = "address" /\ c.userId \in People
        /\ c.remember = remember /\ c.op = op /\ c.identity = identity
    BY <1>0, <1>4, <1>c DEF Call, AtAddress
  <2> HIDE DEF c
  <2>3. Begun(c) /\ c.pc \notin {"rotate", "replay"}
    BY <2>2 DEF Begun, CallOK, Resting, AtToken, AtCode, AtAddress, AtPassword
  <2> QED BY <2>1, <2>3 DEF Starts
<1> QED BY <1>1, <1>2, <1>3, <1>4

\* logout begins at the token it was handed.
LEMMA LogoutStarts ==
  ASSUME NEW k, NEW t \in DOMAIN sessions, t \in Nat, BeginLogout(k, t)
  PROVE  Starts(k)
<1>1. CASE lookupRefreshToken(t) \in {"VALID", "EXPIRED"}
  <2> DEFINE c == [IdleAuth EXCEPT !.pc = "revoke", !.op = "logout", !.row = t]
  <2>1. c \in Call /\ c.pc = "revoke" /\ c.row = t
    BY AuthAssumption DEF Call, IdleAuth, Resting, AtToken
  <2>3. Takes(k, c)
    BY <1>1 DEF BeginLogout, Takes
  <2> HIDE DEF c
  <2>4. Begun(c) /\ c.pc \notin {"rotate", "replay"}
    BY <2>1 DEF Begun, CallOK, Resting, AtToken, AtCode, AtAddress, AtPassword
  <2> QED BY <2>3, <2>4 DEF Starts
<1>2. CASE lookupRefreshToken(t) \notin {"VALID", "EXPIRED"}
  <2> Takes(k, Done(Said("OK")))
    BY <1>2 DEF BeginLogout, Takes, End
  <2> QED BY RefusedIsBegun DEF Starts, Answers
<1> QED BY <1>1, <1>2

\* A forgotten password is asked for.
LEMMA ForgotStarts ==
  ASSUME NEW k, NEW u \in People, BeginForgot(k, u)
  PROVE  Starts(k)
<1>1. CASE account[u].status = "ACTIVE"
  <2> DEFINE c == [IdleAuth EXCEPT !.pc = "burnLinks", !.op = "forgot", !.userId = u]
  <2>1. c \in Call /\ c.pc = "burnLinks" /\ c.userId = u
    BY AuthAssumption DEF Call, IdleAuth, Resting, Elsewhere
  <2>3. Takes(k, c)
    BY <1>1 DEF BeginForgot, Takes
  <2> HIDE DEF c
  <2>4. Begun(c) /\ c.pc \notin {"rotate", "replay"}
    BY <2>1 DEF Begun, CallOK, Resting, AtToken, AtCode, AtAddress, AtPassword
  <2> QED BY <2>3, <2>4 DEF Starts
<1>2. CASE account[u].status # "ACTIVE"
  <2> Takes(k, Done(Said("OK")))
    BY <1>2 DEF BeginForgot, Takes, End
  <2> QED BY RefusedIsBegun DEF Starts, Answers
<1> QED BY <1>1, <1>2

\* A reset begins at its link.
LEMMA ResetStarts ==
  ASSUME NEW k, NEW n \in Nat, NEW password \in Passwords, links \in Seq(LinkRow),
         BeginReset(k, n, password)
  PROVE  Starts(k)
<1>1. CASE n \in DOMAIN links /\ ~links[n].used /\ links[n].expiresAt > clock
  <2> DEFINE c == [IdleAuth EXCEPT
            !.pc = "link", !.op = "reset", !.userId = links[n].userId, !.row = n,
            !.password = password]
  <2>0. links[n].userId \in People
    <3> links[n] \in LinkRow
      BY <1>1, ElementOfSeq, LenProperties
    <3> QED BY DEF LinkRow
  <2>1. c \in Call /\ c.pc = "link" /\ c.userId \in People /\ c.row = n
    BY <2>0, AuthAssumption DEF Call, IdleAuth, Resting, Elsewhere
  <2>3. Takes(k, c)
    BY <1>1 DEF BeginReset, Takes
  <2> HIDE DEF c
  <2>4. Begun(c) /\ c.pc \notin {"rotate", "replay"}
    BY <1>1, <2>1 DEF Begun, CallOK, Resting, AtToken, AtCode, AtAddress, AtPassword
  <2> QED BY <2>3, <2>4 DEF Starts
<1>2. CASE ~(n \in DOMAIN links /\ ~links[n].used /\ links[n].expiresAt > clock)
  <2> Takes(k, Done(Said("REFUSED")))
    BY <1>2 DEF BeginReset, Takes, End
  <2> QED BY RefusedIsBegun DEF Starts, Answers
<1> QED BY <1>1, <1>2

\* A change of password begins, with the old one known.
LEMMA ChangeStarts ==
  ASSUME NEW k, NEW u \in People, NEW current, NEW password \in Passwords,
         BeginChange(k, u, current, password)
  PROVE  Starts(k)
<1>1. CASE account[u].password # Null /\ account[u].password = current
  <2> DEFINE c == [IdleAuth EXCEPT !.pc = "password", !.op = "change",
                                   !.userId = u, !.password = password]
  <2>1. c \in Call /\ c.pc = "password" /\ c.op = "change" /\ c.userId = u
    BY AuthAssumption DEF Call, IdleAuth, Resting, AtPassword
  <2>3. Takes(k, c)
    BY <1>1 DEF BeginChange, Takes
  <2> HIDE DEF c
  <2>4. Begun(c) /\ c.pc \notin {"rotate", "replay"}
    BY <2>1 DEF Begun, CallOK, Resting, AtToken, AtCode, AtAddress, AtPassword
  <2> QED BY <2>3, <2>4 DEF Starts
<1>2. CASE ~(account[u].password # Null /\ account[u].password = current)
  <2> Takes(k, Done(Said("REFUSED")))
    BY <1>2 DEF BeginChange, Takes, End
  <2> QED BY RefusedIsBegun DEF Starts, Answers
<1> QED BY <1>1, <1>2

\* A refresh that begins is turned away, or is at the token it was handed.
Refreshes(k, t) ==
  \E c : /\ Takes(k, c) /\ Begun(c)
         /\ \/ c.pc = "done" /\ c.out.kind # "TOKENS"
            \/ c.pc = "rotate" /\ c.row = t /\ sessions[t].revokedAt = Null
            \/ c.pc = "replay" /\ c.row = t

\* refresh is at its token: to trade it while it is live, to treat it as a replay
\* when it was revoked.
LEMMA RefreshStarts ==
  ASSUME NEW k, NEW t \in DOMAIN sessions, t \in Nat, BeginRefresh(k, t)
  PROVE  Refreshes(k, t)
<1>1. ASSUME NEW pc \in {"rotate", "replay"},
             Takes(k, [IdleAuth EXCEPT !.pc = pc, !.op = "refresh", !.row = t]),
             pc = "rotate" => sessions[t].revokedAt = Null
      PROVE  Refreshes(k, t)
  <2> DEFINE c == [IdleAuth EXCEPT !.pc = pc, !.op = "refresh", !.row = t]
  <2>1. c \in Call /\ c.pc = pc /\ c.row = t /\ c.op = "refresh"
    BY AuthAssumption DEF Call, IdleAuth, Resting, AtToken
  <2>2. Takes(k, c)
    BY <1>1
  <2> HIDE DEF c
  <2>3. Begun(c)
    BY <2>1 DEF Begun, CallOK, Resting, AtToken, AtCode, AtAddress, AtPassword
  <2> QED BY <1>1, <2>1, <2>2, <2>3 DEF Refreshes
<1>2. CASE lookupRefreshToken(t) = "REPLAYED"
  <2> Takes(k, [IdleAuth EXCEPT !.pc = "replay", !.op = "refresh", !.row = t])
    BY <1>2 DEF BeginRefresh, Takes
  <2> QED BY <1>1
<1>3. CASE lookupRefreshToken(t) = "VALID" /\ account[sessions[t].userId].status = "ACTIVE"
  <2>1. Takes(k, [IdleAuth EXCEPT !.pc = "rotate", !.op = "refresh", !.row = t])
    BY <1>3 DEF BeginRefresh, Takes
  <2>2. sessions[t].revokedAt = Null
    BY <1>3 DEF lookupRefreshToken
  <2> QED BY <1>1, <2>1, <2>2
<1>4. CASE /\ lookupRefreshToken(t) # "REPLAYED"
           /\ ~(lookupRefreshToken(t) = "VALID" /\ account[sessions[t].userId].status = "ACTIVE")
  <2>1. Takes(k, Done(Said("REFUSED")))
    BY <1>4 DEF BeginRefresh, Takes
  <2>2. Done(Said("REFUSED")).out.kind = "REFUSED"
    BY SaidIsOK, DoneIsOK DEF Answers, Said, Answer
  <2> QED BY <2>1, <2>2, RefusedIsBegun DEF Refreshes, Answers
<1> QED BY <1>2, <1>3, <1>4

-----------------------------------------------------------------------------
(***************************************************************************)
(* The pages                                                               *)
(***************************************************************************)

\* A browser that turns to another well formed page, with well formed cookies.
LEMMA PageTurned ==
  ASSUME PagesOK, NEW b \in Browsers, UNCHANGED authStoreVars,
         NEW cookies, JarOK(cookies), jar' = [jar EXCEPT ![b] = cookies],
         NEW p, PageOK(p), page' = [page EXCEPT ![b] = p]
  PROVE  PagesOK'
<1>1. cookies \in Jar /\ p \in PageRow
  BY DEF JarOK, PageOK
<1>2. jar' \in [Browsers -> Jar] /\ page' \in [Browsers -> PageRow]
  BY <1>1 DEF PagesOK
<1>3. sessions' = sessions /\ devices' = devices
  BY DEF authStoreVars
<1>4. ASSUME NEW x \in Browsers PROVE JarOK(jar[x])' /\ PageOK(page[x])'
  <2>1. jar'[x] = (IF x = b THEN cookies ELSE jar[x]) /\ page'[x] = (IF x = b THEN p ELSE page[x])
    BY DEF PagesOK
  <2>2. JarOK(IF x = b THEN cookies ELSE jar[x]) /\ PageOK(IF x = b THEN p ELSE page[x])
    BY DEF PagesOK
  <2> QED BY <2>1, <2>2, <1>3 DEF JarOK, PageOK
<1> QED BY <1>2, <1>4 DEF PagesOK

\* One of the two stays as it is.
LEMMA SameJar ==
  ASSUME PagesOK, NEW b \in Browsers
  PROVE  /\ JarOK(jar[b]) /\ PageOK(page[b])
         /\ UNCHANGED jar => jar' = [jar EXCEPT ![b] = jar[b]]
         /\ UNCHANGED page => page' = [page EXCEPT ![b] = page[b]]
BY DEF PagesOK

\* A page without a form filled in is well formed.
LEMMA BlankPage ==
  ASSUME NEW at \in {"login", "home", "provider", "email", "otp", "ready", "sent",
                     "register", "forgot", "reset"}
  PROVE  PageOK(Page(at))
BY BrowsersAssumption DEF PageOK, Page, PageRow

Requests == {Null, "verify", "resend", "register", "forgot", "reset", "google", "line", "email",
             "otp", "again"}

\* A form that is sent, or comes back.
LEMMA PageAsks ==
  ASSUME PagesOK, NEW b \in Browsers, NEW request \in Requests, Ask(b, request)
  PROVE  /\ PageOK([page[b] EXCEPT !.asked = request])
         /\ page' = [page EXCEPT ![b] = [page[b] EXCEPT !.asked = request]]
<1> DEFINE old == page[b]
           p == [old EXCEPT !.asked = request]
<1>1. page' = [page EXCEPT ![b] = p]
  BY DEF PagesOK, Ask
<1>2. old \in PageRow /\ (old.at = "code" => old.who \in People)
  BY DEF PagesOK, PageOK
<1> HIDE DEF old
<1>3. p \in PageRow /\ p.asked = request /\ p.at = old.at /\ p.who = old.who
  BY <1>2 DEF PageRow, Requests
<1>4. request # "login"
  BY BrowsersAssumption DEF Requests
<1> HIDE DEF p
<1>5. PageOK(p)
  BY <1>2, <1>3, <1>4 DEF PageOK
<1> QED BY <1>1, <1>5 DEF old, p

\* What a page's step does to its call: nothing, or it lets go of it.
Lets(b) == UNCHANGED authStoreVars /\ (UNCHANGED auth \/ auth' = [auth EXCEPT ![b] = IdleAuth])

\* Hanging up lets the call go and touches no row.
LEMMA HangLets ==
  ASSUME NEW b, Hang(b)
  PROVE  Lets(b) /\ UNCHANGED authStoreVars
BY DEF Hang, Lets

\* A call that begins touches no row.
LEMMA StartLeaves ==
  ASSUME NEW b, Starts(b)
  PROVE  UNCHANGED authStoreVars
BY DEF Starts, Takes

\* Cookies that are written with a session, a device or a parked sign-in that
\* exists are well formed.
LEMMA CookiesKept ==
  ASSUME NEW cookies, JarOK(cookies), NEW t \in {0} \cup DOMAIN sessions, t \in Nat,
         NEW d \in {0} \cup DOMAIN devices, d \in Nat,
         NEW i \in Identities \cup {Null}, NEW a \in People \cup {Null}, NEW x \in BOOLEAN
  PROVE  /\ JarOK([cookies EXCEPT !.session = t, !.error = x])
         /\ JarOK([cookies EXCEPT !.device = d])
         /\ JarOK([cookies EXCEPT !.pending = i])
         /\ JarOK([cookies EXCEPT !.address = a])
         /\ JarOK([cookies EXCEPT !.pending = i, !.address = a])
         /\ JarOK([cookies EXCEPT !.pending = i, !.address = a, !.ready = t])
         /\ JarOK([cookies EXCEPT !.state = x])
         /\ JarOK([cookies EXCEPT !.ready = t])
         /\ JarOK([cookies EXCEPT !.ready = 0, !.session = t, !.error = x])
<1>0. cookies \in Jar
  BY DEF JarOK
<1>1. ASSUME NEW c \in Jar, c.session \in {cookies.session, t}, c.ready \in {cookies.ready, t, 0},
             c.device \in {cookies.device, d}
      PROVE  JarOK(c)
  BY <1>1 DEF JarOK
<1>2. JarOK([cookies EXCEPT !.session = t, !.error = x])
  <2> DEFINE c == [cookies EXCEPT !.session = t, !.error = x]
  <2>1. /\ c \in Jar /\ c.session \in {cookies.session, t} /\ c.ready \in {cookies.ready, t, 0}
        /\ c.device \in {cookies.device, d}
    BY <1>0 DEF Jar
  <2> HIDE DEF c
  <2>2. JarOK(c)
    BY <1>1, <2>1
  <2> QED BY <2>2 DEF c
<1>3. JarOK([cookies EXCEPT !.device = d])
  <2> DEFINE c == [cookies EXCEPT !.device = d]
  <2>1. /\ c \in Jar /\ c.session \in {cookies.session, t} /\ c.ready \in {cookies.ready, t, 0}
        /\ c.device \in {cookies.device, d}
    BY <1>0 DEF Jar
  <2> HIDE DEF c
  <2>2. JarOK(c)
    BY <1>1, <2>1
  <2> QED BY <2>2 DEF c
<1>4. JarOK([cookies EXCEPT !.pending = i])
  <2> DEFINE c == [cookies EXCEPT !.pending = i]
  <2>1. /\ c \in Jar /\ c.session \in {cookies.session, t} /\ c.ready \in {cookies.ready, t, 0}
        /\ c.device \in {cookies.device, d}
    BY <1>0 DEF Jar
  <2> HIDE DEF c
  <2>2. JarOK(c)
    BY <1>1, <2>1
  <2> QED BY <2>2 DEF c
<1>5. JarOK([cookies EXCEPT !.address = a])
  <2> DEFINE c == [cookies EXCEPT !.address = a]
  <2>1. /\ c \in Jar /\ c.session \in {cookies.session, t} /\ c.ready \in {cookies.ready, t, 0}
        /\ c.device \in {cookies.device, d}
    BY <1>0 DEF Jar
  <2> HIDE DEF c
  <2>2. JarOK(c)
    BY <1>1, <2>1
  <2> QED BY <2>2 DEF c
<1>6. JarOK([cookies EXCEPT !.pending = i, !.address = a])
  <2> DEFINE c == [cookies EXCEPT !.pending = i, !.address = a]
  <2>1. /\ c \in Jar /\ c.session \in {cookies.session, t} /\ c.ready \in {cookies.ready, t, 0}
        /\ c.device \in {cookies.device, d}
    BY <1>0 DEF Jar
  <2> HIDE DEF c
  <2>2. JarOK(c)
    BY <1>1, <2>1
  <2> QED BY <2>2 DEF c
<1>7. JarOK([cookies EXCEPT !.pending = i, !.address = a, !.ready = t])
  <2> DEFINE c == [cookies EXCEPT !.pending = i, !.address = a, !.ready = t]
  <2>1. /\ c \in Jar /\ c.session \in {cookies.session, t} /\ c.ready \in {cookies.ready, t, 0}
        /\ c.device \in {cookies.device, d}
    BY <1>0 DEF Jar
  <2> HIDE DEF c
  <2>2. JarOK(c)
    BY <1>1, <2>1
  <2> QED BY <2>2 DEF c
<1>8. JarOK([cookies EXCEPT !.state = x])
  <2> DEFINE c == [cookies EXCEPT !.state = x]
  <2>1. /\ c \in Jar /\ c.session \in {cookies.session, t} /\ c.ready \in {cookies.ready, t, 0}
        /\ c.device \in {cookies.device, d}
    BY <1>0 DEF Jar
  <2> HIDE DEF c
  <2>2. JarOK(c)
    BY <1>1, <2>1
  <2> QED BY <2>2 DEF c
<1>9. JarOK([cookies EXCEPT !.ready = t])
  <2> DEFINE c == [cookies EXCEPT !.ready = t]
  <2>1. /\ c \in Jar /\ c.session \in {cookies.session, t} /\ c.ready \in {cookies.ready, t, 0}
        /\ c.device \in {cookies.device, d}
    BY <1>0 DEF Jar
  <2> HIDE DEF c
  <2>2. JarOK(c)
    BY <1>1, <2>1
  <2> QED BY <2>2 DEF c
<1>10. JarOK([cookies EXCEPT !.ready = 0, !.session = t, !.error = x])
  <2> DEFINE c == [cookies EXCEPT !.ready = 0, !.session = t, !.error = x]
  <2>1. /\ c \in Jar /\ c.session \in {cookies.session, t} /\ c.ready \in {cookies.ready, t, 0}
        /\ c.device \in {cookies.device, d}
    BY <1>0 DEF Jar
  <2> HIDE DEF c
  <2>2. JarOK(c)
    BY <1>1, <2>1
  <2> QED BY <2>2 DEF c
<1> QED BY <1>2, <1>3, <1>4, <1>5, <1>6, <1>7, <1>8, <1>9, <1>10

\* What one step at a browser may do.
AtBrowser(b) == PagesOK' /\ (Lets(b) \/ Starts(b))

\* A form that is sent changes the page it is on and no cookie.
LEMMA FormSent ==
  ASSUME PagesOK, NEW b \in Browsers, NEW request \in Requests, Ask(b, request), UNCHANGED jar,
         Lets(b) \/ Starts(b)
  PROVE  AtBrowser(b)
<1>1. UNCHANGED authStoreVars
  BY StartLeaves DEF Lets
<1> QED BY <1>1, SameJar, PageAsks, PageTurned DEF AtBrowser

\* Sending off a sign-in form.
LEMMA PasswordForms ==
  ASSUME WellFormed, NEW b \in Browsers, PasswordActs(b)
  PROVE  AtBrowser(b)
<1> DEFINE old == page[b]
<1>1. PagesOK /\ Rows /\ scene \in Scenes
  BY DEF WellFormed
<1>2. /\ old \in PageRow /\ (old.at = "code" => old.who \in People) /\ jar[b].device \in Nat
      /\ JarOK(jar[b]) /\ PageOK(old) /\ jar[b] \in Jar
  <2>1. JarOK(jar[b]) /\ PageOK(old)
    BY <1>1, SameJar
  <2> QED BY <2>1 DEF JarOK, PageOK, Jar
<1>3. old.who \in People \cup {Null} /\ old.password \in Passwords \cup {Null}
  BY <1>2 DEF PageRow
<1>4. ASSUME NEW u \in scene.people, sendCode(b, u, 0)
      PROVE  AtBrowser(b)
  <2>1. u \in People /\ 0 \in Passwords
    BY <1>1, AccountsAssumption, AuthAssumption
  <2>2. Starts(b)
    BY <1>2, <1>4, <2>1, LoginStarts DEF sendCode
  <2> DEFINE p == [old EXCEPT !.asked = "login", !.who = u, !.password = 0]
  <2>3. page' = [page EXCEPT ![b] = p]
    BY <1>1, <1>4 DEF sendCode, PagesOK
  <2>4. p \in PageRow /\ p.who = u
    <3> HIDE DEF old
    <3> QED BY <1>2, <2>1 DEF PageRow
  <2> HIDE DEF p
  <2>5. PageOK(p) /\ UNCHANGED jar
    BY <2>1, <2>4, <1>4 DEF PageOK, sendCode
  <2> QED BY <1>1, <2>2, <2>3, <2>5, SameJar, PageTurned, StartLeaves DEF AtBrowser
<1>5. ASSUME NEW otp \in DOMAIN codes, NEW remember \in BOOLEAN, completeSignIn(b, otp, remember)
      PROVE  AtBrowser(b)
  <2>1. otp \in Nat
    BY <1>1, LenProperties DEF Rows, AuthStoreTypeOK
  <2>2. Starts(b)
    BY <1>2, <1>3, <1>5, <2>1, VerifyStarts DEF completeSignIn, Free
  <2> QED BY <1>1, <1>5, <2>2, FormSent DEF completeSignIn, Requests
<1>6. ASSUME resend(b)
      PROVE  AtBrowser(b)
  <2>1. Starts(b)
    BY <1>2, <1>3, <1>6, ResendStarts DEF resend, Free
  <2> QED BY <1>1, <1>6, <2>1, FormSent DEF resend, Requests
<1>7. ASSUME Back(b)
      PROVE  AtBrowser(b)
  <2>1. Lets(b) /\ UNCHANGED authStoreVars /\ UNCHANGED jar /\ page' = [page EXCEPT ![b] = Page("login")]
    BY <1>7 DEF Back, Lets, Show
  <2> QED BY <1>1, <2>1, SameJar, BlankPage, PageTurned DEF AtBrowser
<1>8. ASSUME signOut(b)
      PROVE  AtBrowser(b)
  <2>1. /\ Lets(b) /\ UNCHANGED authStoreVars /\ page' = [page EXCEPT ![b] = Page("login")]
        /\ jar' = [jar EXCEPT ![b] = [jar[b] EXCEPT !.session = 0, !.error = FALSE]]
    BY <1>8 DEF signOut, Lets, Show, Put
  <2>2. JarOK([jar[b] EXCEPT !.session = 0, !.error = FALSE])
    BY <1>2, CookiesKept
  <2> QED BY <1>1, <2>1, <2>2, BlankPage, PageTurned DEF AtBrowser
<1> QED BY <1>4, <1>5, <1>6, <1>7, <1>8 DEF PasswordActs

\* What a step at a browser finds.
LEMMA BrowserFinds ==
  ASSUME WellFormed, NEW b \in Browsers
  PROVE  /\ PagesOK /\ JarOK(jar[b]) /\ PageOK(page[b])
         /\ jar[b].device \in Nat /\ jar[b].pending \in Identities \cup {Null}
         /\ jar[b].address \in People \cup {Null}
         /\ jar[b].ready \in {0} \cup DOMAIN sessions /\ jar[b].ready \in Nat
         /\ page[b].who \in People \cup {Null} /\ page[b].identity \in Identities \cup {Null}
         /\ linked \in [Identities -> People \cup {Null}]
         /\ links \in Seq(LinkRow)
         /\ \A otp \in DOMAIN codes : otp \in Nat
         /\ \A n \in DOMAIN links : n \in Nat
         /\ auth[b].pc = "done" =>
              /\ AnswerOK(auth[b].out)
              /\ auth[b].out.session \in {0} \cup DOMAIN sessions /\ auth[b].out.session \in Nat
              /\ auth[b].out.device \in {0} \cup DOMAIN devices /\ auth[b].out.device \in Nat
<1>1. PagesOK /\ JarOK(jar[b]) /\ PageOK(page[b])
  BY SameJar DEF WellFormed
<1>2. jar[b] \in Jar /\ page[b] \in PageRow /\ jar[b].ready \in {0} \cup DOMAIN sessions
  BY <1>1 DEF JarOK, PageOK
<1>3. /\ linked \in [Identities -> People \cup {Null}]
      /\ codes \in Seq(CodeRow) /\ links \in Seq(LinkRow)
  BY DEF WellFormed, Rows, AuthStoreTypeOK
<1>4. (\A otp \in DOMAIN codes : otp \in Nat) /\ (\A n \in DOMAIN links : n \in Nat)
  BY <1>3, LenProperties
<1>5. b \in AuthCalls
  BY BrowsersAssumption
<1>6. ASSUME auth[b].pc = "done" PROVE AnswerOK(auth[b].out)
  BY <1>5, <1>6 DEF WellFormed, CallsOK, CallOK
<1>7. ASSUME NEW a, AnswerOK(a)
      PROVE  /\ a.session \in {0} \cup DOMAIN sessions /\ a.session \in Nat
             /\ a.device \in {0} \cup DOMAIN devices /\ a.device \in Nat
  BY <1>7 DEF AnswerOK, AnswerRow
<1>8. /\ jar[b].device \in Nat /\ jar[b].pending \in Identities \cup {Null}
      /\ jar[b].address \in People \cup {Null} /\ jar[b].ready \in Nat
  BY <1>2 DEF Jar
<1>9. page[b].who \in People \cup {Null} /\ page[b].identity \in Identities \cup {Null}
  BY <1>2 DEF PageRow
<1> QED BY <1>1, <1>2, <1>3, <1>4, <1>6, <1>7, <1>8, <1>9

\* Fields of a page other than the request it waits for.
LEMMA PageFilled ==
  ASSUME NEW p, PageOK(p), NEW request \in Requests,
         NEW i \in Identities \cup {Null}
  PROVE  /\ PageOK([p EXCEPT !.asked = request, !.identity = i])
         /\ \A u \in People : PageOK([p EXCEPT !.asked = request, !.who = u])
         /\ p.who \in People => PageOK([p EXCEPT !.at = "code", !.asked = Null])
<1>0. p \in PageRow /\ (p.at = "code" => p.who \in People) /\ request # "login"
  BY BrowsersAssumption DEF PageOK, Requests
<1>1. PageOK([p EXCEPT !.asked = request, !.identity = i])
  <2> DEFINE c == [p EXCEPT !.asked = request, !.identity = i]
  <2>1. c \in PageRow /\ c.at = p.at /\ c.asked = request /\ c.who = p.who
    BY <1>0 DEF PageRow, Requests
  <2> HIDE DEF c
  <2>2. PageOK(c)
    BY <1>0, <2>1 DEF PageOK
  <2> QED BY <2>2 DEF c
<1>2. ASSUME NEW u \in People PROVE PageOK([p EXCEPT !.asked = request, !.who = u])
  <2> DEFINE c == [p EXCEPT !.asked = request, !.who = u]
  <2>1. c \in PageRow /\ c.who = u
    BY <1>0 DEF PageRow, Requests
  <2> HIDE DEF c
  <2>2. PageOK(c)
    BY <2>1 DEF PageOK
  <2> QED BY <2>2 DEF c
<1>3. ASSUME p.who \in People PROVE PageOK([p EXCEPT !.at = "code", !.asked = Null])
  <2> DEFINE c == [p EXCEPT !.at = "code", !.asked = Null]
  <2>1. c \in PageRow /\ c.who = p.who
    BY <1>0 DEF PageRow
  <2> HIDE DEF c
  <2>2. PageOK(c)
    BY <2>1, <1>3 DEF PageOK
  <2> QED BY <2>2 DEF c
<1> QED BY <1>1, <1>2, <1>3

\* Signing in with a provider.
LEMMA ProviderForms ==
  ASSUME WellFormed, NEW b \in Browsers, ProviderActs(b)
  PROVE  AtBrowser(b)
<1>1. PagesOK /\ JarOK(jar[b]) /\ PageOK(page[b])
  BY BrowserFinds
<1>2. Null \in Requests
  BY DEF Requests
<1>3. ASSUME NEW i \in Identities, signInWithGoogle(b, i) PROVE AtBrowser(b)
  <2>1. Starts(b)
    BY <1>3, BrowserFinds, OAuthStarts DEF signInWithGoogle
  <2>2. PageOK([page[b] EXCEPT !.asked = "google", !.identity = i])
    BY <1>1, PageFilled DEF Requests
  <2>3. page' = [page EXCEPT ![b] = [page[b] EXCEPT !.asked = "google", !.identity = i]]
    BY <1>1, <1>3 DEF signInWithGoogle, PagesOK
  <2>4. UNCHANGED jar /\ UNCHANGED authStoreVars
    BY <1>3, <2>1, StartLeaves DEF signInWithGoogle
  <2> QED BY <1>1, <2>1, <2>2, <2>3, <2>4, SameJar, PageTurned DEF AtBrowser
<1>4. ASSUME NEW i \in Identities, LineCallback(b, i) PROVE AtBrowser(b)
  <2>1. Starts(b)
    BY <1>4, BrowserFinds, OAuthStarts DEF LineCallback
  <2>2. PageOK([page[b] EXCEPT !.asked = "line", !.identity = i])
    BY <1>1, PageFilled DEF Requests
  <2>3. page' = [page EXCEPT ![b] = [page[b] EXCEPT !.asked = "line", !.identity = i]]
    BY <1>1, <1>4 DEF LineCallback, PagesOK
  <2>4. jar' = [jar EXCEPT ![b] = [jar[b] EXCEPT !.state = FALSE]] /\ UNCHANGED authStoreVars
    BY <1>4, <2>1, StartLeaves DEF LineCallback, Put
  <2>5. JarOK([jar[b] EXCEPT !.state = FALSE])
    BY <1>1, CookiesKept
  <2> QED BY <1>1, <2>1, <2>2, <2>3, <2>4, <2>5, PageTurned DEF AtBrowser
<1>5. ASSUME LineStart(b) \/ LineFailed(b) PROVE AtBrowser(b)
  <2>1. /\ Lets(b) /\ UNCHANGED authStoreVars
        /\ \E at \in {"provider", "login"} : page' = [page EXCEPT ![b] = Page(at)]
        /\ \E x \in BOOLEAN : jar' = [jar EXCEPT ![b] = [jar[b] EXCEPT !.state = x]]
    BY <1>5 DEF LineStart, LineFailed, Lets, Show, Put
  <2>2. \A x \in BOOLEAN : JarOK([jar[b] EXCEPT !.state = x])
    BY <1>1, CookiesKept
  <2> QED BY <1>1, <2>1, <2>2, BlankPage, PageTurned DEF AtBrowser
<1>6. ASSUME claimTokens(b) PROVE AtBrowser(b)
  <2>1. Lets(b) /\ UNCHANGED authStoreVars
    BY <1>6 DEF claimTokens, Lets
  <2>2. \E at \in {"home", "login"} : page' = [page EXCEPT ![b] = Page(at)]
    BY <1>6 DEF claimTokens, Show
  <2>3. JarOK([jar[b] EXCEPT !.ready = 0, !.session = jar[b].ready, !.error = FALSE])
    BY <1>1, BrowserFinds, CookiesKept
  <2>4. JarOK([jar[b] EXCEPT !.ready = 0])
    BY <1>1, CookiesKept
  <2>5. \E c : JarOK(c) /\ jar' = [jar EXCEPT ![b] = c]
    BY <1>6, <2>3, <2>4 DEF claimTokens, Put
  <2> QED BY <1>1, <2>1, <2>2, <2>5, BlankPage, PageTurned DEF AtBrowser
<1>7. ASSUME NEW email \in People, submitEmail(b, email) PROVE AtBrowser(b)
  <2>1. Starts(b)
    BY <1>7, BrowserFinds, OAuthStarts DEF submitEmail
  <2>2. PageOK([page[b] EXCEPT !.asked = "email", !.who = email])
    BY <1>1, PageFilled DEF Requests
  <2>3. page' = [page EXCEPT ![b] = [page[b] EXCEPT !.asked = "email", !.who = email]]
    BY <1>1, <1>7 DEF submitEmail, PagesOK
  <2>4. UNCHANGED jar /\ UNCHANGED authStoreVars
    BY <1>7, <2>1, StartLeaves DEF submitEmail
  <2> QED BY <1>1, <2>1, <2>2, <2>3, <2>4, SameJar, PageTurned DEF AtBrowser
<1>8. ASSUME NEW otp \in DOMAIN codes, NEW remember \in BOOLEAN, submitCode(b, otp, remember)
      PROVE  AtBrowser(b)
  <2>0. /\ otp \in Nat /\ jar[b].pending \in Identities /\ jar[b].address \in People \cup {Null}
        /\ linked \in [Identities -> People \cup {Null}]
    BY <1>8, BrowserFinds DEF submitCode
  <2>1. Starts(b)
    BY <1>8, <2>0, OAuthStarts DEF submitCode
  <2> QED BY <1>1, <1>8, <2>1, FormSent DEF submitCode, Requests
<1>9. ASSUME resendOAuth(b) PROVE AtBrowser(b)
  <2>1. Starts(b)
    BY <1>9, BrowserFinds, OAuthStarts DEF resendOAuth
  <2> QED BY <1>1, <1>9, <2>1, FormSent DEF resendOAuth, Requests
<1>10. ASSUME Back(b) \/ signOut(b) PROVE AtBrowser(b)
  <2>1. Lets(b) /\ UNCHANGED authStoreVars /\ page' = [page EXCEPT ![b] = Page("login")]
    BY <1>10 DEF Back, signOut, Lets, Show
  <2>2. UNCHANGED jar \/ jar' = [jar EXCEPT ![b] = [jar[b] EXCEPT !.session = 0, !.error = FALSE]]
    BY <1>10 DEF Back, signOut, Put
  <2>3. JarOK([jar[b] EXCEPT !.session = 0, !.error = FALSE])
    BY <1>1, CookiesKept
  <2>4. \E c : JarOK(c) /\ jar' = [jar EXCEPT ![b] = c]
    BY <1>1, <2>2, <2>3, SameJar
  <2> QED BY <1>1, <2>1, <2>4, BlankPage, PageTurned DEF AtBrowser
<1> QED BY <1>3, <1>4, <1>5, <1>6, <1>7, <1>8, <1>9, <1>10 DEF ProviderActs

\* Registering, and asking for or using a reset link.
LEMMA AccountForms ==
  ASSUME WellFormed, NEW b \in Browsers, AccountActs(b)
  PROVE  AtBrowser(b)
<1>1. PagesOK /\ JarOK(jar[b]) /\ PageOK(page[b])
  BY BrowserFinds
<1>2. {0, 1} \subseteq Passwords
  BY AccountsAssumption
<1>3. ASSUME NEW form \in {"register", "forgot", "reset"}, OpenForm(b, form) PROVE AtBrowser(b)
  <2>1. /\ Lets(b) /\ UNCHANGED authStoreVars /\ UNCHANGED jar
        /\ page' = [page EXCEPT ![b] = Page(form)]
    BY <1>3 DEF OpenForm, Lets, Show
  <2> QED BY <1>1, <2>1, SameJar, BlankPage, PageTurned DEF AtBrowser
<1>4. ASSUME Back(b) PROVE AtBrowser(b)
  <2>1. /\ Lets(b) /\ UNCHANGED authStoreVars /\ UNCHANGED jar
        /\ page' = [page EXCEPT ![b] = Page("login")]
    BY <1>4 DEF Back, Lets, Show
  <2> QED BY <1>1, <2>1, SameJar, BlankPage, PageTurned DEF AtBrowser
<1>5. ASSUME NEW u \in People, createAccount(b, u, 0) PROVE AtBrowser(b)
  <2>1. Starts(b)
    BY <1>2, <1>5, RegisterStarts DEF createAccount
  <2> QED BY <1>1, <1>5, <2>1, FormSent DEF createAccount, Requests
<1>6. ASSUME NEW u \in People, requestPasswordReset(b, u) PROVE AtBrowser(b)
  <2>1. Starts(b)
    BY <1>6, ForgotStarts DEF requestPasswordReset
  <2> QED BY <1>1, <1>6, <2>1, FormSent DEF requestPasswordReset, Requests
<1>7. ASSUME NEW n \in DOMAIN links, resetPassword(b, n, 1) PROVE AtBrowser(b)
  <2>1. Starts(b)
    BY <1>2, <1>7, BrowserFinds, ResetStarts DEF resetPassword
  <2> QED BY <1>1, <1>7, <2>1, FormSent DEF resetPassword, Requests
<1> QED BY <1>3, <1>4, <1>5, <1>6, <1>7 DEF AccountActs

\* The cookies an answer with tokens leaves.
LEMMA TokensSettle ==
  ASSUME WellFormed, NEW b \in Browsers, auth[b].pc = "done"
  PROVE  /\ JarOK(writeDeviceToken(Settled(b), auth[b].out.device))
         /\ JarOK([writeDeviceToken(Settled(b), auth[b].out.device) EXCEPT
                     !.session = auth[b].out.session, !.error = FALSE])
<1> DEFINE d == auth[b].out.device
           t == auth[b].out.session
           kept == Settled(b)
           cookies == writeDeviceToken(kept, d)
<1>1. /\ JarOK(jar[b]) /\ page[b].identity \in Identities \cup {Null}
      /\ t \in {0} \cup DOMAIN sessions /\ t \in Nat /\ d \in {0} \cup DOMAIN devices /\ d \in Nat
  BY BrowserFinds
<1>2. JarOK(kept)
  <2>1. JarOK([jar[b] EXCEPT !.pending = Null, !.address = Null])
    BY <1>1, CookiesKept
  <2>2. JarOK([jar[b] EXCEPT !.pending = page[b].identity])
    BY <1>1, CookiesKept
  <2> QED BY <1>1, <2>1, <2>2 DEF Settled
<1> HIDE DEF kept, d, t
<1>3. JarOK(cookies)
  BY <1>1, <1>2, CookiesKept DEF writeDeviceToken
<1> HIDE DEF cookies
<1>4. JarOK([cookies EXCEPT !.session = t, !.error = FALSE])
  BY <1>1, <1>3, CookiesKept
<1> QED BY <1>3, <1>4 DEF kept, d, t, cookies

\* An answer that is in, or a cookie that has run out.
LEMMA AnswersTaken ==
  ASSUME WellFormed, NEW b \in Browsers, PageAnswered(b)
  PROVE  AtBrowser(b)
<1>1. PagesOK /\ JarOK(jar[b]) /\ PageOK(page[b])
  BY BrowserFinds
<1>2. ASSUME Ask(b, Null), Hang(b), UNCHANGED jar PROVE AtBrowser(b)
  BY <1>1, <1>2, HangLets, FormSent DEF Requests
<1>3. ASSUME Hang(b), NEW c, JarOK(c), Put(b, c), Ask(b, Null) PROVE AtBrowser(b)
  BY <1>1, <1>3, HangLets, PageAsks, PageTurned DEF AtBrowser, Put, Requests
<1>4. ASSUME Hang(b), NEW c, JarOK(c), jar' = [jar EXCEPT ![b] = c],
             NEW at \in {"login", "home", "email", "otp", "ready", "sent"}, Show(b, Page(at))
      PROVE  AtBrowser(b)
  BY <1>1, <1>4, HangLets, BlankPage, PageTurned DEF AtBrowser, Show
<1>5. ASSUME LoginPending(b) PROVE AtBrowser(b)
  <2>1. page[b].who \in People /\ Null \in Requests
    BY <1>1, <1>5 DEF LoginPending, Told, PageOK, Requests
  <2>2. PageOK([page[b] EXCEPT !.at = "code", !.asked = Null])
    BY <1>1, <2>1, PageFilled
  <2>3. /\ page' = [page EXCEPT ![b] = [page[b] EXCEPT !.at = "code", !.asked = Null]]
        /\ Hang(b) /\ UNCHANGED jar
    BY <1>5 DEF LoginPending, Show
  <2> QED BY <1>1, <2>2, <2>3, HangLets, SameJar, PageTurned DEF AtBrowser
<1>6. ASSUME signInWithTokens(b) PROVE AtBrowser(b)
  <2>1. auth[b].pc = "done" /\ Hang(b) /\ Show(b, Page("home"))
    BY <1>6 DEF signInWithTokens, Told
  <2>2. jar' = [jar EXCEPT ![b] = [writeDeviceToken(Settled(b), auth[b].out.device) EXCEPT
                                     !.session = auth[b].out.session, !.error = FALSE]]
    BY <1>6 DEF signInWithTokens, Put
  <2> QED BY <1>4, <2>1, <2>2, TokensSettle
<1>7. ASSUME SignInFailed(b) PROVE AtBrowser(b)
  <2>1. /\ auth[b].pc = "done" /\ Hang(b) /\ Ask(b, Null)
        /\ Put(b, writeDeviceToken(Settled(b), auth[b].out.device))
    BY <1>7 DEF SignInFailed, Told
  <2> QED BY <1>3, <2>1, TokensSettle
<1>8. ASSUME GoogleStarted(b) PROVE AtBrowser(b)
  <2>1. /\ Hang(b) /\ Show(b, Page("otp"))
        /\ jar' = [jar EXCEPT ![b] = [jar[b] EXCEPT !.pending = page[b].identity]]
    BY <1>8 DEF GoogleStarted, Put
  <2>2. JarOK([jar[b] EXCEPT !.pending = page[b].identity])
    BY <1>1, BrowserFinds, CookiesKept
  <2> QED BY <1>4, <2>1, <2>2
<1>9. ASSUME LineAnswered(b) PROVE AtBrowser(b)
  <2>0. auth[b].pc = "done" /\ Hang(b)
    BY <1>9 DEF LineAnswered, Told
  <2>1. CASE auth[b].out.kind = "TOKENS"
    <3>1. /\ Show(b, Page("ready"))
          /\ jar' = [jar EXCEPT ![b] = [jar[b] EXCEPT !.pending = Null, !.address = Null,
                                                      !.ready = auth[b].out.session]]
      BY <1>9, <2>1 DEF LineAnswered, Put
    <3>2. JarOK([jar[b] EXCEPT !.pending = Null, !.address = Null, !.ready = auth[b].out.session])
      BY <1>1, <2>0, BrowserFinds, CookiesKept
    <3> QED BY <1>4, <2>0, <3>1, <3>2
  <2>2. CASE auth[b].out.kind = "REFUSED"
    <3>1. Show(b, Page("login")) /\ UNCHANGED jar
      BY <1>9, <2>2 DEF LineAnswered
    <3> QED BY <1>1, <1>4, <2>0, <3>1, SameJar
  <2>3. CASE auth[b].out.kind \notin {"TOKENS", "REFUSED"}
    <3>1. /\ \E at \in {"email", "otp"} : Show(b, Page(at))
          /\ jar' = [jar EXCEPT ![b] = [jar[b] EXCEPT !.pending = page[b].identity,
                                                      !.address = Null]]
      BY <1>9, <2>3 DEF LineAnswered, Put
    <3>2. JarOK([jar[b] EXCEPT !.pending = page[b].identity, !.address = Null])
      BY <1>1, BrowserFinds, CookiesKept
    <3> QED BY <1>4, <2>0, <3>1, <3>2
  <2> QED BY <2>1, <2>2, <2>3
<1>10. ASSUME EmailAnswered(b) PROVE AtBrowser(b)
  <2>1. /\ Hang(b) /\ \E at \in {"email", "otp"} : Show(b, Page(at))
        /\ jar' = [jar EXCEPT ![b] = [jar[b] EXCEPT !.address = page[b].who]]
    BY <1>10 DEF EmailAnswered, Put
  <2>2. JarOK([jar[b] EXCEPT !.address = page[b].who])
    BY <1>1, BrowserFinds, CookiesKept
  <2> QED BY <1>4, <2>1, <2>2
<1>11. ASSUME CookiesExpire(b) PROVE AtBrowser(b)
  <2>1. /\ Lets(b) /\ UNCHANGED authStoreVars /\ UNCHANGED page
        /\ jar' = [jar EXCEPT ![b] = [jar[b] EXCEPT !.pending = Null, !.address = Null, !.ready = 0]]
    BY <1>11 DEF CookiesExpire, Put, Lets
  <2>2. JarOK([jar[b] EXCEPT !.pending = Null, !.address = Null, !.ready = 0])
    BY <1>1, CookiesKept
  <2> QED BY <1>1, <2>1, <2>2, SameJar, PageTurned DEF AtBrowser
<1>12. ASSUME FormAccepted(b) PROVE AtBrowser(b)
  <2>1. Hang(b) /\ UNCHANGED jar /\ \E at \in {"login", "sent"} : Show(b, Page(at))
    BY <1>12 DEF FormAccepted
  <2> QED BY <1>1, <1>4, <2>1, SameJar
<1>13. ASSUME Refused(b) \/ Resent(b) \/ ResendIgnored(b) PROVE AtBrowser(b)
  BY <1>2, <1>13 DEF Refused, Resent, ResendIgnored
<1> QED BY <1>5, <1>6, <1>7, <1>8, <1>9, <1>10, <1>11, <1>12, <1>13 DEF PageAnswered

-----------------------------------------------------------------------------
(***************************************************************************)
(* The steps of the API                                                    *)
(***************************************************************************)

\* The slot k comes to hold a code or a link only by claiming one nobody had
\* used, and gives a code up when it opens a session with it.
DoorStep(k) ==
  /\ \A j \in AuthCalls \ {k} : auth'[j] = auth[j]
  /\ Holds(k)' => \/ Holds(k) /\ auth'[k].row = auth[k].row
                  \/ auth'[k].row \in DOMAIN codes /\ ~codes[auth'[k].row].used
  /\ Resets(k)' => \/ Resets(k) /\ auth'[k].row = auth[k].row
                   \/ auth'[k].row \in DOMAIN links /\ ~links[auth'[k].row].used
  /\ \A t \in DOMAIN sessions' \ DOMAIN sessions :
       /\ t = Len(sessions) + 1
       /\ sessions'[t].via = "code" => Holds(k) /\ sessions'[t].proof = auth[k].row /\ ~Holds(k)'

\* An account that exists goes on existing, opened as it was opened.
Stands(u) ==
  /\ account'[u].ways = account[u].ways
  /\ account[u].status # "NONE" <=> account'[u].status # "NONE"

\* The account u is opened now, in the way w.
Opens(u, w) ==
  /\ \A p \in People \ {u} : Stands(p)
  /\ account[u].status = "NONE" /\ account'[u].status # "NONE"
  /\ account'[u].ways = account[u].ways \cup {w}

\* Accounts stand, but for one the form opens, or one an identity opens that is
\* linked with it.
KeepsWays ==
  \/ linked' = linked /\ \A u \in People : Stands(u)
  \/ linked' = linked /\ \E u \in People : Opens(u, Null)
  \/ \E i \in Identities, u \in People :
       linked' = [linked EXCEPT ![i] = u] /\ Opens(u, i)

\* A step of slot k that changes rows and calls as it may.
Steps(k) == Grown /\ Rows' /\ CallsOK' /\ DoorStep(k) /\ KeepsWays

\* Such a step that trades no token.
Calm(k) ==
  /\ auth'[k].pc \notin {"rotate", "replay"}
  /\ \A t \in DOMAIN sessions :
       \/ sessions'[t].revokedAt = sessions[t].revokedAt
       \/ sessions[t].revokedAt = Null /\ sessions'[t].revokedAt = clock
  /\ \A t \in DOMAIN sessions' \ DOMAIN sessions :
       sessions'[t].via # "rotation" /\ sessions'[t].login = t
  /\ clock' = clock

\* One call is replaced by another that is well formed.
LEMMA CallReplaced ==
  ASSUME CallsOK, Grown, NEW k \in AuthCalls, NEW c, CallOK(c)', auth' = [auth EXCEPT ![k] = c]
  PROVE  /\ CallsOK' /\ auth'[k] = c
         /\ \A j \in AuthCalls \ {k} : auth'[j] = auth[j]
<1>1. c \in Call
  BY DEF CallOK
<1>2. auth' \in [AuthCalls -> Call] /\ auth'[k] = c /\ \A j \in AuthCalls \ {k} : auth'[j] = auth[j]
  BY <1>1 DEF CallsOK
<1>3. ASSUME NEW j \in AuthCalls PROVE CallOK(auth[j])'
  <2>1. CASE j = k
    <3>1. auth'[j] = c
      BY <1>2, <2>1
    <3> QED BY <3>1 DEF CallOK, Vouched, Answered, Remembers, AnswerOK
  <2>2. CASE j # k
    <3>1. PICK x : x = auth[j]
      OBVIOUS
    <3>2. CallOK(x)
      BY <3>1 DEF CallsOK
    <3>3. CallOK(x)'
      BY <3>2, CallsStand
    <3>4. auth'[j] = x
      BY <1>2, <2>2, <3>1
    <3> QED BY <3>3, <3>4 DEF CallOK, Vouched, Answered, Remembers, AnswerOK
  <2> QED BY <2>1, <2>2
<1> QED BY <1>2, <1>3 DEF CallsOK

\* The rows are as they should be after a step that adds to them.
LEMMA RowsAdded ==
  ASSUME Rows, Grown, AuthStoreTypeOK', Len(sessions') <= MaxRows, clock' >= clock,
         \A t \in DOMAIN sessions : sessions'[t].revokedAt \in {sessions[t].revokedAt, clock},
         \A t \in DOMAIN sessions' \ DOMAIN sessions : SessionOK(t)',
         \A d \in DOMAIN devices' \ DOMAIN devices : Answered(devices[d].code, devices[d].userId)'
  PROVE  Rows'
<1>1. clock \in Nat /\ clock' \in Nat
  BY AuthAssumption DEF Rows, AuthStoreTypeOK
<1>2. ASSUME NEW t \in DOMAIN sessions' PROVE SessionOK(t)'
  <2>1. CASE t \in DOMAIN sessions
    <3> DEFINE s == sessions[t]
               f == s.login
    <3>1. SessionOK(t) /\ s \in SessionRow
      BY <2>1, ElementOfSeq, LenProperties DEF Rows, AuthStoreTypeOK
    <3>2. /\ f \in DOMAIN sessions /\ sessions[f].userId = s.userId
          /\ Vouched(sessions[f].via, sessions[f].proof, s.userId)
          /\ s.via # "rotation" => f = t
          /\ s.revokedAt # Null => s.revokedAt <= clock
      BY <3>1 DEF SessionOK
    <3>3. s.revokedAt \in Nat \cup {Null}
      BY <3>1 DEF SessionRow
    <3>4. PICK via, proof, u : via = sessions[f].via /\ proof = sessions[f].proof /\ u = s.userId
      OBVIOUS
    <3>5. Vouched(via, proof, u)'
      BY <3>2, <3>4, VouchersStand
    <3>6. /\ sessions'[t].login = f /\ sessions'[t].userId = u /\ sessions'[t].via = s.via
          /\ f \in DOMAIN sessions' /\ sessions'[f].userId = u /\ sessions'[f].via = via
          /\ sessions'[f].proof = proof
      BY <2>1, <3>2, <3>4 DEF Grown
    <3>7. sessions'[t].revokedAt # Null => sessions'[t].revokedAt <= clock'
      BY <1>1, <2>1, <3>2, <3>3
    <3> QED BY <3>2, <3>5, <3>6, <3>7 DEF SessionOK, Vouched, Answered, Remembers
  <2> QED BY <2>1
<1>3. ASSUME NEW d \in DOMAIN devices' PROVE Answered(devices[d].code, devices[d].userId)'
  <2>1. CASE d \in DOMAIN devices
    <3>1. PICK n, u : n = devices[d].code /\ u = devices[d].userId
      OBVIOUS
    <3>2. Answered(n, u)'
      BY <2>1, <3>1, VouchersStand DEF Rows
    <3>3. devices'[d].code = n /\ devices'[d].userId = u
      BY <2>1, <3>1 DEF Grown
    <3> QED BY <3>2, <3>3 DEF Answered
  <2> QED BY <2>1
<1> QED BY <1>2, <1>3 DEF Rows

\* A step that leaves every row alone.
LEMMA RowsAlone ==
  ASSUME Rows, UNCHANGED authStoreVars
  PROVE  /\ Grown /\ Rows' /\ KeepsWays /\ clock' = clock /\ sessions' = sessions
         /\ \A c : CallOK(c) => CallOK(c)'
<1>1. Grown
  BY UnchangedGrown DEF authStoreVars
<1>2. Rows'
  BY DEF Rows, authStoreVars, AuthStoreTypeOK, SessionOK, Vouched, Answered, Remembers
<1>3. ASSUME NEW c, CallOK(c) PROVE CallOK(c)'
  BY <1>1, <1>3, CallsStand
<1> QED BY <1>1, <1>2, <1>3 DEF KeepsWays, Stands, authStoreVars

\* A call begins, or goes on, and no row changes.
LEMMA QuietStep ==
  ASSUME Rows, CallsOK, NEW k \in AuthCalls, UNCHANGED authStoreVars,
         NEW c, Begun(c), auth' = [auth EXCEPT ![k] = c]
  PROVE  Steps(k) /\ (c.pc \notin {"rotate", "replay"} => Calm(k))
<1>1. /\ Grown /\ Rows' /\ KeepsWays /\ clock' = clock /\ sessions' = sessions
      /\ CallOK(c)'
  BY RowsAlone DEF Begun
<1>2. CallsOK' /\ auth'[k] = c /\ \A j \in AuthCalls \ {k} : auth'[j] = auth[j]
  BY <1>1, CallReplaced
<1>3. DoorStep(k)
  BY <1>1, <1>2 DEF DoorStep, Begun, Holds, Resets
<1> QED BY <1>1, <1>2, <1>3 DEF Steps, Calm

\* A call that is served is well formed, and its fields are what they say.
LEMMA CallFinds ==
  ASSUME CallsOK, NEW k \in AuthCalls
  PROVE  /\ CallOK(auth[k]) /\ auth[k] \in Call /\ auth \in [AuthCalls -> Call]
         /\ auth[k].userId \in People \cup {Null} /\ auth[k].row \in Nat
         /\ auth[k].password \in Passwords \cup {Null} /\ auth[k].remember \in BOOLEAN
         /\ auth[k].snap \subseteq Nat
<1>1. CallOK(auth[k]) /\ auth[k] \in Call /\ auth \in [AuthCalls -> Call]
  BY DEF CallsOK
<1> QED BY <1>1 DEF Call

\* Moving a call on, with no more than its place, its rows or its proof changed.
LEMMA CallMoves ==
  ASSUME NEW c \in Call, NEW via \in {Null, "admin", "device", "code"}, NEW snap \in SUBSET Nat,
         NEW pc \in Resting \cup AtToken \cup AtCode \cup AtAddress \cup AtPassword \cup Elsewhere
  PROVE  /\ [c EXCEPT !.pc = pc] \in Call
         /\ [c EXCEPT !.pc = pc, !.via = via] \in Call
         /\ [c EXCEPT !.pc = pc, !.snap = snap] \in Call
<1>1. PICK d : d = [c EXCEPT !.pc = pc]
  OBVIOUS
<1>2. d \in Call
  BY <1>1 DEF Call
<1>3. [d EXCEPT !.via = via] \in Call
  BY <1>2 DEF Call
<1>4. [d EXCEPT !.snap = snap] \in Call
  BY <1>2 DEF Call
<1> QED BY <1>1, <1>2, <1>3, <1>4

\* Steps that read and decide.
LEMMA ReadingSteps ==
  ASSUME Rows, CallsOK, NEW k \in AuthCalls,
         \/ Trust(k) \/ Cooldown(k) \/ BurnCodes(k) \/ FindCandidate(k) \/ FindAddress(k)
         \/ BurnLinks(k)
  PROVE  Steps(k) /\ Calm(k)
<1> DEFINE old == auth[k]
<1>1. /\ CallOK(old) /\ old \in Call /\ auth \in [AuthCalls -> Call]
      /\ old.userId \in People \cup {Null} /\ old.row \in Nat /\ old.remember \in BOOLEAN
  BY CallFinds
<1>2. UNCHANGED authStoreVars
  BY DEF Trust, Cooldown, BurnCodes, FindCandidate, FindAddress, BurnLinks
<1>3. ASSUME NEW c, Begun(c), auth' = [auth EXCEPT ![k] = c], c.pc \notin {"rotate", "replay"}
      PROVE  Steps(k) /\ Calm(k)
  BY <1>2, <1>3, QuietStep
<1>4. ASSUME NEW kind \in Answers, kind # "TOKENS", End(k, Said(kind)) PROVE Steps(k) /\ Calm(k)
  BY <1>3, <1>4, RefusedIsBegun DEF End
<1>5. ASSUME Trust(k) PROVE Steps(k) /\ Calm(k)
  <2> DEFINE pc == IF isTrusted(old.userId, old.row) THEN "session" ELSE "cooldown"
             c == [old EXCEPT !.pc = pc, !.via = "device"]
  <2>1. auth' = [auth EXCEPT ![k] = c]
    BY <1>1, <1>5 DEF Trust
  <2>2. c \in Call
    BY <1>1, CallMoves DEF AtCode, Elsewhere
  <2>3. /\ c.pc = pc /\ c.via = "device" /\ c.userId = old.userId /\ c.row = old.row
        /\ c.remember = old.remember
    BY <1>1 DEF Call
  <2>4. old.userId \in People /\ ~old.remember
    BY <1>1, <1>5 DEF Trust, CallOK, Resting, AtToken, AtCode
  <2>5. pc = "session" => Remembers(old.row, old.userId)
    BY DEF isTrusted, Remembers
  <2>6. pc \in {"session", "cooldown"}
    OBVIOUS
  <2> HIDE DEF c, pc, old
  <2>7. CallOK(c)
    BY <2>2, <2>3, <2>4, <2>5, <2>6
       DEF CallOK, Resting, AtToken, AtCode, AtAddress, AtPassword, Vouched
  <2> QED BY <1>3, <2>1, <2>3, <2>6, <2>7 DEF Begun, AtPassword
<1>6. ASSUME NEW from, old.pc = from, NEW pc, Go(k, pc),
             \/ from = "cooldown" /\ pc = "burn"
             \/ from = "candidate" /\ pc = "claim" /\ Candidate(old.userId) = old.row /\ old.row # 0
             \/ from = "address" /\ pc = "open"
      PROVE  Steps(k) /\ Calm(k)
  <2> DEFINE c == [old EXCEPT !.pc = pc]
  <2>1. auth' = [auth EXCEPT ![k] = c]
    BY <1>1, <1>6 DEF Go
  <2>2. c \in Call
    BY <1>1, <1>6, CallMoves DEF AtCode, AtAddress, Elsewhere
  <2>3. /\ c.pc = pc /\ c.via = old.via /\ c.userId = old.userId /\ c.row = old.row
        /\ c.remember = old.remember /\ c.identity = old.identity /\ c.op = old.op
    BY <1>1 DEF Call
  <2>4. /\ old.userId \in People
        /\ from = "cooldown" => ~old.remember
        /\ from = "address" => /\ old.identity \in Identities
                               /\ old.op \in {"oauthLogin", "verifyOAuth"}
                               /\ old.op = "oauthLogin" => ~old.remember
    BY <1>1, <1>6 DEF CallOK, Resting, AtToken, AtCode, AtAddress
  <2>5. from = "candidate" => old.row \in DOMAIN codes /\ codes[old.row].userId = old.userId
    <3> SUFFICES ASSUME from = "candidate" PROVE old.row \in UnusedCodes(old.userId)
      BY DEF UnusedCodes
    <3> DEFINE S == {0} \cup {n \in UnusedCodes(old.userId) : codes[n].expiresAt > clock}
    <3>1. Len(codes) \in Nat /\ DOMAIN codes = 1 .. Len(codes)
      BY LenProperties DEF Rows, AuthStoreTypeOK
    <3>2. S \subseteq 0 .. Len(codes) /\ S # {}
      BY <3>1 DEF UnusedCodes
    <3>3. Max(S) \in S
      BY <3>1, <3>2, MaxIsIn
    <3>4. old.row = Max(S) /\ old.row # 0
      BY <1>6 DEF Candidate
    <3> QED BY <3>3, <3>4
  <2> HIDE DEF c, old
  <2>7. CallOK(c)
    BY <1>6, <2>2, <2>3, <2>4, <2>5
       DEF CallOK, Resting, AtToken, AtCode, AtAddress, AtPassword
  <2> QED BY <1>3, <1>6, <2>1, <2>3, <2>7 DEF Begun, AtPassword
<1>7. ASSUME Cooldown(k) PROVE Steps(k) /\ Calm(k)
  <2>1. \/ \E kind \in {"REFUSED", "PENDING_2FA"} : End(k, Said(kind))
        \/ old.pc = "cooldown" /\ Go(k, "burn")
    BY <1>7 DEF Cooldown
  <2> QED BY <1>4, <1>6, <2>1 DEF Answers
<1>8. ASSUME FindCandidate(k) PROVE Steps(k) /\ Calm(k)
  BY <1>4, <1>6, <1>8 DEF FindCandidate, Answers
<1>9. ASSUME FindAddress(k) PROVE Steps(k) /\ Calm(k)
  BY <1>4, <1>6, <1>9 DEF FindAddress, Answers
<1>10. ASSUME NEW from \in {"burn", "burnLinks"}, old.pc = from, NEW snap \in SUBSET Nat,
              NEW pc, pc = (IF from = "burn" THEN "create" ELSE "createLink"),
              auth' = [auth EXCEPT ![k].pc = pc, ![k].snap = snap]
       PROVE  Steps(k) /\ Calm(k)
  <2> DEFINE c == [old EXCEPT !.pc = pc, !.snap = snap]
  <2>1. auth' = [auth EXCEPT ![k] = c]
    BY <1>1, <1>10
  <2>2. c \in Call
    BY <1>1, <1>10, CallMoves DEF AtCode, Elsewhere
  <2>3. c.pc = pc /\ c.userId = old.userId /\ c.remember = old.remember
    BY <1>1 DEF Call
  <2>4. old.userId \in People /\ (from = "burn" => ~old.remember)
    BY <1>1, <1>10 DEF CallOK, Resting, AtToken, AtCode
  <2> HIDE DEF c, old
  <2>5. CallOK(c)
    BY <1>10, <2>2, <2>3, <2>4
       DEF CallOK, Resting, AtToken, AtCode, AtAddress, AtPassword
  <2> QED BY <1>3, <1>10, <2>1, <2>3, <2>5 DEF Begun, AtPassword
<1>11. ASSUME BurnCodes(k) PROVE Steps(k) /\ Calm(k)
  <2>1. UnusedCodes(old.userId) \in SUBSET Nat
    BY LenProperties DEF Rows, AuthStoreTypeOK, UnusedCodes
  <2> QED BY <1>10, <1>11, <2>1 DEF BurnCodes
<1>12. ASSUME BurnLinks(k) PROVE Steps(k) /\ Calm(k)
  <2>1. UnusedLinks(old.userId) \in SUBSET Nat
    BY LenProperties DEF Rows, AuthStoreTypeOK, UnusedLinks
  <2> QED BY <1>10, <1>12, <2>1 DEF BurnLinks
<1> QED BY <1>5, <1>7, <1>8, <1>9, <1>11, <1>12

\* A step that writes, but opens and cuts no session.
LEMMA WritingStep ==
  ASSUME Rows, CallsOK, NEW k \in AuthCalls, Grown, AuthStoreTypeOK', KeepsWays,
         sessions' = sessions, clock' = clock,
         \A d \in DOMAIN devices' \ DOMAIN devices : Answered(devices[d].code, devices[d].userId)',
         NEW c, CallOK(c)', auth' = [auth EXCEPT ![k] = c], c.pc \notin {"rotate", "replay"},
         c.pc = "session" /\ c.via = "code" => c.row \in DOMAIN codes /\ ~codes[c.row].used,
         c.op = "reset" /\ c.pc \in AtPassword =>
           \/ Resets(k) /\ c.row = auth[k].row
           \/ c.row \in DOMAIN links /\ ~links[c.row].used
  PROVE  Steps(k) /\ Calm(k)
<1>1. clock \in Nat /\ Len(sessions) <= MaxRows
  BY AuthAssumption DEF Rows, AuthStoreTypeOK
<1>2. Rows'
  BY <1>1, RowsAdded
<1>3. CallsOK' /\ auth'[k] = c /\ \A j \in AuthCalls \ {k} : auth'[j] = auth[j]
  BY CallReplaced
<1>4. DoorStep(k)
  BY <1>3 DEF DoorStep, Holds, Resets
<1> QED BY <1>2, <1>3, <1>4 DEF Steps, Calm

\* The answer that ends a call holds nothing.
LEMMA SaidEnds ==
  ASSUME Grown, NEW k, NEW kind \in Answers, kind # "TOKENS", End(k, Said(kind))
  PROVE  \E c : CallOK(c)' /\ auth' = [auth EXCEPT ![k] = c] /\ c.pc = "done"
<1>1. CallOK(Done(Said(kind))) /\ Done(Said(kind)).pc = "done"
  BY SaidIsOK, DoneIsOK
<1>2. PICK c : c = Done(Said(kind))
  OBVIOUS
<1>3. CallOK(c)'
  BY <1>1, <1>2, CallsStand
<1> QED BY <1>1, <1>2, <1>3 DEF End

\* Burning the rows a statement saw unused and inserting a new one.
LEMMA CodeCreated ==
  ASSUME Rows, CallsOK, NEW k \in AuthCalls, CreateCode(k)
  PROVE  Steps(k) /\ Calm(k)
<1> DEFINE burned == [n \in DOMAIN codes |->
                        IF n \in auth[k].snap THEN [codes[n] EXCEPT !.used = TRUE] ELSE codes[n]]
           new == [userId |-> auth[k].userId, used |-> FALSE, createdAt |-> clock,
                   expiresAt |-> clock + OTP_TTL]
<1>1. codes \in Seq(CodeRow) /\ clock \in Nat /\ OTP_TTL \in Nat
  BY AuthAssumption DEF Rows, AuthStoreTypeOK
<1>2. auth[k].userId \in People
  BY CallFinds DEF CreateCode, CallOK, Resting, AtToken
<1>3. new \in CodeRow
  BY <1>1, <1>2 DEF CodeRow
<1>4. ASSUME NEW n \in DOMAIN codes
      PROVE  /\ burned[n] \in CodeRow /\ burned[n].userId = codes[n].userId
             /\ codes[n].used => burned[n].used
  <2> codes[n] \in CodeRow
    BY <1>1, ElementOfSeq, LenProperties
  <2> QED BY DEF CodeRow
<1>5. burned \in Seq(CodeRow) /\ DOMAIN burned = DOMAIN codes
  BY <1>1, <1>4, RowsInPlace
<1>6. codes' = Append(burned, new)
  BY DEF CreateCode
<1> HIDE DEF burned, new
<1>7. /\ codes' \in Seq(CodeRow) /\ DOMAIN codes \subseteq DOMAIN codes'
      /\ \A n \in DOMAIN codes : codes'[n] = burned[n]
  BY <1>3, <1>5, <1>6, RowAppended
<1>8. UNCHANGED <<account, linked, sessions, links, devices, audit, clock>>
  BY DEF CreateCode
<1>9. Grown
  BY <1>4, <1>7, <1>8 DEF Grown
<1>10. AuthStoreTypeOK' /\ KeepsWays
  BY <1>7, <1>8 DEF Rows, AuthStoreTypeOK, KeepsWays, Stands
<1>11. PICK c : CallOK(c)' /\ auth' = [auth EXCEPT ![k] = c] /\ c.pc = "done"
  BY <1>9, SaidEnds DEF CreateCode, Answers
<1> QED BY <1>8, <1>9, <1>10, <1>11, WritingStep DEF AtPassword

\* A reset link replaces the ones before it.
LEMMA LinkCreated ==
  ASSUME Rows, CallsOK, NEW k \in AuthCalls, CreateLink(k)
  PROVE  Steps(k) /\ Calm(k)
<1> DEFINE burned == [n \in DOMAIN links |->
                        IF n \in auth[k].snap THEN [links[n] EXCEPT !.used = TRUE] ELSE links[n]]
           new == [userId |-> auth[k].userId, used |-> FALSE, expiresAt |-> clock + RESET_TTL]
<1>1. links \in Seq(LinkRow) /\ clock \in Nat /\ RESET_TTL \in Nat
  BY AuthAssumption DEF Rows, AuthStoreTypeOK
<1>2. auth[k].userId \in People
  BY CallFinds DEF CreateLink, CallOK, Resting, AtToken
<1>3. new \in LinkRow
  BY <1>1, <1>2 DEF LinkRow
<1>4. ASSUME NEW n \in DOMAIN links
      PROVE  burned[n] \in LinkRow /\ (links[n].used => burned[n].used)
  <2> links[n] \in LinkRow
    BY <1>1, ElementOfSeq, LenProperties
  <2> QED BY DEF LinkRow
<1>5. burned \in Seq(LinkRow) /\ DOMAIN burned = DOMAIN links
  BY <1>1, <1>4, RowsInPlace
<1>6. links' = Append(burned, new)
  BY DEF CreateLink
<1> HIDE DEF burned, new
<1>7. /\ links' \in Seq(LinkRow) /\ DOMAIN links \subseteq DOMAIN links'
      /\ \A n \in DOMAIN links : links'[n] = burned[n]
  BY <1>3, <1>5, <1>6, RowAppended
<1>8. UNCHANGED <<account, linked, sessions, codes, devices, audit, clock>>
  BY DEF CreateLink
<1>9. Grown
  BY <1>4, <1>7, <1>8 DEF Grown
<1>10. AuthStoreTypeOK' /\ KeepsWays
  BY <1>7, <1>8 DEF Rows, AuthStoreTypeOK, KeepsWays, Stands
<1>11. PICK c : CallOK(c)' /\ auth' = [auth EXCEPT ![k] = c] /\ c.pc = "done"
  BY <1>9, SaidEnds DEF CreateLink, Answers
<1> QED BY <1>8, <1>9, <1>10, <1>11, WritingStep DEF AtPassword

\* Claiming a code: of all the calls that found it, one gets it.
LEMMA CodeClaimed ==
  ASSUME Rows, CallsOK, NEW k \in AuthCalls, ClaimCode(k)
  PROVE  Steps(k) /\ Calm(k)
<1> DEFINE old == auth[k]
           n == old.row
<1>1. /\ CallOK(old) /\ old \in Call /\ auth \in [AuthCalls -> Call] /\ old.pc = "claim"
      /\ old.userId \in People /\ n \in DOMAIN codes /\ codes[n].userId = old.userId
  BY CallFinds DEF ClaimCode, CallOK, Resting, AtToken
<1>2. UNCHANGED <<account, linked, sessions, links, devices, audit, clock>>
  BY DEF ClaimCode
<1>3. KeepsWays
  BY <1>2 DEF KeepsWays, Stands
<1>4. CASE ~Claimable(codes[n])
  <2>1. UNCHANGED codes /\ End(k, Said("REFUSED"))
    BY <1>4 DEF ClaimCode
  <2>2. Grown /\ AuthStoreTypeOK'
    BY <1>2, <2>1, UnchangedGrown DEF Rows, AuthStoreTypeOK
  <2>3. PICK c : CallOK(c)' /\ auth' = [auth EXCEPT ![k] = c] /\ c.pc = "done"
    BY <2>1, <2>2, SaidEnds DEF Answers
  <2> QED BY <1>2, <1>3, <2>2, <2>3, WritingStep DEF AtPassword
<1>5. CASE Claimable(codes[n])
  <2> DEFINE c == [old EXCEPT !.pc = "session", !.via = "code"]
  <2>1. codes' = [codes EXCEPT ![n].used = TRUE] /\ auth' = [auth EXCEPT ![k] = c]
    BY <1>1, <1>5 DEF ClaimCode
  <2>2. ~codes[n].used
    BY <1>5 DEF Claimable
  <2>3. codes \in Seq(CodeRow) /\ \A m \in DOMAIN codes : codes[m] \in CodeRow
    BY ElementOfSeq, LenProperties DEF Rows, AuthStoreTypeOK
  <2>4. /\ codes' = [m \in DOMAIN codes |-> codes'[m]]
        /\ \A m \in DOMAIN codes : /\ codes'[m] \in CodeRow /\ codes'[m].userId = codes[m].userId
                                   /\ (codes[m].used \/ m = n) => codes'[m].used
    BY <1>1, <2>1, <2>3 DEF CodeRow
  <2>5. codes' \in Seq(CodeRow) /\ DOMAIN codes' = DOMAIN codes
    BY <2>3, <2>4, RowsInPlace
  <2>6. Grown
    BY <1>2, <2>4, <2>5 DEF Grown
  <2>7. AuthStoreTypeOK'
    BY <1>2, <2>5 DEF Rows, AuthStoreTypeOK
  <2>8. /\ c \in Call /\ c.pc = "session" /\ c.via = "code" /\ c.row = n
        /\ c.userId = old.userId
    BY <1>1 DEF Call, Elsewhere
  <2>9. PICK m, u : m = n /\ u = old.userId
    OBVIOUS
  <2>10. Answered(m, u)'
    BY <1>1, <2>4, <2>5, <2>9 DEF Answered
  <2>11. PICK d : d = c
    OBVIOUS
  <2>12. d \in Call /\ d.pc = "session" /\ d.via = "code" /\ d.row = m /\ d.userId = u /\ u \in People
    BY <1>1, <2>8, <2>9, <2>11
  <2>13. CallOK(d)'
    BY <2>10, <2>12
       DEF CallOK, Vouched, Resting, AtToken, AtCode, AtAddress, AtPassword
  <2>14. auth' = [auth EXCEPT ![k] = d] /\ d.row \in DOMAIN codes /\ ~codes[d.row].used
    BY <1>1, <2>1, <2>2, <2>9, <2>11, <2>12
  <2> HIDE DEF c, n, old
  <2> QED BY <1>2, <1>3, <2>6, <2>7, <2>12, <2>13, <2>14, WritingStep DEF AtPassword
<1> QED BY <1>4, <1>5

\* Claiming a reset link: of all the calls that found it, one gets it.
LEMMA LinkClaimed ==
  ASSUME Rows, CallsOK, NEW k \in AuthCalls, ClaimLink(k)
  PROVE  Steps(k) /\ Calm(k)
<1> DEFINE old == auth[k]
           n == old.row
<1>1. /\ CallOK(old) /\ old \in Call /\ auth \in [AuthCalls -> Call] /\ old.pc = "link"
      /\ old.userId \in People /\ n \in DOMAIN links
  BY CallFinds DEF ClaimLink, CallOK, Resting, AtToken
<1>2. UNCHANGED <<account, linked, sessions, codes, devices, audit, clock>>
  BY DEF ClaimLink
<1>3. KeepsWays
  BY <1>2 DEF KeepsWays, Stands
<1>4. CASE ~Claimable(links[n])
  <2>1. UNCHANGED links /\ End(k, Said("REFUSED"))
    BY <1>4 DEF ClaimLink
  <2>2. Grown /\ AuthStoreTypeOK'
    BY <1>2, <2>1, UnchangedGrown DEF Rows, AuthStoreTypeOK
  <2>3. PICK c : CallOK(c)' /\ auth' = [auth EXCEPT ![k] = c] /\ c.pc = "done"
    BY <2>1, <2>2, SaidEnds DEF Answers
  <2> QED BY <1>2, <1>3, <2>2, <2>3, WritingStep DEF AtPassword
<1>5. CASE Claimable(links[n])
  <2> DEFINE c == [old EXCEPT !.pc = "password"]
  <2>1. links' = [links EXCEPT ![n].used = TRUE] /\ auth' = [auth EXCEPT ![k] = c]
    BY <1>1, <1>5 DEF ClaimLink, Go
  <2>2. ~links[n].used
    BY <1>5 DEF Claimable
  <2>3. links \in Seq(LinkRow) /\ \A m \in DOMAIN links : links[m] \in LinkRow
    BY ElementOfSeq, LenProperties DEF Rows, AuthStoreTypeOK
  <2>4. /\ links' = [m \in DOMAIN links |-> links'[m]]
        /\ \A m \in DOMAIN links : /\ links'[m] \in LinkRow
                                   /\ (links[m].used \/ m = n) => links'[m].used
    BY <1>1, <2>1, <2>3 DEF LinkRow
  <2>5. links' \in Seq(LinkRow) /\ DOMAIN links' = DOMAIN links
    BY <2>3, <2>4, RowsInPlace
  <2>6. Grown
    BY <1>2, <2>4, <2>5 DEF Grown
  <2>7. AuthStoreTypeOK'
    BY <1>2, <2>5 DEF Rows, AuthStoreTypeOK
  <2>8. c \in Call /\ c.pc = "password" /\ c.row = n /\ c.userId = old.userId
    BY <1>1 DEF Call, AtPassword
  <2>11. PICK d : d = c
    OBVIOUS
  <2>12. d \in Call /\ d.pc = "password" /\ d.row = n /\ d.userId \in People
    BY <1>1, <2>8, <2>11
  <2>13. CallOK(d)'
    BY <1>1, <2>4, <2>5, <2>12
       DEF CallOK, Resting, AtToken, AtCode, AtAddress, AtPassword
  <2>14. auth' = [auth EXCEPT ![k] = d] /\ d.row \in DOMAIN links /\ ~links[d.row].used
    BY <1>1, <2>1, <2>2, <2>11, <2>12
  <2> HIDE DEF c, n, old
  <2> QED BY <1>2, <1>3, <2>6, <2>7, <2>12, <2>13, <2>14, WritingStep
<1> QED BY <1>4, <1>5

\* A call ends with an answer that is well formed once the step is done.
LEMMA AnswerEnds ==
  ASSUME NEW a, AnswerOK(a)', NEW k, End(k, a)
  PROVE  \E c : CallOK(c)' /\ auth' = [auth EXCEPT ![k] = c] /\ c.pc = "done" /\ c.out = a
<1>1. a \in AnswerRow
  BY DEF AnswerOK
<1>2. Done(a) \in Call /\ Done(a).pc = "done" /\ Done(a).out = a
  BY <1>1, AuthAssumption DEF Call, Done, IdleAuth, Resting
<1>3. PICK c : c = Done(a)
  OBVIOUS
<1>4. c \in Call /\ c.pc = "done" /\ c.out = a
  BY <1>2, <1>3
<1>5. CallOK(c)'
  BY <1>4 DEF CallOK, Resting, AtToken, AtCode, AtAddress, AtPassword
<1> QED BY <1>3, <1>4, <1>5 DEF End

\* A code opens a session, or a device or an admin's role does.
LEMMA SessionOpened ==
  ASSUME Rows, CallsOK, NEW k \in AuthCalls, OpenSession(k)
  PROVE  Steps(k) /\ Calm(k)
<1> DEFINE old == auth[k]
           u == old.userId
           t == Len(sessions) + 1
           proof == IF old.via = "admin" THEN 0 ELSE old.row
           new == NewSession(u, old.via, proof, t, old.password)
<1>1. /\ CallOK(old) /\ old \in Call /\ auth \in [AuthCalls -> Call] /\ old.pc = "session"
      /\ u \in People /\ old.row \in Nat /\ old.password \in Passwords \cup {Null}
      /\ Vouched(old.via, old.row, u) /\ (old.remember => old.via = "code")
      /\ old.remember \in BOOLEAN
  BY CallFinds DEF OpenSession, CallOK, Resting, AtToken
<1>2. /\ sessions \in Seq(SessionRow) /\ clock \in Nat /\ REFRESH_TTL \in Nat /\ ACCESS_TTL \in Nat
      /\ account \in [People -> Account] /\ MaxRows \in Nat
  BY AuthAssumption DEF Rows, AuthStoreTypeOK
<1>3. Len(sessions) \in Nat /\ DOMAIN sessions = 1 .. Len(sessions)
  BY <1>2, LenProperties
<1>4. proof \in Nat /\ old.via \in {"code", "device", "admin"}
  BY <1>1 DEF Vouched
<1>5. /\ new \in SessionRow /\ new.userId = u /\ new.via = old.via /\ new.proof = proof
      /\ new.login = t /\ new.revokedAt = Null
  BY <1>1, <1>2, <1>3, <1>4 DEF NewSession, SessionRow
<1>6. /\ sessions' = Append(sessions, new) /\ t <= MaxRows
      /\ UNCHANGED <<linked, codes, links, devices, audit, clock>>
      /\ account' = [account EXCEPT ![u].verified = TRUE]
  BY DEF OpenSession
<1> HIDE DEF new
<1>7. /\ sessions' \in Seq(SessionRow) /\ Len(sessions') = t /\ t \notin DOMAIN sessions
      /\ DOMAIN sessions' = DOMAIN sessions \cup {t} /\ sessions'[t] = new
      /\ \A s \in DOMAIN sessions : sessions'[s] = sessions[s]
  BY <1>2, <1>5, <1>6, RowAppended
<1>8. account' \in [People -> Account] /\ \A p \in People : account'[p].status = account[p].status
  BY <1>1, <1>2, <1>6 DEF Account
<1>9. Grown
  BY <1>6, <1>7 DEF Grown
<1>10. AuthStoreTypeOK' /\ KeepsWays
  BY <1>6, <1>7, <1>8 DEF Rows, AuthStoreTypeOK, KeepsWays, Stands
<1>13. PICK n : n = t
  OBVIOUS
<1>11. SessionOK(n)'
  <2>1. PICK via, p, x : via = old.via /\ p = proof /\ x = u
    OBVIOUS
  <2>2. Vouched(via, p, x)
    BY <1>1, <2>1 DEF Vouched
  <2>3. Vouched(via, p, x)'
    BY <1>9, <2>2, VouchersStand
  <2>5. /\ n \in DOMAIN sessions' /\ sessions'[n].login = n /\ sessions'[n].userId = x
        /\ sessions'[n].via = via /\ sessions'[n].proof = p /\ sessions'[n].revokedAt = Null
    BY <1>5, <1>7, <1>13, <2>1
  <2> QED BY <2>3, <2>5 DEF SessionOK, Vouched, Answered, Remembers
<1>12. Rows'
  <2>1. \A s \in DOMAIN sessions' \ DOMAIN sessions : SessionOK(s)'
    <3> SUFFICES ASSUME NEW s \in DOMAIN sessions' \ DOMAIN sessions PROVE SessionOK(s)'
      OBVIOUS
    <3> s = n
      BY <1>7, <1>13
    <3> QED BY <1>11 DEF SessionOK, Vouched, Answered, Remembers
  <2> QED BY <1>2, <1>6, <1>7, <1>9, <1>10, <2>1, RowsAdded
<1>14. AnswerOK(Answer("TOKENS", n, 0))'
  BY <1>3, <1>7, <1>13 DEF AnswerOK, AnswerRow, Answer, Answers
<1>15. \E c : /\ CallOK(c)' /\ auth' = [auth EXCEPT ![k] = c] /\ c.pc \in {"device", "done"}
  <2>1. CASE ~old.remember
    <3>1. End(k, Answer("TOKENS", n, 0))
      BY <1>13, <2>1 DEF OpenSession
    <3> QED BY <1>14, <3>1, AnswerEnds
  <2>2. CASE old.remember
    <3> DEFINE c == [old EXCEPT !.pc = "device", !.out = Answer("TOKENS", n, 0)]
    <3>1. auth' = [auth EXCEPT ![k] = c]
      BY <1>1, <1>13, <2>2 DEF OpenSession
    <3>2. Answer("TOKENS", n, 0) \in AnswerRow
      BY <1>14 DEF AnswerOK
    <3>3. /\ c \in Call /\ c.pc = "device" /\ c.out = Answer("TOKENS", n, 0)
          /\ c.row = old.row /\ c.userId = u
      BY <1>1, <3>2 DEF Call, Elsewhere
    <3>4. PICK d, m, x : d = c /\ m = old.row /\ x = u
      OBVIOUS
    <3>5. Answered(m, x)
      BY <1>1, <2>2, <3>4 DEF Vouched
    <3>6. Answered(m, x)'
      BY <1>9, <3>5, VouchersStand
    <3>7. /\ d \in Call /\ d.pc = "device" /\ d.out = Answer("TOKENS", n, 0)
          /\ d.row = m /\ d.userId = x /\ x \in People /\ d.out.session # 0
      BY <1>1, <1>3, <1>13, <3>3, <3>4 DEF Answer
    <3>8. CallOK(d)'
      BY <1>14, <3>6, <3>7 DEF CallOK, Resting, AtToken, AtCode, AtAddress, AtPassword
    <3> QED BY <3>1, <3>4, <3>7, <3>8
  <2> QED BY <1>1, <2>1, <2>2
<1>16. PICK c : CallOK(c)' /\ auth' = [auth EXCEPT ![k] = c] /\ c.pc \in {"device", "done"}
  BY <1>15
<1>17. CallsOK' /\ auth'[k] = c /\ \A j \in AuthCalls \ {k} : auth'[j] = auth[j]
  BY <1>9, <1>16, CallReplaced
<1>18. new.via = "code" => old.pc = "session" /\ old.via = "code" /\ new.proof = old.row
  BY <1>1, <1>5
<1>19. DoorStep(k)
  <2> HIDE DEF t, proof, u
  <2>1. \A s \in DOMAIN sessions' \ DOMAIN sessions : s = t /\ sessions'[s] = new
    BY <1>7
  <2> QED BY <1>16, <1>17, <1>18, <2>1 DEF DoorStep, Holds, Resets, AtPassword, t
<1>20. Calm(k)
  BY <1>4, <1>5, <1>6, <1>7, <1>16, <1>17 DEF Calm
<1> QED BY <1>9, <1>10, <1>12, <1>17, <1>19, <1>20 DEF Steps

\* A device is remembered with the code that was answered on it.
LEMMA DeviceRemembered ==
  ASSUME Rows, CallsOK, NEW k \in AuthCalls, RememberDevice(k)
  PROVE  Steps(k) /\ Calm(k)
<1> DEFINE old == auth[k]
           new == [userId |-> old.userId, revokedAt |-> Null,
                   expiresAt |-> clock + DEVICE_TTL, code |-> old.row]
           d == Len(devices) + 1
<1>1. /\ CallOK(old) /\ old.pc = "device" /\ old.userId \in People /\ old.row \in Nat
      /\ Answered(old.row, old.userId) /\ AnswerOK(old.out)
  BY CallFinds DEF RememberDevice, CallOK, Resting, AtToken
<1>2. devices \in Seq(DeviceRow) /\ clock \in Nat /\ DEVICE_TTL \in Nat
  BY AuthAssumption DEF Rows, AuthStoreTypeOK
<1>3. new \in DeviceRow /\ new.userId = old.userId /\ new.code = old.row
  BY <1>1, <1>2 DEF DeviceRow
<1>4. devices' = Append(devices, new) /\ UNCHANGED <<account, linked, sessions, codes, links, audit, clock>>
  BY DEF RememberDevice
<1> HIDE DEF new
<1>5. /\ devices' \in Seq(DeviceRow) /\ d \in Nat /\ d \in DOMAIN devices'
      /\ DOMAIN devices' = DOMAIN devices \cup {d} /\ devices'[d] = new
      /\ \A x \in DOMAIN devices : devices'[x] = devices[x]
  BY <1>2, <1>3, <1>4, RowAppended
<1>6. Grown
  BY <1>4, <1>5 DEF Grown
<1>7. AuthStoreTypeOK' /\ KeepsWays
  BY <1>4, <1>5 DEF Rows, AuthStoreTypeOK, KeepsWays, Stands
<1>8. \A x \in DOMAIN devices' \ DOMAIN devices : Answered(devices[x].code, devices[x].userId)'
  <2> SUFFICES ASSUME NEW x \in DOMAIN devices' \ DOMAIN devices
               PROVE  Answered(devices[x].code, devices[x].userId)'
    OBVIOUS
  <2>1. PICK n, u : n = old.row /\ u = old.userId
    OBVIOUS
  <2>2. Answered(n, u)'
    BY <1>1, <1>6, <2>1, VouchersStand
  <2>3. devices'[x].code = n /\ devices'[x].userId = u
    BY <1>3, <1>5, <2>1
  <2> QED BY <2>2, <2>3 DEF Answered
<1>9. PICK a : a = Answer("TOKENS", old.out.session, d)
  OBVIOUS
<1>10. AnswerOK(a)'
  <2>1. old.out.session \in {0} \cup DOMAIN sessions /\ old.out.session \in Nat
    BY <1>1 DEF AnswerOK, AnswerRow
  <2>2. old.out.session # 0
    BY <1>1 DEF CallOK
  <2>3. /\ a \in AnswerRow /\ a.session = old.out.session /\ a.device = d
    BY <1>5, <1>9, <2>1 DEF AnswerRow, Answer, Answers
  <2> QED BY <1>4, <1>5, <2>1, <2>2, <2>3 DEF AnswerOK
<1>11. End(k, a)
  BY <1>9 DEF RememberDevice
<1>12. PICK c : CallOK(c)' /\ auth' = [auth EXCEPT ![k] = c] /\ c.pc = "done"
  BY <1>10, <1>11, AnswerEnds
<1> QED BY <1>4, <1>6, <1>7, <1>8, <1>12, WritingStep DEF AtPassword

\* Accounts are opened, by a form or with a provider's identity on them, and
\* change their password.
LEMMA AccountInserted ==
  ASSUME Rows, CallsOK, NEW k \in AuthCalls, InsertAccount(k)
  PROVE  Steps(k) /\ Calm(k)
<1> DEFINE u == auth[k].userId
           row == [status |-> "ACTIVE", verified |-> FALSE, password |-> auth[k].password,
                   ways |-> account[u].ways \cup {Null}]
<1>1. u \in People /\ auth[k].password \in Passwords \cup {Null}
  BY CallFinds DEF InsertAccount, CallOK, Resting, AtToken
<1>2. UNCHANGED <<linked, sessions, codes, links, devices, audit, clock>>
  BY DEF InsertAccount
<1>3. Grown
  BY <1>2, UnchangedGrown
<1>4. account \in [People -> Account] /\ row \in Account
  BY <1>1 DEF Rows, AuthStoreTypeOK, Account
<1>5. account' \in {account, [account EXCEPT ![u] = row]}
  BY DEF InsertAccount
<1> HIDE DEF row
<1>6. account' \in [People -> Account] /\ KeepsWays
  <2>1. CASE account' = account
    BY <1>2, <1>4, <2>1 DEF KeepsWays, Stands
  <2>2. CASE account' # account
    <3>1. account[u].status = "NONE" /\ account' = [account EXCEPT ![u] = row]
      BY <2>2, <1>1, <1>4 DEF InsertAccount, row
    <3>2. row.status = "ACTIVE" /\ row.ways = account[u].ways \cup {Null}
      BY DEF row
    <3>3. Opens(u, Null)
      BY <1>1, <1>4, <3>1, <3>2 DEF Opens, Stands
    <3> QED BY <1>1, <1>2, <1>4, <3>1, <3>3 DEF KeepsWays
  <2> QED BY <2>1, <2>2
<1>7. AuthStoreTypeOK'
  BY <1>2, <1>6 DEF Rows, AuthStoreTypeOK
<1>8. \E kind \in {"OK", "REFUSED"} : End(k, Said(kind))
  BY DEF InsertAccount
<1>9. PICK c : CallOK(c)' /\ auth' = [auth EXCEPT ![k] = c] /\ c.pc = "done"
  BY <1>3, <1>8, SaidEnds DEF Answers
<1> QED BY <1>2, <1>3, <1>6, <1>7, <1>9, WritingStep DEF AtPassword

\* An account is opened with the identity that opens it, or the address is taken.
LEMMA AccountOpened ==
  ASSUME Rows, CallsOK, NEW k \in AuthCalls, OpenAccount(k)
  PROVE  Steps(k) /\ Calm(k)
<1> DEFINE old == auth[k]
           u == old.userId
           i == old.identity
           row == [status |-> "ACTIVE", password |-> Null, verified |-> EmailOf[i] # Null,
                   ways |-> account[u].ways \cup {i}]
<1>1. /\ CallOK(old) /\ old \in Call /\ auth \in [AuthCalls -> Call] /\ u \in People
      /\ i \in Identities /\ old.op \in {"oauthLogin", "verifyOAuth"}
      /\ old.op = "oauthLogin" => ~old.remember
  BY CallFinds DEF OpenAccount, CallOK, Resting, AtToken, AtAddress
<1>2. UNCHANGED <<sessions, codes, links, devices, audit, clock>>
  BY DEF OpenAccount
<1>3. Grown
  BY <1>2, UnchangedGrown
<1>4. /\ account \in [People -> Account] /\ linked \in [Identities -> People \cup {Null}]
      /\ row \in Account /\ row.status # "NONE"
  BY <1>1 DEF Rows, AuthStoreTypeOK, Account
<1>5. CASE ~AddressFree(u, i)
  <2>1. End(k, Said("REFUSED")) /\ UNCHANGED <<account, linked>>
    BY <1>5 DEF OpenAccount
  <2>2. AuthStoreTypeOK' /\ KeepsWays
    BY <1>2, <2>1 DEF Rows, AuthStoreTypeOK, KeepsWays, Stands
  <2>3. PICK c : CallOK(c)' /\ auth' = [auth EXCEPT ![k] = c] /\ c.pc = "done"
    BY <1>3, <2>1, SaidEnds DEF Answers
  <2> QED BY <1>2, <1>3, <2>2, <2>3, WritingStep DEF AtPassword
<1>6. CASE AddressFree(u, i)
  <2> DEFINE pc == AfterResolve(old.op)
             c == [old EXCEPT !.pc = pc]
  <2>1. /\ account' = [account EXCEPT ![u] = row] /\ linked' = [linked EXCEPT ![i] = u]
        /\ auth' = [auth EXCEPT ![k] = c] /\ account[u].status = "NONE"
    BY <1>1, <1>6 DEF OpenAccount, Go, AddressFree
  <2> HIDE DEF row
  <2>2. account' \in [People -> Account] /\ linked' \in [Identities -> People \cup {Null}]
    BY <1>1, <1>4, <2>1
  <2>3. KeepsWays
    <3>1. row.ways = account[u].ways \cup {i}
      BY DEF row
    <3>2. Opens(u, i)
      BY <1>1, <1>4, <2>1, <3>1 DEF Opens, Stands
    <3> QED BY <1>1, <2>1, <3>2 DEF KeepsWays
  <2>4. AuthStoreTypeOK'
    BY <1>2, <2>2 DEF Rows, AuthStoreTypeOK
  <2>5. pc \in {"trust", "candidate"} /\ (pc = "trust" => ~old.remember)
    BY <1>1 DEF AfterResolve
  <2>6. c \in Call /\ c.pc = pc /\ c.userId = u /\ c.remember = old.remember
    BY <1>1, <2>5 DEF Call, AtCode, Elsewhere
  <2>7. PICK x : x = c
    OBVIOUS
  <2>8. x \in Call /\ x.pc \in {"trust", "candidate"} /\ x.userId \in People /\ (x.pc = "trust" => ~x.remember)
    BY <1>1, <2>5, <2>6, <2>7
  <2>9. CallOK(x)
    BY <2>8 DEF CallOK, Resting, AtToken, AtCode, AtAddress, AtPassword
  <2>10. CallOK(x)'
    BY <1>3, <2>9, CallsStand
  <2>11. auth' = [auth EXCEPT ![k] = x]
    BY <2>1, <2>7
  <2> QED BY <1>2, <1>3, <2>3, <2>4, <2>8, <2>10, <2>11, WritingStep DEF AtPassword
<1> QED BY <1>5, <1>6

\* A new password is written.
LEMMA PasswordSet ==
  ASSUME Rows, CallsOK, NEW k \in AuthCalls, SetPassword(k)
  PROVE  Steps(k) /\ Calm(k)
<1> DEFINE old == auth[k]
           u == old.userId
           c == [old EXCEPT !.pc = "cut"]
<1>1. /\ CallOK(old) /\ old \in Call /\ auth \in [AuthCalls -> Call] /\ u \in People
      /\ old.password \in Passwords \cup {Null} /\ old.pc = "password"
      /\ old.op = "reset" => old.row \in DOMAIN links /\ links[old.row].used
  BY CallFinds DEF SetPassword, CallOK, Resting, AtToken, AtPassword
<1>2. /\ UNCHANGED <<linked, sessions, codes, links, devices, audit, clock>>
      /\ account' = [account EXCEPT ![u].password = old.password]
      /\ auth' = [auth EXCEPT ![k] = c]
  BY <1>1 DEF SetPassword, Go
<1>3. Grown
  BY <1>2, UnchangedGrown
<1>4. account' \in [People -> Account] /\ \A p \in People : account'[p].status = account[p].status
  <2>1. account \in [People -> Account] /\ account[u] \in Account
    BY <1>1 DEF Rows, AuthStoreTypeOK
  <2>2. PICK row : row = [account[u] EXCEPT !.password = old.password]
    OBVIOUS
  <2> HIDE DEF u, old
  <2>3. row \in Account /\ row.status = account[u].status
    BY <1>1, <2>1, <2>2 DEF Account
  <2>4. account' = [account EXCEPT ![u] = row]
    BY <1>2, <2>2
  <2> QED BY <1>1, <2>1, <2>3, <2>4
<1>5. AuthStoreTypeOK' /\ KeepsWays
  BY <1>2, <1>4 DEF Rows, AuthStoreTypeOK, KeepsWays, Stands
<1>6. c \in Call /\ c.pc = "cut" /\ c.userId = u /\ c.row = old.row /\ c.op = old.op
  BY <1>1 DEF Call, AtPassword
<1>7. PICK x : x = c
  OBVIOUS
<1>8. CallOK(x)
  BY <1>1, <1>6, <1>7 DEF CallOK, Resting, AtToken, AtCode, AtAddress, AtPassword
<1>9. CallOK(x)'
  BY <1>3, <1>8, CallsStand
<1>10. /\ auth' = [auth EXCEPT ![k] = x] /\ x.pc = "cut"
       /\ x.op = "reset" => Resets(k) /\ x.row = auth[k].row
  BY <1>1, <1>2, <1>6, <1>7 DEF Resets, AtPassword
<1> QED BY <1>2, <1>3, <1>5, <1>9, <1>10, WritingStep

\* The devices of an account are forgotten.
LEMMA DevicesForgotten ==
  ASSUME Rows, CallsOK, NEW k \in AuthCalls, ForgetDevices(k)
  PROVE  Steps(k) /\ Calm(k)
<1>1. /\ UNCHANGED <<account, linked, sessions, codes, links, audit, clock>>
      /\ devices' = [d \in DOMAIN devices |-> devices'[d]]
  BY DEF ForgetDevices
<1>2. devices \in Seq(DeviceRow) /\ clock \in Nat
  BY AuthAssumption DEF Rows, AuthStoreTypeOK
<1>3. ASSUME NEW d \in DOMAIN devices
      PROVE  /\ devices'[d] \in DeviceRow
             /\ devices'[d].userId = devices[d].userId /\ devices'[d].code = devices[d].code
  <2>1. devices[d] \in DeviceRow
    BY <1>2, ElementOfSeq, LenProperties
  <2>2. devices'[d] \in {devices[d], [devices[d] EXCEPT !.revokedAt = clock]}
    BY DEF ForgetDevices
  <2> QED BY <1>2, <2>1, <2>2 DEF DeviceRow
<1>4. devices' \in Seq(DeviceRow) /\ DOMAIN devices' = DOMAIN devices
  BY <1>1, <1>2, <1>3, RowsInPlace
<1>5. Grown
  BY <1>1, <1>3, <1>4 DEF Grown
<1>6. AuthStoreTypeOK' /\ KeepsWays
  BY <1>1, <1>4 DEF Rows, AuthStoreTypeOK, KeepsWays, Stands
<1>7. PICK c : CallOK(c)' /\ auth' = [auth EXCEPT ![k] = c] /\ c.pc = "done"
  BY <1>5, SaidEnds DEF ForgetDevices, Answers
<1> QED BY <1>1, <1>4, <1>5, <1>6, <1>7, WritingStep DEF AtPassword

\* Live sessions are cut, each row in its place.
Cuts ==
  /\ sessions' = [t \in DOMAIN sessions |-> sessions'[t]]
  /\ \A t \in DOMAIN sessions :
       \/ sessions'[t] = sessions[t]
       \/ sessions[t].revokedAt = Null /\ sessions'[t] = [sessions[t] EXCEPT !.revokedAt = clock]

\* A step that cuts sessions and opens none.
LEMMA CuttingStep ==
  ASSUME Rows, CallsOK, NEW k \in AuthCalls, Cuts, UNCHANGED <<linked, codes, links, devices, clock>>,
         account' \in [People -> Account],
         \A u \in People : Stands(u),
         audit' \in [People -> Seq({"SUSPEND_USER", "REACTIVATE_USER"})],
         NEW c, CallOK(c), auth' = [auth EXCEPT ![k] = c], c.pc \notin {"rotate", "replay", "session"},
         c.op = "reset" /\ c.pc \in AtPassword => Resets(k) /\ c.row = auth[k].row
  PROVE  Steps(k) /\ Calm(k)
<1>1. /\ sessions \in Seq(SessionRow) /\ clock \in Nat /\ Len(sessions) <= MaxRows
  BY AuthAssumption DEF Rows, AuthStoreTypeOK
<1>2. ASSUME NEW t \in DOMAIN sessions
      PROVE  /\ sessions'[t] \in SessionRow
             /\ sessions'[t].userId = sessions[t].userId /\ sessions'[t].via = sessions[t].via
             /\ sessions'[t].proof = sessions[t].proof /\ sessions'[t].login = sessions[t].login
             /\ \/ sessions'[t].revokedAt = sessions[t].revokedAt
                \/ sessions[t].revokedAt = Null /\ sessions'[t].revokedAt = clock
  <2>1. sessions[t] \in SessionRow
    BY <1>1, ElementOfSeq, LenProperties
  <2> DEFINE row == [sessions[t] EXCEPT !.revokedAt = clock]
  <2>2. \/ sessions'[t] = sessions[t]
        \/ sessions[t].revokedAt = Null /\ sessions'[t] = row
    BY Zenon DEF Cuts
  <2>3. row \in SessionRow
    BY <1>1, <2>1 DEF SessionRow
  <2>4. /\ row.userId = sessions[t].userId /\ row.via = sessions[t].via
        /\ row.proof = sessions[t].proof /\ row.login = sessions[t].login /\ row.revokedAt = clock
    BY <2>1 DEF SessionRow
  <2> HIDE DEF row
  <2> QED BY <2>1, <2>2, <2>3, <2>4
<1>3. sessions' \in Seq(SessionRow) /\ DOMAIN sessions' = DOMAIN sessions /\ Len(sessions') = Len(sessions)
  BY <1>1, <1>2, RowsInPlace DEF Cuts
<1>4. Grown
  BY <1>2, <1>3 DEF Grown
<1>5. AuthStoreTypeOK'
  BY <1>3 DEF Rows, AuthStoreTypeOK
<1>6. KeepsWays
  BY DEF KeepsWays
<1>7. Rows'
  BY <1>1, <1>2, <1>3, <1>4, <1>5, RowsAdded
<1>8. CallOK(c)'
  BY <1>4, CallsStand
<1>9. CallsOK' /\ auth'[k] = c /\ \A j \in AuthCalls \ {k} : auth'[j] = auth[j]
  BY <1>4, <1>8, CallReplaced
<1>10. DoorStep(k)
  BY <1>3, <1>9 DEF DoorStep, Holds, Resets
<1>11. Calm(k)
  BY <1>2, <1>3, <1>9 DEF Calm
<1> QED BY <1>4, <1>6, <1>7, <1>9, <1>10, <1>11 DEF Steps

\* A replay, a logout and a new password cut sessions.
LEMMA SessionsCut ==
  ASSUME Rows, CallsOK, NEW k \in AuthCalls, CutReplayed(k) \/ RevokeSession(k) \/ CutSessions(k)
  PROVE  Steps(k) /\ Calm(k)
<1> DEFINE old == auth[k]
<1>1. /\ UNCHANGED <<account, linked, codes, links, devices, audit, clock>>
      /\ account \in [People -> Account]
      /\ audit \in [People -> Seq({"SUSPEND_USER", "REACTIVATE_USER"})]
      /\ sessions \in Seq(SessionRow)
  BY DEF CutReplayed, RevokeSession, CutSessions, Rows, AuthStoreTypeOK
<1>2. /\ CallOK(old) /\ old \in Call /\ auth \in [AuthCalls -> Call]
  BY CallFinds
<1>3. Cuts
  <2>1. ASSUME NEW u, sessions' = revokeAllSessions(u) PROVE Cuts
    BY <2>1 DEF revokeAllSessions, Cuts
  <2>2. ASSUME RevokeSession(k) PROVE Cuts
    <3>1. old.row \in DOMAIN sessions
      BY <1>2, <2>2 DEF RevokeSession, CallOK, AtToken
    <3>2. \A t \in DOMAIN sessions : sessions[t] \in SessionRow
      BY <1>1, ElementOfSeq, LenProperties
    <3>3. sessions' = [sessions EXCEPT ![old.row].revokedAt = IF @ = Null THEN clock ELSE @]
      BY <2>2 DEF RevokeSession
    <3>4. sessions' = [t \in DOMAIN sessions |-> sessions'[t]]
      BY <1>1, <3>3, LenProperties
    <3>5. ASSUME NEW t \in DOMAIN sessions
          PROVE  \/ sessions'[t] = sessions[t]
                 \/ /\ sessions[t].revokedAt = Null
                    /\ sessions'[t] = [sessions[t] EXCEPT !.revokedAt = clock]
      BY <3>1, <3>2, <3>3 DEF SessionRow
    <3> QED BY <3>4, <3>5 DEF Cuts
  <2> QED BY <2>1, <2>2 DEF CutReplayed, CutSessions
<1>4. CASE CutReplayed(k) \/ RevokeSession(k)
  <2>1. PICK kind \in {"OK", "REFUSED"} : End(k, Said(kind))
    BY <1>4 DEF CutReplayed, RevokeSession
  <2>2. CallOK(Done(Said(kind))) /\ Done(Said(kind)).pc = "done"
    BY SaidIsOK, DoneIsOK DEF Answers
  <2>3. auth' = [auth EXCEPT ![k] = Done(Said(kind))]
    BY <2>1 DEF End
  <2> QED BY <1>1, <1>3, <2>2, <2>3, CuttingStep DEF AtPassword, Stands
<1>5. CASE CutSessions(k)
  <2> DEFINE c == [old EXCEPT !.pc = "forget"]
  <2>1. auth' = [auth EXCEPT ![k] = c] /\ old.pc = "cut"
    BY <1>2, <1>5 DEF CutSessions, Go
  <2>2. c \in Call /\ c.pc = "forget" /\ c.userId = old.userId /\ c.row = old.row /\ c.op = old.op
    BY <1>2 DEF Call, AtPassword
  <2> HIDE DEF c
  <2>3. CallOK(c)
    BY <1>2, <2>1, <2>2 DEF CallOK, Resting, AtToken, AtCode, AtAddress, AtPassword
  <2>4. c.op = "reset" => Resets(k) /\ c.row = auth[k].row
    BY <2>1, <2>2 DEF Resets, AtPassword
  <2> QED BY <1>1, <1>3, <2>1, <2>2, <2>3, <2>4, CuttingStep DEF Stands
<1> QED BY <1>4, <1>5

\* An admin suspends an account, with its sessions, or brings it back.
LEMMA StatusChanged ==
  ASSUME Rows, CallsOK, NEW k \in AuthCalls, NEW admin, NEW u \in People,
         NEW status \in {"ACTIVE", "SUSPENDED"}, ChangeStatus(k, admin, u, status)
  PROVE  Steps(k) /\ Calm(k)
<1>1. /\ UNCHANGED <<linked, codes, links, devices, clock>>
      /\ account \in [People -> Account]
      /\ audit \in [People -> Seq({"SUSPEND_USER", "REACTIVATE_USER"})]
  BY DEF ChangeStatus, Rows, AuthStoreTypeOK
<1>2. PICK kind \in {"OK", "REFUSED"} : End(k, Said(kind))
  BY DEF ChangeStatus
<1>3. CallOK(Done(Said(kind))) /\ Done(Said(kind)).pc = "done"
  BY SaidIsOK, DoneIsOK DEF Answers
<1>4. auth' = [auth EXCEPT ![k] = Done(Said(kind))]
  BY <1>2 DEF End
<1>5. sessions = [t \in DOMAIN sessions |-> sessions[t]]
  BY LenProperties DEF Rows, AuthStoreTypeOK
<1>6. CASE ~(admin # u /\ account[u].status # "NONE")
  <2>1. UNCHANGED <<account, audit, sessions>>
    BY <1>6 DEF ChangeStatus
  <2>2. Cuts
    BY <1>5, <2>1 DEF Cuts
  <2> QED BY <1>1, <1>3, <1>4, <2>1, <2>2, CuttingStep DEF AtPassword, Stands
<1>7. CASE admin # u /\ account[u].status # "NONE"
  <2> DEFINE entry == IF status = "SUSPENDED" THEN "SUSPEND_USER" ELSE "REACTIVATE_USER"
  <2>1. /\ account' = [account EXCEPT ![u].status = status]
        /\ audit' = [audit EXCEPT ![u] = Append(@, entry)]
        /\ sessions' = IF status = "SUSPENDED" THEN RevokedBySuspension(u) ELSE sessions
    BY <1>7 DEF ChangeStatus
  <2>2. account' \in [People -> Account] /\ \A p \in People : Stands(p)
    BY <1>1, <1>7, <2>1 DEF Account, Stands
  <2>3. audit' \in [People -> Seq({"SUSPEND_USER", "REACTIVATE_USER"})]
    <3>1. entry \in {"SUSPEND_USER", "REACTIVATE_USER"}
      OBVIOUS
    <3> HIDE DEF entry
    <3>2. Append(audit[u], entry) \in Seq({"SUSPEND_USER", "REACTIVATE_USER"})
      BY <1>1, <3>1, AppendProperties
    <3> QED BY <1>1, <2>1, <3>2
  <2>4. Cuts
    BY <1>5, <2>1 DEF Cuts, RevokedBySuspension, Live
  <2> QED BY <1>1, <1>3, <1>4, <2>2, <2>3, <2>4, CuttingStep DEF AtPassword
<1> QED BY <1>6, <1>7

\* Trading a token: the old session is cut and its successor opened.
Trades(k) ==
  LET old == auth[k].row
      n == Len(sessions) + 1
  IN  /\ auth[k].pc = "rotate" /\ old \in DOMAIN sessions
      /\ DOMAIN sessions' = DOMAIN sessions \cup {n} /\ n \notin DOMAIN sessions
      /\ \A t \in DOMAIN sessions :
           sessions'[t].revokedAt = IF t = old THEN clock ELSE sessions[t].revokedAt
      /\ sessions'[n].via = "rotation" /\ sessions'[n].proof = old
      /\ sessions'[n].login = sessions[old].login
      /\ auth'[k].pc = "done" /\ auth'[k].out.kind = "TOKENS"
      /\ clock' = clock

\* Rotation in one transaction: the successor carries on its chain.
LEMMA TokenRotated ==
  ASSUME Rows, CallsOK, NEW k \in AuthCalls, Rotate(k)
  PROVE  Steps(k) /\ Trades(k)
<1> DEFINE old == auth[k].row
           n == Len(sessions) + 1
           s == sessions[old]
           cut == [sessions EXCEPT ![old].revokedAt = clock]
           new == NewSession(s.userId, "rotation", old, s.login, s.knew)
<1>1. /\ sessions \in Seq(SessionRow) /\ clock \in Nat /\ REFRESH_TTL \in Nat /\ ACCESS_TTL \in Nat
      /\ MaxRows \in Nat
  BY AuthAssumption DEF Rows, AuthStoreTypeOK
<1>2. /\ auth[k].pc = "rotate" /\ old \in DOMAIN sessions /\ old \in Nat
      /\ \A t \in DOMAIN sessions : sessions[t] \in SessionRow
  BY <1>1, CallFinds, ElementOfSeq, LenProperties DEF Rotate, CallOK, AtToken
<1>3. /\ s \in SessionRow /\ s.userId \in People /\ s.login \in DOMAIN sessions /\ s.login \in Nat
      /\ s.knew \in Passwords \cup {Null} /\ SessionOK(old)
  BY <1>2 DEF Rows, SessionOK, SessionRow
<1>4. /\ new \in SessionRow /\ new.userId = s.userId /\ new.via = "rotation" /\ new.proof = old
      /\ new.login = s.login /\ new.revokedAt = Null
  <2> HIDE DEF s, old
  <2>1. new \in SessionRow
    <3>1. /\ s.userId \in People /\ s.login \in Nat /\ s.knew \in Passwords \cup {Null} /\ old \in Nat
          /\ clock + REFRESH_TTL \in Nat /\ clock + ACCESS_TTL \in Nat
      BY <1>1, <1>2, <1>3
    <3> QED BY ONLY <3>1 DEF NewSession, SessionRow, new
  <2>2. /\ new.userId = s.userId /\ new.via = "rotation" /\ new.proof = old
        /\ new.login = s.login /\ new.revokedAt = Null
    BY DEF NewSession
  <2> QED BY <2>1, <2>2
<1>5. /\ cut = [t \in DOMAIN sessions |-> cut[t]]
      /\ \A t \in DOMAIN sessions :
           /\ cut[t] \in SessionRow
           /\ cut[t].userId = sessions[t].userId /\ cut[t].via = sessions[t].via
           /\ cut[t].proof = sessions[t].proof /\ cut[t].login = sessions[t].login
           /\ cut[t].revokedAt = IF t = old THEN clock ELSE sessions[t].revokedAt
  <2>1. PICK row : row = [s EXCEPT !.revokedAt = clock]
    OBVIOUS
  <2>2. sessions = [t \in DOMAIN sessions |-> sessions[t]]
    BY <1>1, LenProperties
  <2> HIDE DEF s, old
  <2>3. row \in SessionRow
    BY <1>1, <1>3, <2>1 DEF SessionRow
  <2>4. /\ row.userId = s.userId /\ row.via = s.via /\ row.proof = s.proof /\ row.login = s.login
        /\ row.revokedAt = clock
    BY <1>3, <2>1 DEF SessionRow
  <2>5. cut = [sessions EXCEPT ![old] = row]
    BY <2>1 DEF s
  <2> HIDE DEF cut
  <2>6. \A t \in DOMAIN sessions : cut[t] = IF t = old THEN row ELSE sessions[t]
    BY <1>2, <2>5
  <2>7. cut = [t \in DOMAIN sessions |-> cut[t]]
    BY <2>2, <2>5
  <2> QED BY <1>2, <2>3, <2>4, <2>6, <2>7 DEF s
<1>6. sessions' = Append(cut, new) /\ n <= MaxRows
  BY DEF Rotate
<1>7. UNCHANGED <<account, linked, codes, links, devices, audit, clock>>
  BY DEF Rotate
<1> HIDE DEF cut, new
<1>8. cut \in Seq(SessionRow) /\ Len(cut) = Len(sessions) /\ DOMAIN cut = DOMAIN sessions
  BY <1>1, <1>5, RowsInPlace
<1>9. /\ sessions' \in Seq(SessionRow) /\ Len(sessions') = n /\ n \notin DOMAIN sessions
      /\ DOMAIN sessions' = DOMAIN sessions \cup {n} /\ sessions'[n] = new
      /\ \A t \in DOMAIN sessions : sessions'[t] = cut[t]
      /\ Len(sessions) \in Nat
  BY <1>4, <1>6, <1>8, RowAppended
<1>10. Grown
  BY <1>5, <1>7, <1>9 DEF Grown
<1>11. AuthStoreTypeOK' /\ KeepsWays
  BY <1>7, <1>9 DEF Rows, AuthStoreTypeOK, KeepsWays, Stands
<1>12. PICK x : x = n
  OBVIOUS
<1>13. SessionOK(x)'
  <2>1. PICK f : f = s.login
    OBVIOUS
  <2>2. /\ f \in DOMAIN sessions /\ sessions[f].userId = s.userId
        /\ Vouched(sessions[f].via, sessions[f].proof, s.userId)
    BY <1>3, <2>1 DEF SessionOK
  <2>3. PICK via, p, u : via = sessions[f].via /\ p = sessions[f].proof /\ u = s.userId
    OBVIOUS
  <2>4. Vouched(via, p, u)'
    BY <1>10, <2>2, <2>3, VouchersStand
  <2>5. /\ sessions'[x].login = f /\ sessions'[x].userId = u /\ sessions'[x].via = "rotation"
        /\ sessions'[x].revokedAt = Null
    BY <1>4, <1>9, <1>12, <2>1, <2>3
  <2>6. /\ f \in DOMAIN sessions' /\ sessions'[f].userId = u /\ sessions'[f].via = via
        /\ sessions'[f].proof = p
    BY <1>10, <2>2, <2>3 DEF Grown
  <2> QED BY <2>4, <2>5, <2>6 DEF SessionOK, Vouched, Answered, Remembers
<1>14. Rows'
  <2>1. \A t \in DOMAIN sessions' \ DOMAIN sessions : SessionOK(t)'
    <3> SUFFICES ASSUME NEW t \in DOMAIN sessions' \ DOMAIN sessions PROVE SessionOK(t)'
      OBVIOUS
    <3> t = x
      BY <1>9, <1>12
    <3> QED BY <1>13 DEF SessionOK, Vouched, Answered, Remembers
  <2>2. \A t \in DOMAIN sessions : sessions'[t].revokedAt \in {sessions[t].revokedAt, clock}
    BY <1>5, <1>9
  <2> QED BY <1>1, <1>6, <1>7, <1>9, <1>10, <1>11, <2>1, <2>2, RowsAdded
<1>15. AnswerOK(Answer("TOKENS", x, 0))'
  BY <1>9, <1>12 DEF AnswerOK, AnswerRow, Answer, Answers
<1>16. End(k, Answer("TOKENS", x, 0))
  BY <1>12 DEF Rotate
<1>17. PICK c : CallOK(c)' /\ auth' = [auth EXCEPT ![k] = c] /\ c.pc = "done"
                /\ c.out = Answer("TOKENS", x, 0)
  BY <1>15, <1>16, AnswerEnds
<1>18. CallsOK' /\ auth'[k] = c /\ \A j \in AuthCalls \ {k} : auth'[j] = auth[j]
  BY <1>10, <1>17, CallReplaced
<1>19. c.out.kind = "TOKENS"
  BY <1>17 DEF Answer
<1>20. DoorStep(k)
  <2>1. \A t \in DOMAIN sessions' \ DOMAIN sessions : t = n /\ sessions'[t].via = "rotation"
    BY <1>4, <1>9
  <2> QED BY <1>17, <1>18, <2>1 DEF DoorStep, Holds, Resets, AtPassword
<1>21. Trades(k)
  <2> HIDE DEF old, n
  <2>1. /\ auth'[k].pc = "done" /\ auth'[k].out.kind = "TOKENS"
    BY <1>17, <1>18, <1>19
  <2> QED BY <1>2, <1>4, <1>5, <1>7, <1>9, <2>1 DEF Trades, old, n
<1> QED BY <1>10, <1>11, <1>14, <1>18, <1>20, <1>21 DEF Steps

\* Every step a call takes once it has begun.
LEMMA CallServed ==
  ASSUME Rows, CallsOK, NEW k \in AuthCalls, Serve(k)
  PROVE  Steps(k) /\ (Calm(k) \/ Trades(k)) /\ auth[k].pc \notin Resting
<1>1. auth[k].pc \notin Resting
  BY DEF Serve, Resting, Trust, Cooldown, BurnCodes, CreateCode, FindCandidate, ClaimCode,
         OpenSession, RememberDevice, InsertAccount, FindAddress, OpenAccount, Rotate,
         CutReplayed, RevokeSession, BurnLinks, CreateLink, ClaimLink, SetPassword, CutSessions,
         ForgetDevices
<1>2. CASE \/ Trust(k) \/ Cooldown(k) \/ BurnCodes(k) \/ FindCandidate(k) \/ FindAddress(k)
           \/ BurnLinks(k)
  BY <1>1, <1>2, ReadingSteps
<1>3. CASE \/ CreateCode(k) \/ CreateLink(k) \/ ClaimCode(k) \/ ClaimLink(k) \/ OpenSession(k)
           \/ RememberDevice(k)
  BY <1>1, <1>3, CodeCreated, LinkCreated, CodeClaimed, LinkClaimed, SessionOpened,
     DeviceRemembered
<1>4. CASE InsertAccount(k) \/ OpenAccount(k) \/ SetPassword(k) \/ ForgetDevices(k)
  BY <1>1, <1>4, AccountInserted, AccountOpened, PasswordSet, DevicesForgotten
<1>5. CASE CutReplayed(k) \/ RevokeSession(k) \/ CutSessions(k)
  BY <1>1, <1>5, SessionsCut
<1>6. CASE Rotate(k)
  BY <1>1, <1>6, TokenRotated
<1> QED BY <1>2, <1>3, <1>4, <1>5, <1>6 DEF Serve

-----------------------------------------------------------------------------
(***************************************************************************)
(* Codes, links and ways in, from step to step                             *)
(***************************************************************************)
\* A claimed code or link stays with the call that claimed it.
LEMMA DoorsKept ==
  ASSUME Rows, CallsOK, Doors, NEW k \in AuthCalls, Steps(k)
  PROVE  Doors'
<1>1. Grown /\ DoorStep(k)
  BY DEF Steps
<1>2. \A t \in DOMAIN sessions : sessions[t].via = "code" => /\ sessions[t].proof \in DOMAIN codes
                                                             /\ codes[sessions[t].proof].used
  <2> SUFFICES ASSUME NEW t \in DOMAIN sessions, sessions[t].via = "code"
               PROVE  sessions[t].proof \in DOMAIN codes /\ codes[sessions[t].proof].used
    OBVIOUS
  <2>1. sessions[t].login = t /\ Vouched(sessions[t].via, sessions[t].proof, sessions[t].userId)
    BY DEF Rows, SessionOK
  <2> QED BY <2>1 DEF Vouched, Answered
<1>3. \A j \in AuthCalls : Holds(j) => auth[j].row \in DOMAIN codes /\ codes[auth[j].row].used
  BY DEF CallsOK, CallOK, Holds, Vouched, Answered
<1>4. \A j \in AuthCalls : Resets(j) => auth[j].row \in DOMAIN links /\ links[auth[j].row].used
  BY DEF CallsOK, CallOK, Resets
<1>5. \A t \in DOMAIN sessions :
        sessions'[t].via = sessions[t].via /\ sessions'[t].proof = sessions[t].proof
  BY <1>1 DEF Grown
<1>6. /\ \A j \in AuthCalls \ {k} : (Holds(j)' <=> Holds(j)) /\ (Resets(j)' <=> Resets(j))
                                    /\ auth'[j].row = auth[j].row
  BY <1>1 DEF DoorStep, Holds, Resets
<1>7. ASSUME NEW s \in DOMAIN sessions', NEW t \in DOMAIN sessions', s # t,
             sessions'[s].via = "code", sessions'[t].via = "code"
      PROVE  sessions'[s].proof # sessions'[t].proof
  <2>1. CASE s \in DOMAIN sessions /\ t \in DOMAIN sessions
    BY <1>5, <1>7, <2>1 DEF Doors
  <2>2. CASE s \in DOMAIN sessions /\ t \notin DOMAIN sessions
    BY <1>1, <1>5, <1>7, <2>2 DEF Doors, DoorStep
  <2>3. CASE s \notin DOMAIN sessions /\ t \in DOMAIN sessions
    BY <1>1, <1>5, <1>7, <2>3 DEF Doors, DoorStep
  <2>4. CASE s \notin DOMAIN sessions /\ t \notin DOMAIN sessions
    BY <1>1, <1>7, <2>4 DEF DoorStep
  <2> QED BY <2>1, <2>2, <2>3, <2>4
<1>8. ASSUME NEW j \in AuthCalls, NEW t \in DOMAIN sessions', Holds(j)', sessions'[t].via = "code"
      PROVE  sessions'[t].proof # auth'[j].row
  <2>1. CASE t \in DOMAIN sessions
    <3>1. CASE j = k
      BY <1>1, <1>2, <1>5, <1>8, <2>1, <3>1 DEF Doors, DoorStep
    <3>2. CASE j # k
      BY <1>5, <1>6, <1>8, <2>1, <3>2 DEF Doors
    <3> QED BY <3>1, <3>2
  <2>2. CASE t \notin DOMAIN sessions
    <3>1. Holds(k) /\ sessions'[t].proof = auth[k].row /\ ~Holds(k)'
      BY <1>1, <1>8, <2>2 DEF DoorStep
    <3>2. j # k /\ Holds(j) /\ auth'[j].row = auth[j].row
      BY <1>6, <1>8, <3>1
    <3> QED BY <3>1, <3>2 DEF Doors
  <2> QED BY <2>1, <2>2
<1>9. ASSUME NEW i \in AuthCalls, NEW j \in AuthCalls, i # j, Holds(i)', Holds(j)'
      PROVE  auth'[i].row # auth'[j].row
  <2>1. ASSUME NEW x \in AuthCalls, x # k, Holds(x)', Holds(k)' PROVE auth'[x].row # auth'[k].row
    BY <1>1, <1>3, <1>6, <2>1 DEF Doors, DoorStep
  <2> QED BY <1>6, <1>9, <2>1 DEF Doors
<1>10. ASSUME NEW i \in AuthCalls, NEW j \in AuthCalls, i # j, Resets(i)', Resets(j)'
       PROVE  auth'[i].row # auth'[j].row
  <2>1. ASSUME NEW x \in AuthCalls, x # k, Resets(x)', Resets(k)' PROVE auth'[x].row # auth'[k].row
    BY <1>1, <1>4, <1>6, <2>1 DEF Doors, DoorStep
  <2> QED BY <1>6, <1>10, <2>1 DEF Doors
<1> QED BY <1>7, <1>8, <1>9, <1>10 DEF Doors

\* An identity is linked only to an account that did not exist before.
LEMMA WaysKept ==
  ASSUME Rows, WaysIn, KeepsWays
  PROVE  WaysIn'
<1>0. /\ linked \in [Identities -> People \cup {Null}]
      /\ Null \notin People
  BY AuthAssumption DEF Rows, AuthStoreTypeOK
<1>1. CASE linked' = linked /\ \A u \in People : Stands(u)
  BY <1>1 DEF WaysIn, Stands, OneWayIn
<1>2. CASE linked' = linked /\ \E u \in People : Opens(u, Null)
  <2>1. PICK u \in People : Opens(u, Null)
    BY <1>2
  <2>2. account'[u].ways = {Null} /\ \A j \in Identities : linked'[j] # u
    BY <1>2, <2>1 DEF WaysIn, Opens
  <2>3. ASSUME NEW p \in People, p # u
        PROVE  /\ account'[p].ways = account[p].ways
               /\ account'[p].status = "NONE" => account[p].status = "NONE"
    BY <2>1, <2>3 DEF Opens, Stands
  <2> QED BY <1>2, <2>1, <2>2, <2>3 DEF WaysIn, OneWayIn, Opens
<1>3. ASSUME NEW i \in Identities, NEW u \in People,
             linked' = [linked EXCEPT ![i] = u], Opens(u, i)
      PROVE  WaysIn'
  <2>1. account'[u].ways = {i} /\ \A j \in Identities : linked[j] # u
    BY <1>3 DEF WaysIn, Opens
  <2>2. \A j \in Identities : linked'[j] = IF j = i THEN u ELSE linked[j]
    BY <1>0, <1>3
  <2>3. ASSUME NEW p \in People, p # u
        PROVE  /\ account'[p].ways = account[p].ways
               /\ account'[p].status = "NONE" => account[p].status = "NONE"
               /\ \A j \in Identities : linked'[j] = p => linked[j] = p
    BY <1>3, <2>2, <2>3 DEF Opens, Stands
  <2> QED BY <1>3, <2>1, <2>2, <2>3 DEF WaysIn, OneWayIn, Opens
<1> QED BY <1>1, <1>2, <1>3 DEF KeepsWays, Stands

\* Calls that are let go of, and nothing else.
Drops ==
  /\ UNCHANGED authStoreVars
  /\ auth' = [k \in AuthCalls |-> auth'[k]]
  /\ \A k \in AuthCalls : auth'[k] \in {auth[k], IdleAuth}

\* Letting go of calls takes nothing away.
LEMMA DropsKeep ==
  ASSUME Rows, CallsOK, Doors, WaysIn, Drops
  PROVE  Grown /\ Rows' /\ CallsOK' /\ Doors' /\ WaysIn'
<1>1. /\ Grown /\ Rows' /\ KeepsWays /\ sessions' = sessions
      /\ \A c : CallOK(c) => CallOK(c)'
  BY RowsAlone DEF Drops
<1>2. ASSUME NEW k \in AuthCalls PROVE CallOK(auth[k])' /\ auth'[k] \in Call
  <2>1. PICK c : c = auth'[k]
    OBVIOUS
  <2>2. CallOK(c)
    BY <2>1, IdleIsOK DEF Drops, CallsOK
  <2>3. CallOK(c)'
    BY <1>1, <2>2
  <2> QED BY <2>1, <2>2, <2>3 DEF CallOK, Vouched, Answered, Remembers, AnswerOK
<1>3. CallsOK'
  BY <1>2 DEF CallsOK, Drops
<1>4. \A k \in AuthCalls : /\ Holds(k)' => Holds(k) /\ auth'[k].row = auth[k].row
                           /\ Resets(k)' => Resets(k) /\ auth'[k].row = auth[k].row
  BY IdleIsOK DEF Drops, Holds, Resets, AtPassword
<1>5. Doors'
  BY <1>1, <1>4 DEF Doors
<1> QED BY <1>1, <1>3, <1>5, WaysKept

\* Time passes.
LEMMA TimePasses ==
  ASSUME Rows, CallsOK, Doors, WaysIn, PassTime, UNCHANGED auth
  PROVE  Grown /\ Rows' /\ CallsOK' /\ Doors' /\ WaysIn'
<1>1. /\ clock \in 0 .. MaxTime /\ MaxTime \in Nat /\ clock < MaxTime /\ clock' = clock + 1
      /\ UNCHANGED <<account, linked, sessions, codes, links, devices, audit>>
  BY AuthAssumption DEF Rows, AuthStoreTypeOK, PassTime
<1>2. Grown
  BY <1>1, UnchangedGrown
<1>3. AuthStoreTypeOK'
  BY <1>1 DEF Rows, AuthStoreTypeOK
<1>4. Rows'
  BY <1>1, <1>2, <1>3, RowsAdded DEF Rows
<1>5. ASSUME NEW k \in AuthCalls PROVE CallOK(auth[k])'
  <2>1. PICK c : c = auth[k]
    OBVIOUS
  <2>2. CallOK(c)'
    BY <1>2, <2>1, CallsStand DEF CallsOK
  <2> QED BY <2>1, <2>2 DEF CallOK, Vouched, Answered, Remembers, AnswerOK
<1>6. CallsOK'
  BY <1>5 DEF CallsOK
<1>7. Doors' /\ KeepsWays
  BY <1>1 DEF Doors, Holds, Resets, KeepsWays, Stands
<1> QED BY <1>2, <1>4, <1>6, <1>7, WaysKept

-----------------------------------------------------------------------------
(***************************************************************************)
(* The web process                                                         *)
(***************************************************************************)

\* What a read finds.
LEMMA ReadFinds ==
  ASSUME WellFormed, NEW r \in Reads
  PROVE  /\ ReadOK(read[r]) /\ read[r] \in ReadRow /\ read \in [Reads -> ReadRow] /\ r \in AuthCalls
         /\ read[r].hops \in Nat /\ read[r].token \in Nat /\ read[r].fetch \in BOOLEAN
         /\ read[r].pc # "idle" => read[r].browser \in Browsers /\ read[r].token \in DOMAIN sessions
         /\ spent \in [1 .. MaxRows -> Memory]
         /\ \A t \in DOMAIN sessions : t \in 1 .. MaxRows /\ t \in Nat
         /\ MAX_HOPS \in Nat /\ GRACE_MS \in Nat /\ clock \in Nat /\ faults \in Nat
<1>1. ReadOK(read[r]) /\ read[r] \in ReadRow /\ read \in [Reads -> ReadRow]
  BY DEF WellFormed, ReadsOK, ReadOK
<1>2. sessions \in Seq(SessionRow) /\ Len(sessions) <= MaxRows /\ MaxRows \in Nat
  BY AuthAssumption DEF WellFormed, Rows, AuthStoreTypeOK
<1>3. \A t \in DOMAIN sessions : t \in 1 .. MaxRows /\ t \in Nat
  BY <1>2, LenProperties
<1>4. read[r].hops \in Nat /\ read[r].token \in Nat /\ read[r].fetch \in BOOLEAN
  BY <1>1 DEF ReadRow
<1>5. clock \in Nat
  BY AuthAssumption DEF WellFormed, Rows, AuthStoreTypeOK
<1> QED BY <1>1, <1>3, <1>4, <1>5, RenewalAssumption DEF ReadOK, WellFormed, ReadsOK

\* One read moves on, and may mark a token as on its way.
LEMMA ReadReplaced ==
  ASSUME WellFormed, NEW r \in Reads, UNCHANGED authStoreVars, UNCHANGED <<attempt, faults>>,
         NEW x, ReadOK(x), read' = [read EXCEPT ![r] = x],
         \/ UNCHANGED spent
         \/ \E t \in DOMAIN sessions : spent' = [spent EXCEPT ![t] = [became |-> -1, until |-> 0]]
  PROVE  ReadsOK'
<1>1. sessions' = sessions
  BY DEF authStoreVars
<1>2. x \in ReadRow
  BY DEF ReadOK
<1>3. read' \in [Reads -> ReadRow] /\ \A q \in Reads : read'[q] = IF q = r THEN x ELSE read[q]
  BY <1>2 DEF WellFormed, ReadsOK
<1>4. ASSUME NEW q \in Reads PROVE ReadOK(read[q])'
  <2>1. ReadOK(IF q = r THEN x ELSE read[q])
    BY DEF WellFormed, ReadsOK
  <2> QED BY <1>1, <1>3, <2>1 DEF ReadOK
<1>5. spent \in [1 .. MaxRows -> Memory] /\ \A t \in DOMAIN sessions : t \in 1 .. MaxRows
  BY ReadFinds
<1>6. ASSUME NEW t \in DOMAIN sessions, spent' = [spent EXCEPT ![t] = [became |-> -1, until |-> 0]]
      PROVE  /\ spent' \in [1 .. MaxRows -> Memory]
             /\ \A s \in 1 .. MaxRows : spent'[s].became \in {-1, 0} \cup DOMAIN sessions'
  <2> DEFINE gone == [became |-> -1, until |-> 0]
  <2>1. gone \in Memory /\ gone.became = -1
    BY DEF Memory
  <2>2. spent' = [spent EXCEPT ![t] = gone]
    BY <1>6
  <2> HIDE DEF gone
  <2>3. /\ spent' \in [1 .. MaxRows -> Memory]
        /\ \A s \in 1 .. MaxRows : spent'[s] = IF s = t THEN gone ELSE spent[s]
    BY <1>5, <2>1, <2>2
  <2> QED BY <1>1, <2>1, <2>3 DEF WellFormed, ReadsOK
<1>7. CASE UNCHANGED spent
  BY <1>1, <1>3, <1>4, <1>5, <1>7 DEF WellFormed, ReadsOK
<1> QED BY <1>3, <1>4, <1>6, <1>7 DEF WellFormed, ReadsOK

\* A read moves on without starting a refresh or waiting for one it started.
Moves(r) ==
  /\ read[r].pc # "call" /\ read'[r].pc # "call"
  /\ \A q \in Reads \ {r} : read'[q] = read[q]
  /\ UNCHANGED <<auth, authStoreVars, spent, faults>>

\* A read starts the refresh of a token nobody remembers.
Launches(r, t) ==
  /\ read[r].pc # "call" /\ read'[r].pc = "call" /\ read'[r].token = t
  /\ \A q \in Reads \ {r} : read'[q] = read[q]
  /\ spent[t].became = 0 /\ spent' = [spent EXCEPT ![t] = [became |-> -1, until |-> 0]]
  /\ Refreshes(r, t) /\ UNCHANGED faults

\* follow: the read moves on, or launches the refresh.
LEMMA FollowKeeps ==
  ASSUME WellFormed, NEW r \in Reads, read[r].pc # "call", NEW call \in ReadRow,
         call.browser \in Browsers, NEW t \in DOMAIN sessions, NEW hops \in Nat,
         follow(r, call, t, hops), UNCHANGED <<attempt, faults>>
  PROVE  ReadsOK' /\ (Moves(r) \/ Launches(r, t)) /\ UNCHANGED authStoreVars
<1>1. /\ read \in [Reads -> ReadRow] /\ t \in 1 .. MaxRows /\ t \in Nat
      /\ spent[t].became \in {-1, 0} \cup DOMAIN sessions
      /\ \A s \in DOMAIN sessions : s \in Nat
  BY ReadFinds DEF WellFormed, ReadsOK
<1>2. CASE Remembered(t)
  <2> DEFINE became == spent[t].became
             x == IF became > 0
                  THEN [call EXCEPT !.pc = "got", !.outcome = "renewed", !.token = became,
                                    !.hops = hops]
                  ELSE [call EXCEPT !.pc = "wait", !.token = t, !.hops = hops]
  <2>1. read' = [read EXCEPT ![r] = x] /\ UNCHANGED <<auth, authStoreVars, spent>>
    BY <1>2 DEF follow
  <2>2. became > 0 => became \in DOMAIN sessions /\ became \in Nat
    BY <1>1
  <2> HIDE DEF became
  <2>3. /\ x \in ReadRow /\ x.pc \in {"got", "wait"} /\ x.browser = call.browser
        /\ x.token \in DOMAIN sessions
    BY <1>1, <2>2 DEF ReadRow
  <2> HIDE DEF x
  <2>4. ReadOK(x)
    BY <2>3 DEF ReadOK
  <2>5. read'[r] = x /\ \A q \in Reads \ {r} : read'[q] = read[q]
    BY <1>1, <2>1
  <2>6. Moves(r)
    BY <2>1, <2>3, <2>5 DEF Moves
  <2> QED BY <2>1, <2>4, <2>6, ReadReplaced
<1>3. CASE ~Remembered(t)
  <2> DEFINE x == [call EXCEPT !.pc = "call", !.token = t, !.hops = 0]
  <2>1. /\ read' = [read EXCEPT ![r] = x] /\ BeginRefresh(r, t)
        /\ spent' = [spent EXCEPT ![t] = [became |-> -1, until |-> 0]] /\ spent[t].became = 0
    BY <1>3 DEF follow, Remembered
  <2>2. /\ x \in ReadRow /\ x.pc = "call" /\ x.browser = call.browser /\ x.token = t
    BY <1>1 DEF ReadRow
  <2> HIDE DEF x
  <2>3. ReadOK(x)
    BY <2>2 DEF ReadOK
  <2>4. Refreshes(r, t)
    BY <1>1, <2>1, RefreshStarts
  <2>5. UNCHANGED authStoreVars
    BY <2>4 DEF Refreshes, Takes
  <2>6. read'[r] = x /\ \A q \in Reads \ {r} : read'[q] = read[q]
    BY <1>1, <2>1
  <2>7. Launches(r, t)
    BY <2>1, <2>2, <2>4, <2>6 DEF Launches
  <2> QED BY <2>1, <2>3, <2>5, <2>7, ReadReplaced
<1> QED BY <1>2, <1>3

\* A read that has not begun is well formed.
LEMMA IdleReadIsOK == ReadOK(IdleRead) /\ IdleRead.pc = "idle" /\ IdleRead \in ReadRow
BY DEF ReadOK, IdleRead, ReadRow

\* The steps a read takes by itself.
ReadSteps(r) ==
  /\ ReadsOK' /\ PagesOK' /\ UNCHANGED authStoreVars
  /\ Moves(r) \/ \E t \in DOMAIN sessions : Launches(r, t)

\* Pages and cookies nobody touches stay well formed.
LEMMA PagesAlone ==
  ASSUME PagesOK, Grown, UNCHANGED <<jar, page>>
  PROVE  PagesOK'
<1>1. ASSUME NEW b \in Browsers PROVE JarOK(jar[b])' /\ PageOK(page[b])'
  <2>1. PICK c : c = jar[b]
    OBVIOUS
  <2>2. JarOK(c)'
    BY <2>1, JarsStand DEF PagesOK
  <2> QED BY <2>1, <2>2 DEF PagesOK, JarOK, PageOK
<1> QED BY <1>1 DEF PagesOK

\* The jwt callback.
LEMMA JwtSteps ==
  ASSUME WellFormed, NEW r \in Reads, NEW b \in Browsers, NEW fetch \in BOOLEAN, jwt(r, b, fetch)
  PROVE  ReadSteps(r)
<1> DEFINE t == jar[b].session
           call == [IdleRead EXCEPT !.browser = b, !.fetch = fetch]
<1>1. t \in DOMAIN sessions
  BY DEF jwt, WellFormed, PagesOK, JarOK
<1>2. call \in ReadRow /\ call.browser = b
  BY IdleReadIsOK DEF ReadRow
<1>3. /\ read[r].pc = "idle" /\ UNCHANGED <<jar, page, attempt, faults>> /\ PagesOK
      /\ read \in [Reads -> ReadRow] /\ t \in Nat
  BY <1>1, ReadFinds DEF jwt, WellFormed
<1>4. ReadsOK' /\ UNCHANGED authStoreVars /\ (Moves(r) \/ Launches(r, t))
  <2>1. CASE follow(r, call, t, MAX_HOPS)
    <3> HIDE DEF call, t
    <3> QED BY <1>1, <1>2, <1>3, <2>1, FollowKeeps, ReadFinds
  <2>2. CASE /\ read' = [read EXCEPT ![r] = [call EXCEPT !.pc = "send", !.token = t]]
             /\ UNCHANGED <<auth, authStoreVars, spent>>
    <3> DEFINE x == [call EXCEPT !.pc = "send", !.token = t]
    <3> HIDE DEF call, t
    <3>1. x \in ReadRow /\ x.pc = "send" /\ x.browser = b /\ x.token = t
      BY <1>2, <1>3 DEF ReadRow
    <3>2. read' = [read EXCEPT ![r] = x]
      BY <2>2
    <3> HIDE DEF x
    <3>3. ReadOK(x) /\ read'[r] = x /\ \A q \in Reads \ {r} : read'[q] = read[q]
      BY <1>1, <1>3, <3>1, <3>2 DEF ReadOK
    <3>4. Moves(r)
      BY <1>3, <2>2, <3>1, <3>3 DEF Moves
    <3> QED BY <1>3, <2>2, <3>2, <3>3, <3>4, ReadReplaced
  <2> QED BY <2>1, <2>2 DEF jwt
<1>5. Grown
  BY <1>4, UnchangedGrown DEF authStoreVars
<1> QED BY <1>1, <1>3, <1>4, <1>5, PagesAlone DEF ReadSteps

\* A remembered pair that went stale is traded on.
LEMMA CatchUpSteps ==
  ASSUME WellFormed, NEW r \in Reads, catchUp(r)
  PROVE  ReadSteps(r)
<1> DEFINE call == [read[r] EXCEPT !.outcome = Null]
           t == read[r].token
           hops == read[r].hops - 1
<1>1. /\ read[r] \in ReadRow /\ read[r].pc = "got" /\ read[r].browser \in Browsers
      /\ t \in DOMAIN sessions /\ hops \in Nat
  BY ReadFinds DEF catchUp, Stale
<1>2. call \in ReadRow /\ call.browser = read[r].browser
  BY <1>1 DEF ReadRow
<1>3. /\ UNCHANGED <<jar, page, attempt, faults>> /\ PagesOK /\ follow(r, call, t, hops)
  BY DEF catchUp, WellFormed
<1> HIDE DEF call, t, hops
<1>4. ReadsOK' /\ UNCHANGED authStoreVars /\ (Moves(r) \/ Launches(r, t))
  BY <1>1, <1>2, <1>3, FollowKeeps
<1>5. Grown
  BY <1>4, UnchangedGrown DEF authStoreVars
<1> QED BY <1>1, <1>3, <1>4, <1>5, PagesAlone DEF ReadSteps

\* An API request goes out, and once more after a 401.
LEMMA ApiFetchSteps ==
  ASSUME WellFormed, NEW r \in Reads, apiFetch(r)
  PROVE  ReadSteps(r)
<1> DEFINE t == read[r].token
           b == read[r].browser
           now == jar[b].session
           again == [IdleRead EXCEPT !.browser = b, !.fetch = TRUE, !.sent = t]
<1>1. /\ read[r] \in ReadRow /\ read[r].pc = "send" /\ b \in Browsers
      /\ t \in DOMAIN sessions /\ t \in Nat /\ read \in [Reads -> ReadRow] /\ MAX_HOPS \in Nat
  BY ReadFinds DEF apiFetch
<1>2. now # 0 => now \in DOMAIN sessions /\ now \in Nat
  <2>1. now # 0 => now \in DOMAIN sessions
    BY <1>1 DEF WellFormed, PagesOK, JarOK
  <2> QED BY <2>1, ReadFinds
<1>3. again \in ReadRow /\ again.browser = b
  BY <1>1, IdleReadIsOK DEF ReadRow
<1>4. UNCHANGED <<jar, page, attempt, faults>> /\ PagesOK
  BY DEF apiFetch, WellFormed
<1>5. ASSUME NEW x \in ReadRow, ReadOK(x), x.pc # "call", read' = [read EXCEPT ![r] = x],
             UNCHANGED <<auth, authStoreVars, spent>>
      PROVE  ReadsOK' /\ UNCHANGED authStoreVars /\ Moves(r)
  <2>1. read'[r] = x /\ \A q \in Reads \ {r} : read'[q] = read[q]
    BY <1>1, <1>5
  <2>2. Moves(r)
    BY <1>1, <1>4, <1>5, <2>1 DEF Moves
  <2> QED BY <1>4, <1>5, <2>2, ReadReplaced
<1>6. ReadsOK' /\ UNCHANGED authStoreVars /\ (Moves(r) \/ \E s \in DOMAIN sessions : Launches(r, s))
  <2>1. CASE read' = [read EXCEPT ![r] = IdleRead] /\ UNCHANGED <<auth, authStoreVars, spent>>
    BY <1>5, <2>1, IdleReadIsOK
  <2>2. CASE now # 0 /\ follow(r, again, now, MAX_HOPS)
    <3> HIDE DEF again, now
    <3> QED BY <1>1, <1>2, <1>3, <1>4, <2>2, FollowKeeps
  <2>3. CASE /\ now # 0 /\ read' = [read EXCEPT ![r] = [again EXCEPT !.pc = "send", !.token = now]]
             /\ UNCHANGED <<auth, authStoreVars, spent>>
    <3> DEFINE x == [again EXCEPT !.pc = "send", !.token = now]
    <3> HIDE DEF again, now
    <3>1. x \in ReadRow /\ x.pc = "send" /\ x.browser = b /\ x.token = now
      BY <1>2, <1>3, <2>3 DEF ReadRow
    <3>2. read' = [read EXCEPT ![r] = x] /\ UNCHANGED <<auth, authStoreVars, spent>>
      BY <2>3
    <3> HIDE DEF x
    <3>3. ReadOK(x)
      BY <1>1, <1>2, <2>3, <3>1 DEF ReadOK
    <3> QED BY <1>5, <3>1, <3>2, <3>3
  <2> QED BY <2>1, <2>2, <2>3 DEF apiFetch
<1>7. Grown
  BY <1>6, UnchangedGrown DEF authStoreVars
<1> QED BY <1>4, <1>6, <1>7, PagesAlone DEF ReadSteps

\* Everybody who waited for a token goes on with what came of it.
LEMMA SettleKeeps ==
  ASSUME WellFormed, UNCHANGED authStoreVars, UNCHANGED attempt, faults' \in Nat,
         NEW t \in DOMAIN sessions, NEW outcome \in {"renewed", "dead", "unreachable"},
         NEW became \in {0} \cup DOMAIN sessions, Settle(t, outcome, became),
         NEW m \in Memory, m.became \in {0} \cup DOMAIN sessions,
         spent' = [spent EXCEPT ![t] = m]
  PROVE  ReadsOK'
<1>1. sessions' = sessions /\ read \in [Reads -> ReadRow] /\ spent \in [1 .. MaxRows -> Memory]
  BY DEF authStoreVars, WellFormed, ReadsOK
<1>2. \A s \in DOMAIN sessions : s \in 1 .. MaxRows /\ s \in Nat
  <2>1. sessions \in Seq(SessionRow) /\ Len(sessions) <= MaxRows /\ MaxRows \in Nat
    BY AuthAssumption DEF WellFormed, Rows, AuthStoreTypeOK
  <2> QED BY <2>1, LenProperties
<1>3. ASSUME NEW r \in Reads PROVE ReadOK(read[r])' /\ read'[r] \in ReadRow
  <2> DEFINE old == read[r]
             next == IF became = 0 THEN t ELSE became
             x == [old EXCEPT !.pc = "got", !.outcome = outcome, !.token = next]
  <2>1. ReadOK(old) /\ old \in ReadRow
    BY DEF WellFormed, ReadsOK, ReadOK
  <2>2. next \in DOMAIN sessions /\ next \in Nat
    BY <1>2
  <2>3. read'[r] = IF old.token = t /\ old.pc \in {"call", "wait"} THEN x ELSE old
    BY DEF Settle
  <2> HIDE DEF next, old
  <2>4. x \in ReadRow /\ x.token = next /\ x.browser = old.browser
    BY <2>1, <2>2 DEF ReadRow
  <2> HIDE DEF x
  <2>5. CASE old.token = t /\ old.pc \in {"call", "wait"}
    <3>1. read'[r] = x /\ old.browser \in Browsers
      BY <2>1, <2>3, <2>5 DEF ReadOK
    <3> QED BY <1>1, <2>2, <2>4, <3>1 DEF ReadOK
  <2>6. CASE ~(old.token = t /\ old.pc \in {"call", "wait"})
    <3>1. read'[r] = old
      BY <2>3, <2>6
    <3> QED BY <1>1, <2>1, <3>1 DEF ReadOK
  <2> QED BY <2>5, <2>6
<1>4. read' \in [Reads -> ReadRow]
  BY <1>3 DEF Settle
<1>5. /\ spent' \in [1 .. MaxRows -> Memory]
      /\ \A s \in 1 .. MaxRows : spent'[s] = IF s = t THEN m ELSE spent[s]
  BY <1>1, <1>2
<1> QED BY <1>1, <1>3, <1>4, <1>5 DEF WellFormed, ReadsOK

\* A refresh is answered, or fails on its way.
LEMMA RefreshSettles ==
  ASSUME WellFormed, NEW r \in Reads, RefreshAnswered(r) \/ Unreachable(r) \/ AnswerCutOff(r)
  PROVE  /\ ReadsOK' /\ PagesOK' /\ Drops
         /\ RefreshAnswered(r) \/ faults' # 0
<1> DEFINE t == read[r].token
           answer == auth[r].out
           none == [became |-> 0, until |-> 0]
           kept == [became |-> answer.session, until |-> GraceUntil]
<1>1. /\ read[r].pc = "call" /\ t \in DOMAIN sessions /\ r \in AuthCalls /\ clock \in Nat
      /\ GRACE_MS \in Nat /\ faults \in Nat
  BY ReadFinds DEF RefreshAnswered, Unreachable, AnswerCutOff
<1>2. /\ UNCHANGED <<authStoreVars, jar, page, attempt>> /\ auth' = [auth EXCEPT ![r] = IdleAuth]
      /\ faults' \in Nat /\ (RefreshAnswered(r) \/ faults' # 0)
  BY <1>1 DEF RefreshAnswered, Unreachable, AnswerCutOff
<1>3. auth \in [AuthCalls -> Call] /\ CallOK(auth[r])
  BY <1>1 DEF WellFormed, CallsOK
<1>4. Drops
  BY <1>2, <1>3 DEF Drops
<1>5. none \in Memory /\ none.became = 0
  BY DEF Memory
<1>6. ReadsOK'
  <2>1. CASE RefreshAnswered(r) /\ answer.kind = "TOKENS"
    <3>1. answer.session \in DOMAIN sessions /\ answer.session \in Nat
      BY <1>3, <2>1 DEF RefreshAnswered, CallOK, AnswerOK, AnswerRow
    <3>2. kept \in Memory /\ kept.became = answer.session
      BY <1>1, <3>1 DEF Memory, GraceUntil
    <3>3. spent' = [spent EXCEPT ![t] = kept] /\ Settle(t, "renewed", answer.session)
      BY <2>1 DEF RefreshAnswered
    <3> HIDE DEF kept, t, answer
    <3> QED BY <1>1, <1>2, <3>1, <3>2, <3>3, SettleKeeps
  <2>2. CASE ~(RefreshAnswered(r) /\ answer.kind = "TOKENS")
    <3>1. /\ spent' = [spent EXCEPT ![t] = none]
          /\ \E outcome \in {"dead", "unreachable"} : Settle(t, outcome, 0)
      BY <2>2 DEF RefreshAnswered, Unreachable, AnswerCutOff
    <3> HIDE DEF none, t
    <3> QED BY <1>1, <1>2, <1>5, <3>1, SettleKeeps
  <2> QED BY <2>1, <2>2
<1>7. Grown
  BY <1>2, UnchangedGrown DEF authStoreVars
<1> QED BY <1>2, <1>4, <1>6, <1>7, PagesAlone DEF WellFormed

\* An answer reaches the browser, or is dropped on the way.
LEMMA DeliverySteps ==
  ASSUME WellFormed, NEW r \in Reads, Delivered(r) \/ AnswerDropped(r)
  PROVE  ReadSteps(r)
<1> DEFINE old == read[r]
           b == old.browser
<1>1. /\ old \in ReadRow /\ old.pc = "got" /\ b \in Browsers /\ old.token \in DOMAIN sessions
      /\ old.token \in Nat /\ read \in [Reads -> ReadRow]
  BY ReadFinds DEF Delivered, AnswerDropped
<1>2. UNCHANGED <<auth, authStoreVars, page, spent, attempt, faults>> /\ PagesOK
  BY DEF Delivered, AnswerDropped, WellFormed
<1>3. ASSUME NEW x \in ReadRow, ReadOK(x), x.pc # "call", read' = [read EXCEPT ![r] = x]
      PROVE  ReadsOK' /\ Moves(r)
  <2>1. read'[r] = x /\ \A q \in Reads \ {r} : read'[q] = read[q]
    BY <1>1, <1>3
  <2>2. Moves(r)
    BY <1>1, <1>2, <1>3, <2>1 DEF Moves
  <2> QED BY <1>2, <1>3, <2>2, ReadReplaced
<1>4. ReadsOK' /\ Moves(r)
  <2>1. CASE read' = [read EXCEPT ![r] = IdleRead]
    BY <1>3, <2>1, IdleReadIsOK
  <2>2. CASE read' = [read EXCEPT ![r] = [old EXCEPT !.pc = "send", !.outcome = Null]]
    <3> DEFINE x == [old EXCEPT !.pc = "send", !.outcome = Null]
    <3>0. read' = [read EXCEPT ![r] = x]
      BY <2>2
    <3> HIDE DEF old
    <3>1. x \in ReadRow /\ x.pc = "send" /\ x.browser = b /\ x.token = old.token
      BY <1>1 DEF ReadRow
    <3> HIDE DEF x
    <3>2. ReadOK(x)
      BY <1>1, <3>1 DEF ReadOK
    <3> QED BY <1>3, <3>0, <3>1, <3>2
  <2> QED BY <1>1, <2>1, <2>2 DEF Delivered, AnswerDropped
<1>5. PagesOK'
  <2>1. CASE AnswerDropped(r)
    <3>1. UNCHANGED jar /\ Grown
      BY <1>2, <2>1, UnchangedGrown DEF AnswerDropped, authStoreVars
    <3> QED BY <1>2, <3>1, PagesAlone
  <2>2. CASE Delivered(r)
    <3>1. JarOK(jar[b]) /\ page' = [page EXCEPT ![b] = page[b]] /\ PageOK(page[b])
      BY <1>1, <1>2, SameJar
    <3>2. jar' = [jar EXCEPT ![b] = Cookie(r)]
      BY <2>2 DEF Delivered
    <3>3. JarOK([jar[b] EXCEPT !.session = old.token, !.error = FALSE])
      BY <1>1, <3>1, CookiesKept
    <3>4. JarOK([jar[b] EXCEPT !.session = 0, !.error = TRUE])
      BY <1>1, <3>1, CookiesKept
    <3>5. JarOK(Cookie(r))
      BY <3>1, <3>3, <3>4 DEF Cookie
    <3> QED BY <1>1, <1>2, <3>1, <3>2, <3>5, PageTurned
  <2> QED BY <2>1, <2>2
<1> QED BY <1>2, <1>4, <1>5 DEF ReadSteps

\* The timer of a remembered token, a restart, and a browser that signs itself out.
LEMMA TimerKeeps ==
  ASSUME WellFormed, NEW t \in 1 .. MaxRows, ForgetSpent(t)
  PROVE  ReadsOK' /\ PagesOK' /\ UNCHANGED authStoreVars /\ UNCHANGED auth
<1> DEFINE none == [became |-> 0, until |-> 0]
<1>1. /\ UNCHANGED <<auth, authStoreVars, jar, page, read, attempt, faults>>
      /\ spent' = [spent EXCEPT ![t] = none]
  BY DEF ForgetSpent
<1>2. none \in Memory /\ none.became = 0
  BY DEF Memory
<1>3. sessions' = sessions /\ Grown
  BY <1>1, UnchangedGrown DEF authStoreVars
<1> HIDE DEF none
<1>4. /\ spent' \in [1 .. MaxRows -> Memory]
      /\ \A s \in 1 .. MaxRows : spent'[s] = IF s = t THEN none ELSE spent[s]
  BY <1>1, <1>2 DEF WellFormed, ReadsOK
<1>5. \A r \in Reads : ReadOK(read[r])'
  BY <1>1, <1>3 DEF WellFormed, ReadsOK, ReadOK
<1>6. ReadsOK'
  BY <1>1, <1>2, <1>3, <1>4, <1>5 DEF WellFormed, ReadsOK
<1> QED BY <1>1, <1>3, <1>6, PagesAlone DEF WellFormed

\* A restart of the web process.
LEMMA RestartKeeps ==
  ASSUME WellFormed, RestartWeb
  PROVE  ReadsOK' /\ PagesOK' /\ Drops /\ faults' # 0
<1> DEFINE none == [became |-> 0, until |-> 0]
<1>1. /\ UNCHANGED <<authStoreVars, jar, page, attempt>> /\ faults' = faults + 1 /\ faults \in Nat
      /\ spent' = [t \in 1 .. MaxRows |-> none] /\ read' = [r \in Reads |-> IdleRead]
      /\ auth' = [k \in AuthCalls |->
                    IF k \in Reads /\ auth[k].pc = "done" THEN IdleAuth ELSE auth[k]]
  BY DEF RestartWeb, WellFormed, ReadsOK
<1>2. none \in Memory /\ none.became = 0
  BY DEF Memory
<1>3. Drops
  BY <1>1 DEF Drops
<1>4. Grown
  BY <1>1, UnchangedGrown DEF authStoreVars
<1> HIDE DEF none
<1>5. \A r \in Reads : ReadOK(read[r])'
  BY <1>1, IdleReadIsOK DEF ReadOK
<1>6. ReadsOK'
  BY <1>1, <1>2, <1>5, IdleReadIsOK DEF WellFormed, ReadsOK
<1> QED BY <1>1, <1>3, <1>4, <1>6, PagesAlone DEF WellFormed

\* A browser signs itself out.
LEMMA WatchKeeps ==
  ASSUME WellFormed, NEW b \in Browsers, SessionWatch(b)
  PROVE  ReadsOK' /\ PagesOK' /\ UNCHANGED authStoreVars /\ UNCHANGED <<auth, read, spent, faults>>
<1>1. /\ UNCHANGED <<auth, authStoreVars, read, spent, faults>>
      /\ jar' = [jar EXCEPT ![b] = [jar[b] EXCEPT !.session = 0, !.error = FALSE]]
      /\ page' = [page EXCEPT ![b] = Page("login")]
      /\ attempt' = [attempt EXCEPT ![b] = clock]
  BY DEF SessionWatch
<1>2. JarOK(jar[b]) /\ PagesOK
  BY BrowserFinds
<1>3. JarOK([jar[b] EXCEPT !.session = 0, !.error = FALSE])
  BY <1>2, CookiesKept
<1>4. PagesOK'
  BY <1>1, <1>2, <1>3, BlankPage, PageTurned
<1>5. sessions' = sessions /\ clock \in Nat
  BY <1>1, AuthAssumption DEF authStoreVars, WellFormed, Rows, AuthStoreTypeOK
<1>6. \A r \in Reads : ReadOK(read[r])'
  BY <1>1, <1>5 DEF WellFormed, ReadsOK, ReadOK
<1>7. ReadsOK'
  BY <1>1, <1>5, <1>6 DEF WellFormed, ReadsOK
<1> QED BY <1>1, <1>4, <1>7

-----------------------------------------------------------------------------
(***************************************************************************)
(* Single flight and the chains of tokens, from step to step               *)
(***************************************************************************)

\* A step that trades no token, starts or ends no refresh, and leaves an answer
\* that is in where it is.
Placid ==
  /\ Grown /\ UNCHANGED <<read, spent, faults, scene>> /\ clock' \in Nat /\ clock' >= clock
  /\ \A k \in AuthCalls :
       \/ auth'[k] = auth[k]
       \/ auth'[k].pc \notin {"rotate", "replay"} /\ (k \in Reads => auth[k].pc # "done")
  /\ \A t \in DOMAIN sessions :
       \/ sessions'[t].revokedAt = sessions[t].revokedAt
       \/ sessions[t].revokedAt = Null /\ sessions'[t].revokedAt = clock
  /\ \A t \in DOMAIN sessions' \ DOMAIN sessions :
       sessions'[t].via # "rotation" /\ sessions'[t].login = t

\* What the proofs below read off the rows.
LEMMA RowFinds ==
  ASSUME Rows
  PROVE  /\ clock \in Nat /\ Null \notin Nat /\ GRACE_MS \in Nat /\ Len(sessions) \in Nat
         /\ DOMAIN sessions = 1 .. Len(sessions) /\ Len(sessions) <= MaxRows /\ MaxRows \in Nat
         /\ \A t \in DOMAIN sessions :
              /\ t \in Nat /\ sessions[t].login \in DOMAIN sessions
              /\ sessions[t].revokedAt \in Nat \cup {Null}
              /\ sessions[t].revokedAt # Null => sessions[t].revokedAt <= clock
<1>1. /\ clock \in Nat /\ Null \notin Nat /\ MaxRows \in Nat
      /\ sessions \in Seq(SessionRow) /\ Len(sessions) <= MaxRows
  BY AuthAssumption DEF Rows, AuthStoreTypeOK
<1>2. GRACE_MS \in Nat
  BY RenewalAssumption
<1>3. Len(sessions) \in Nat /\ DOMAIN sessions = 1 .. Len(sessions)
  BY <1>1, LenProperties
<1>4. ASSUME NEW t \in DOMAIN sessions
      PROVE  /\ sessions[t].login \in DOMAIN sessions /\ sessions[t].revokedAt \in Nat \cup {Null}
             /\ sessions[t].revokedAt # Null => sessions[t].revokedAt <= clock
  <2>1. sessions[t] \in SessionRow
    BY <1>1, <1>3, ElementOfSeq
  <2>2. sessions[t].revokedAt \in Nat \cup {Null}
    BY <2>1 DEF SessionRow
  <2> QED BY <2>2 DEF Rows, SessionOK
<1> QED BY <1>1, <1>2, <1>3, <1>4

\* Such a step keeps flights single and chains whole.
LEMMA PlacidKeeps ==
  ASSUME Rows, Rows', CallsOK, Renewals, Placid
  PROVE  Renewals'
<1> SUFFICES ASSUME Undisturbed' PROVE SingleFlight' /\ Chains'
  BY DEF Renewals
<1>1. Undisturbed
  BY DEF Undisturbed, Does, Placid
<1>2. SingleFlight /\ Chains
  BY <1>1 DEF Renewals
<1>3. /\ clock \in Nat /\ Null \notin Nat /\ GRACE_MS \in Nat
      /\ \A t \in DOMAIN sessions :
              /\ t \in Nat /\ sessions[t].login \in DOMAIN sessions
              /\ sessions[t].revokedAt \in Nat \cup {Null}
  BY RowFinds
<1>4. \A k \in AuthCalls : auth'[k].pc \in {"rotate", "replay"} => auth'[k] = auth[k]
  BY DEF Placid
<1>5. Reads \subseteq AuthCalls
  BY RenewalAssumption
<1>6. SingleFlight'
  BY <1>2, <1>4, <1>5 DEF SingleFlight, Placid
<1>7. \A t \in DOMAIN sessions :
         /\ t \in DOMAIN sessions' /\ sessions'[t].via = sessions[t].via
         /\ sessions'[t].proof = sessions[t].proof /\ sessions'[t].login = sessions[t].login
         /\ sessions[t].revokedAt # Null => sessions'[t].revokedAt = sessions[t].revokedAt
  BY DEF Placid, Grown
<1>8. \A t \in DOMAIN sessions' \ DOMAIN sessions :
         sessions'[t].via # "rotation" /\ sessions'[t].login = t
  BY DEF Placid
<1>9. \A t : Rotated(t)' => Rotated(t) /\ t \in DOMAIN sessions
  <2> SUFFICES ASSUME NEW t, Rotated(t)' PROVE Rotated(t) /\ t \in DOMAIN sessions
    OBVIOUS
  <2>1. PICK n \in DOMAIN sessions' : sessions'[n].via = "rotation" /\ sessions'[n].proof = t
    BY DEF Rotated
  <2>2. n \in DOMAIN sessions
    BY <2>1, <1>8
  <2>3. sessions[n].via = "rotation" /\ sessions[n].proof = t
    BY <1>7, <2>1, <2>2
  <2> QED BY <1>2, <2>2, <2>3 DEF Rotated, Chains
<1>10. Chains'
  <2>1. \A n \in DOMAIN sessions' :
          sessions'[n].via = "rotation" => sessions'[n].proof \in DOMAIN sessions'
    BY <1>2, <1>7, <1>8 DEF Chains
  <2>2. ASSUME NEW s \in DOMAIN sessions', NEW t \in DOMAIN sessions',
               s < t, sessions'[s].login = sessions'[t].login
        PROVE  sessions'[s].revokedAt # Null
    <3>1. s \in DOMAIN sessions /\ t \in DOMAIN sessions
      <4>1. CASE s \notin DOMAIN sessions
        <5>1. sessions'[s].login = s
          BY <1>8, <4>1
        <5>2. t \notin DOMAIN sessions
          BY <4>1, <5>1, <2>2, <1>3, <1>7
        <5>3. s = t
          BY <5>1, <5>2, <2>2, <1>8
        <5>4. s \in Nat
          <6>1. sessions' \in Seq(SessionRow)
            BY DEF Rows, AuthStoreTypeOK
          <6>2. Len(sessions') \in Nat /\ DOMAIN sessions' = 1 .. Len(sessions')
            BY <6>1, LenProperties
          <6> QED BY <6>2, <2>2
        <5> QED BY <2>2, <5>3, <5>4
      <4>2. CASE t \notin DOMAIN sessions
        BY <4>1, <4>2, <2>2, <1>3, <1>7, <1>8
      <4> QED BY <4>1, <4>2
    <3> QED BY <3>1, <2>2, <1>2, <1>7 DEF Chains
  <2>3. ASSUME NEW r \in Reads, NEW t \in DOMAIN sessions', auth'[r].pc = "rotate",
               sessions'[t].login = sessions'[auth'[r].row].login
        PROVE  t <= auth'[r].row
    <3>1. auth'[r] = auth[r] /\ auth[r].row \in DOMAIN sessions
      BY <1>4, <1>5, <2>3 DEF CallsOK, CallOK, AtToken
    <3>2. t \in DOMAIN sessions
      BY <3>1, <2>3, <1>3, <1>7, <1>8
    <3> QED BY <3>1, <3>2, <2>3, <1>2, <1>7 DEF Chains
  <2>4. ASSUME NEW t \in DOMAIN sessions', Rotated(t)'
        PROVE  sessions'[t].revokedAt # Null /\ Remembering(t)'
    <3>1. /\ t \in DOMAIN sessions /\ sessions[t].revokedAt # Null /\ Remembering(t)
          /\ sessions'[t].revokedAt = sessions[t].revokedAt /\ sessions[t].revokedAt \in Nat
      BY <2>4, <1>2, <1>3, <1>7, <1>9 DEF Chains
    <3>2. \A r \in Reads : Answering(r, t) => Answering(r, t)'
      BY <1>5 DEF Answering, Placid
    <3>3. clock' \in Nat /\ clock' >= clock /\ spent' = spent
      BY DEF Placid
    <3> QED BY <1>3, <3>1, <3>2, <3>3 DEF Remembering
  <2>5. ASSUME NEW r \in Reads, auth'[r].pc = "replay", Rotated(auth[r].row)'
        PROVE  clock' - sessions'[auth'[r].row].revokedAt >= GRACE_MS
    <3>1. auth'[r] = auth[r] /\ auth[r].row \in DOMAIN sessions
      BY <1>4, <1>5, <2>5 DEF CallsOK, CallOK, AtToken
    <3>2. PICK t : t = auth[r].row
      OBVIOUS
    <3>3. Rotated(t)'
      BY <2>5, <3>1, <3>2 DEF Rotated
    <3>4. Rotated(t) /\ sessions[t].revokedAt # Null /\ clock - sessions[t].revokedAt >= GRACE_MS
      BY <3>1, <3>2, <3>3, <2>5, <1>2, <1>9 DEF Chains
    <3>5. clock' \in Nat /\ clock' >= clock
      BY DEF Placid
    <3> QED BY <3>1, <3>2, <3>4, <3>5, <1>3, <1>7
  <2> QED BY <2>1, <2>2, <2>3, <2>4, <2>5 DEF Chains
<1> QED BY <1>6, <1>10

\* Trading a token: only a read does, it is the only one at its chain, and the
\* answer it gets is on its way.
LEMMA TradeKeeps ==
  ASSUME Rows, CallsOK, Renewals, NEW k \in AuthCalls, Steps(k), Trades(k),
         UNCHANGED <<renewalVars, scene>>
  PROVE  Renewals'
<1> SUFFICES ASSUME Undisturbed' PROVE SingleFlight' /\ Chains'
  BY DEF Renewals
<1>1. SingleFlight /\ Chains /\ UNCHANGED <<read, spent>>
  BY DEF Renewals, Undisturbed, Does, renewalVars
<1>2. /\ clock \in Nat /\ Null \notin Nat /\ GRACE_MS \in Nat /\ Len(sessions) \in Nat
      /\ DOMAIN sessions = 1 .. Len(sessions)
      /\ \A t \in DOMAIN sessions :
              /\ t \in Nat /\ sessions[t].login \in DOMAIN sessions
              /\ sessions[t].revokedAt \in Nat \cup {Null}
              /\ sessions[t].revokedAt # Null => sessions[t].revokedAt <= clock
  BY RowFinds
<1>3. Reads \subseteq AuthCalls
  BY RenewalAssumption
<1>4. PICK old, n : /\ old = auth[k].row /\ n = Len(sessions) + 1
  OBVIOUS
<1>5. /\ auth[k].pc = "rotate" /\ old \in DOMAIN sessions
      /\ DOMAIN sessions' = DOMAIN sessions \cup {n} /\ n \notin DOMAIN sessions
      /\ \A t \in DOMAIN sessions :
           sessions'[t].revokedAt = IF t = old THEN clock ELSE sessions[t].revokedAt
      /\ sessions'[n].via = "rotation" /\ sessions'[n].proof = old
      /\ sessions'[n].login = sessions[old].login
      /\ auth'[k].pc = "done" /\ auth'[k].out.kind = "TOKENS"
      /\ clock' = clock
  BY <1>4 DEF Trades
<1>6. \A t \in DOMAIN sessions :
         /\ t \in DOMAIN sessions' /\ sessions'[t].via = sessions[t].via
         /\ sessions'[t].proof = sessions[t].proof /\ sessions'[t].login = sessions[t].login
  BY DEF Steps, Grown
<1>7. \A j \in AuthCalls \ {k} : auth'[j] = auth[j]
  BY DEF Steps, DoorStep
<1>8. k \in Reads /\ read[k].pc = "call" /\ read[k].token = old
  BY <1>1, <1>4, <1>5 DEF SingleFlight
\* Nobody else is at the token.
<1>9. \A r \in Reads \ {k} :
         auth[r].pc \in {"rotate", "replay"} => auth[r].row # old /\ auth[r].row \in DOMAIN sessions
  BY <1>1, <1>3, <1>8 DEF SingleFlight, CallsOK, CallOK, AtToken
<1>10. SingleFlight'
  BY <1>1, <1>3, <1>5, <1>7, <1>8 DEF SingleFlight
<1>11. \A t : Rotated(t)' => t = old \/ Rotated(t)
  BY <1>5, <1>6 DEF Rotated
<1>12. \A s \in DOMAIN sessions : s < n /\ n \in Nat
  BY <1>2, <1>4
<1>13. Chains'
  <2>1. \A m \in DOMAIN sessions' :
          sessions'[m].via = "rotation" => sessions'[m].proof \in DOMAIN sessions'
    BY <1>1, <1>5, <1>6 DEF Chains
  <2>2. ASSUME NEW s \in DOMAIN sessions', NEW t \in DOMAIN sessions',
               s < t, sessions'[s].login = sessions'[t].login
        PROVE  sessions'[s].revokedAt # Null
    <3>1. s \in DOMAIN sessions
      BY <2>2, <1>2, <1>5, <1>12
    <3>2. CASE t = n
      <4>1. sessions[s].login = sessions[old].login
        BY <2>2, <3>1, <3>2, <1>5, <1>6
      <4>2. s <= old
        BY <4>1, <3>1, <1>1, <1>4, <1>5, <1>8 DEF Chains
      <4>3. s # old => sessions[s].revokedAt # Null
        BY <4>1, <4>2, <3>1, <1>1, <1>2, <1>5 DEF Chains
      <4> QED BY <4>3, <3>1, <1>2, <1>5
    <3>3. CASE t # n
      BY <3>1, <3>3, <2>2, <1>1, <1>2, <1>5, <1>6 DEF Chains
    <3> QED BY <3>2, <3>3
  <2>3. ASSUME NEW r \in Reads, NEW t \in DOMAIN sessions', auth'[r].pc = "rotate",
               sessions'[t].login = sessions'[auth'[r].row].login
        PROVE  t <= auth'[r].row
    <3>1. r # k /\ auth'[r] = auth[r] /\ auth[r].row # old /\ auth[r].row \in DOMAIN sessions
      BY <2>3, <1>3, <1>5, <1>7, <1>9
    <3>2. CASE t = n
      <4>1. sessions[auth[r].row].login = sessions[old].login
        BY <2>3, <3>1, <3>2, <1>5, <1>6
      <4>2. auth[r].row <= old /\ old <= auth[r].row
        BY <4>1, <2>3, <3>1, <1>1, <1>4, <1>5, <1>8 DEF Chains
      <4> QED BY <4>2, <3>1, <1>2, <1>5
    <3>3. CASE t # n
      BY <3>1, <3>3, <2>3, <1>1, <1>5, <1>6 DEF Chains
    <3> QED BY <3>2, <3>3
  <2>4. ASSUME NEW t \in DOMAIN sessions', Rotated(t)'
        PROVE  sessions'[t].revokedAt # Null /\ Remembering(t)'
    <3>1. CASE t = old
      <4>1. sessions'[t].revokedAt = clock
        BY <1>5, <3>1
      <4>2. Answering(k, t)'
        BY <1>1, <1>5, <1>8, <3>1 DEF Answering
      <4> QED BY <4>1, <4>2, <1>2, <1>8 DEF Remembering
    <3>2. CASE t # old
      <4>1. Rotated(t)
        BY <2>4, <3>2, <1>11
      <4>2. t \in DOMAIN sessions
        BY <4>1, <1>1 DEF Rotated, Chains
      <4>3. sessions[t].revokedAt # Null /\ Remembering(t) /\ sessions'[t].revokedAt = sessions[t].revokedAt
        BY <4>1, <4>2, <3>2, <1>1, <1>5 DEF Chains
      <4>4. \A r \in Reads : Answering(r, t) => Answering(r, t)'
        BY <1>1, <1>3, <1>5, <1>7 DEF Answering
      <4> QED BY <4>3, <4>4, <1>1, <1>5 DEF Remembering
    <3> QED BY <3>1, <3>2
  <2>5. ASSUME NEW r \in Reads, auth'[r].pc = "replay", Rotated(auth[r].row)'
        PROVE  clock' - sessions'[auth'[r].row].revokedAt >= GRACE_MS
    <3>1. auth'[r] = auth[r] /\ auth[r].row \in DOMAIN sessions /\ auth[r].row # old
      BY <2>5, <1>3, <1>5, <1>7, <1>9
    <3>2. PICK t : t = auth[r].row
      OBVIOUS
    <3>3. Rotated(t)'
      BY <2>5, <3>1, <3>2 DEF Rotated
    <3>4. Rotated(t)
      BY <3>1, <3>2, <3>3, <1>11
    <3>5. clock - sessions[t].revokedAt >= GRACE_MS
      BY <3>1, <3>2, <3>4, <2>5, <1>1 DEF Chains
    <3> QED BY <3>1, <3>2, <3>5, <1>5
  <2> QED BY <2>1, <2>2, <2>3, <2>4, <2>5 DEF Chains
<1> QED BY <1>10, <1>13

\* A read that starts no refresh.
LEMMA MoveKeeps ==
  ASSUME Renewals, NEW r \in Reads, Moves(r), UNCHANGED scene
  PROVE  Renewals'
<1> SUFFICES ASSUME Undisturbed' PROVE SingleFlight' /\ Chains'
  BY DEF Renewals
<1>1. /\ SingleFlight /\ Chains
      /\ UNCHANGED <<auth, spent, sessions, clock>>
  BY DEF Renewals, Undisturbed, Does, Moves, authStoreVars
<1>2. \A q \in Reads : read'[q].pc = "call" \/ read[q].pc = "call" => read'[q] = read[q]
  BY DEF Moves
<1>3. SingleFlight'
  BY <1>1, <1>2 DEF SingleFlight
<1>4. \A q \in Reads : \A t : Answering(q, t) => Answering(q, t)'
  BY <1>1, <1>2 DEF Answering
<1>5. \A t : (Rotated(t)' <=> Rotated(t)) /\ (Remembering(t) => Remembering(t)')
  BY <1>1, <1>4 DEF Rotated, Remembering
<1>6. \A t \in DOMAIN sessions : Rotated(t)' => sessions[t].revokedAt # Null /\ Remembering(t)'
  BY <1>1, <1>5 DEF Chains
<1>7. \A q \in Reads : auth[q].pc = "replay" /\ Rotated(auth[q].row)'
                        => clock - sessions[auth[q].row].revokedAt >= GRACE_MS
  BY <1>1 DEF Chains, Rotated
<1>8. Chains'
  BY <1>1, <1>6, <1>7 DEF Chains
<1> QED BY <1>3, <1>8

\* A token nobody remembers, or is trading, was traded GRACE ago if it ever was.
LEMMA ForgottenIsOld ==
  ASSUME Rows, SingleFlight, Chains, NEW t \in DOMAIN sessions, spent[t].became = 0, Rotated(t)
  PROVE  sessions[t].revokedAt # Null /\ clock - sessions[t].revokedAt >= GRACE_MS
<1>1. sessions[t].revokedAt # Null /\ Remembering(t)
  BY DEF Chains
<1>2. \A r \in Reads : ~Answering(r, t)
  BY DEF Answering, SingleFlight
<1> QED BY <1>1, <1>2 DEF Remembering

\* A read starts the refresh of a token: of a live one, which is the last of its
\* chain, or of one that was cut.
LEMMA LaunchKeeps ==
  ASSUME WellFormed, Renewals, NEW r \in Reads, NEW t \in DOMAIN sessions, Launches(r, t),
         UNCHANGED scene
  PROVE  Renewals'
<1> SUFFICES ASSUME Undisturbed' PROVE SingleFlight' /\ Chains'
  BY DEF Renewals
<1>1. SingleFlight /\ Chains
  BY DEF Renewals, Undisturbed, Does, Launches
<1>2. /\ Rows /\ CallsOK /\ \A s \in DOMAIN sessions : s \in Nat /\ s \in 1 .. MaxRows
      /\ spent \in [1 .. MaxRows -> Memory] /\ r \in AuthCalls /\ Reads \subseteq AuthCalls
      /\ \A q \in Reads : read[q].pc = "call" => read[q].token \in DOMAIN sessions
  BY ReadFinds, RenewalAssumption DEF WellFormed
<1>3. PICK c : /\ Takes(r, c)
               /\ \/ c.pc = "done" /\ c.out.kind # "TOKENS"
                  \/ c.pc = "rotate" /\ c.row = t /\ sessions[t].revokedAt = Null
                  \/ c.pc = "replay" /\ c.row = t
  BY DEF Launches, Refreshes
<1>4. auth \in [AuthCalls -> Call]
  BY <1>2 DEF CallsOK
<1>5. /\ auth'[r] = c /\ auth[r].pc = "idle" /\ UNCHANGED <<sessions, clock>>
      /\ \A j \in AuthCalls \ {r} : auth'[j] = auth[j]
  BY <1>2, <1>3, <1>4 DEF Takes, authStoreVars
<1>6. /\ read[r].pc # "call" /\ read'[r].pc = "call" /\ read'[r].token = t
      /\ \A q \in Reads \ {r} : read'[q] = read[q]
      /\ spent[t].became = 0
      /\ spent'[t].became = -1 /\ \A s \in DOMAIN sessions \ {t} : spent'[s] = spent[s]
  BY <1>2 DEF Launches
<1>7. \A q \in Reads : read[q].pc = "call" => read[q].token \in DOMAIN sessions /\ read[q].token # t
  BY <1>1, <1>2, <1>6 DEF SingleFlight
<1>8. SingleFlight'
  <2>1. \A k \in AuthCalls \ Reads : auth'[k].pc \notin {"rotate", "replay"}
    BY <1>1, <1>5 DEF SingleFlight
  <2>2. \A q \in Reads : auth'[q].pc \in {"rotate", "replay"} =>
                           read'[q].pc = "call" /\ read'[q].token = auth'[q].row
    BY <1>1, <1>2, <1>3, <1>5, <1>6 DEF SingleFlight
  <2>3. \A q \in Reads : read'[q].pc = "call" => spent'[read'[q].token].became = -1
    BY <1>1, <1>6, <1>7 DEF SingleFlight
  <2>4. \A p, q \in Reads : p # q /\ read'[p].pc = "call" /\ read'[q].pc = "call"
                              => read'[p].token # read'[q].token
    BY <1>1, <1>6, <1>7 DEF SingleFlight
  <2> QED BY <2>1, <2>2, <2>3, <2>4 DEF SingleFlight
<1>9. \A s : Rotated(s)' <=> Rotated(s)
  BY <1>5 DEF Rotated
<1>10. Rotated(t) => sessions[t].revokedAt # Null /\ clock - sessions[t].revokedAt >= GRACE_MS
  BY <1>1, <1>2, <1>6, ForgottenIsOld
<1>11. Chains'
  <2>1. \A q \in Reads, s \in DOMAIN sessions :
          auth'[q].pc = "rotate" /\ sessions[s].login = sessions[auth'[q].row].login
            => s <= auth'[q].row
    <3>1. \A s \in DOMAIN sessions : sessions[s].login = sessions[t].login /\ sessions[t].revokedAt = Null
                                       => s <= t
      BY <1>1, <1>2 DEF Chains
    <3> QED BY <3>1, <1>1, <1>2, <1>3, <1>5 DEF Chains
  <2>2. ASSUME NEW s \in DOMAIN sessions, Rotated(s)
        PROVE  sessions[s].revokedAt # Null /\ Remembering(s)'
    <3>1. sessions[s].revokedAt # Null /\ Remembering(s)
      BY <2>2, <1>1 DEF Chains
    <3>2. \A q \in Reads : Answering(q, s) => Answering(q, s)'
      BY <1>2, <1>5, <1>6 DEF Answering
    <3>3. CASE s = t
      BY <3>1, <3>3, <2>2, <1>5, <1>10 DEF Remembering
    <3>4. CASE s # t
      BY <3>1, <3>2, <3>4, <1>5, <1>6 DEF Remembering
    <3> QED BY <3>1, <3>3, <3>4
  <2>3. ASSUME NEW q \in Reads, auth'[q].pc = "replay", Rotated(auth'[q].row)
        PROVE  clock - sessions[auth'[q].row].revokedAt >= GRACE_MS
    <3>1. CASE q = r
      <4>1. auth'[q].row = t
        BY <3>1, <2>3, <1>3, <1>5
      <4> QED BY <4>1, <2>3, <1>10
    <3>2. CASE q # r
      BY <3>2, <2>3, <1>1, <1>2, <1>5 DEF Chains
    <3> QED BY <3>1, <3>2
  <2>4. \A s \in DOMAIN sessions : Rotated(s)' => sessions[s].revokedAt # Null /\ Remembering(s)'
    BY <2>2, <1>9
  <2>5. \A q \in Reads : auth'[q].pc = "replay" /\ Rotated(auth[q].row)'
                           => clock - sessions[auth'[q].row].revokedAt >= GRACE_MS
    <3> SUFFICES ASSUME NEW q \in Reads, auth'[q].pc = "replay", Rotated(auth[q].row)'
                 PROVE  clock - sessions[auth'[q].row].revokedAt >= GRACE_MS
      OBVIOUS
    <3>1. Rotated(auth'[q].row)
      BY <1>5 DEF Rotated
    <3> QED BY <3>1, <2>3
  <2> QED BY <1>1, <1>5, <2>1, <2>4, <2>5 DEF Chains
<1> QED BY <1>8, <1>11

\* A refresh that is answered: a pair is remembered for GRACE from now on, and a
\* token that was refused had not been traded.
LEMMA AnswerKeeps ==
  ASSUME WellFormed, Renewals, NEW r \in Reads, RefreshAnswered(r), UNCHANGED scene
  PROVE  Renewals'
<1> SUFFICES ASSUME Undisturbed' PROVE SingleFlight' /\ Chains'
  BY DEF Renewals
<1>1. /\ SingleFlight /\ Chains
      /\ UNCHANGED <<sessions, clock>>
  BY DEF Renewals, Undisturbed, Does, RefreshAnswered, authStoreVars
<1>2. /\ Rows /\ CallsOK /\ \A s \in DOMAIN sessions : s \in Nat /\ s \in 1 .. MaxRows
      /\ spent \in [1 .. MaxRows -> Memory] /\ r \in AuthCalls /\ Reads \subseteq AuthCalls
      /\ \A q \in Reads : read[q].pc = "call" => read[q].token \in DOMAIN sessions
      /\ read \in [Reads -> ReadRow]
  BY ReadFinds, RenewalAssumption DEF WellFormed
<1>3. /\ clock \in Nat /\ Null \notin Nat /\ GRACE_MS \in Nat
      /\ \A s \in DOMAIN sessions :
              /\ sessions[s].revokedAt \in Nat \cup {Null}
              /\ sessions[s].revokedAt # Null => sessions[s].revokedAt <= clock
  BY <1>2, RowFinds
<1>4. PICK t : t = read[r].token
  OBVIOUS
<1>5. /\ read[r].pc = "call" /\ auth[r].pc = "done" /\ t \in DOMAIN sessions
      /\ auth' = [auth EXCEPT ![r] = IdleAuth] /\ auth \in [AuthCalls -> Call]
  BY <1>2, <1>4 DEF RefreshAnswered, CallsOK
<1>6. auth'[r].pc = "idle" /\ \A j \in AuthCalls \ {r} : auth'[j] = auth[j]
  BY <1>2, <1>5, IdleIsOK
\* Nobody but r was at the token.
<1>7. \A q \in Reads : read[q].pc = "call" /\ read[q].token = t => q = r
  BY <1>1, <1>4, <1>5 DEF SingleFlight
<1>8. \A q \in Reads : \/ read'[q] = read[q] /\ ~(read[q].pc = "call" /\ read[q].token = t)
                       \/ read'[q].pc = "got" /\ read[q].token = t
  <2>1. PICK outcome, became : Settle(t, outcome, became)
    BY <1>4 DEF RefreshAnswered
  <2> SUFFICES ASSUME NEW q \in Reads
               PROVE  \/ read'[q] = read[q] /\ ~(read[q].pc = "call" /\ read[q].token = t)
                      \/ read'[q].pc = "got" /\ read[q].token = t
    OBVIOUS
  <2>2. read[q] \in ReadRow
    BY <1>2
  <2>3. CASE read[q].token = t /\ read[q].pc \in {"call", "wait"}
    <3>1. read'[q] = [read[q] EXCEPT !.pc = "got", !.outcome = outcome,
                                     !.token = IF became = 0 THEN t ELSE became]
      BY <2>1, <2>3 DEF Settle
    <3> QED BY <3>1, <2>2, <2>3 DEF ReadRow
  <2>4. CASE ~(read[q].token = t /\ read[q].pc \in {"call", "wait"})
    BY <2>1, <2>4 DEF Settle
  <2> QED BY <2>3, <2>4
<1>9. read'[r].pc # "call"
  BY <1>4, <1>5, <1>8
<1>10. \A q \in Reads : read'[q].pc = "call" =>
         q # r /\ read'[q] = read[q] /\ read[q].token # t /\ read[q].token \in DOMAIN sessions
  BY <1>2, <1>8, <1>9
<1>11. \A s \in DOMAIN sessions \ {t} : spent'[s] = spent[s]
  BY <1>2, <1>4, <1>5 DEF RefreshAnswered
<1>12. SingleFlight'
  <2>1. \A k \in AuthCalls \ Reads : auth'[k].pc \notin {"rotate", "replay"}
    BY <1>1, <1>6 DEF SingleFlight
  <2>2. ASSUME NEW q \in Reads, auth'[q].pc \in {"rotate", "replay"}
        PROVE  read'[q].pc = "call" /\ read'[q].token = auth'[q].row
    <3>1. q # r /\ auth'[q] = auth[q] /\ read[q].pc = "call" /\ read[q].token = auth[q].row
      BY <2>2, <1>1, <1>2, <1>6 DEF SingleFlight
    <3>2. read'[q] = read[q]
      BY <3>1, <1>7, <1>8
    <3> QED BY <3>1, <3>2
  <2>3. \A q \in Reads : read'[q].pc = "call" => spent'[read'[q].token].became = -1
    BY <1>1, <1>10, <1>11 DEF SingleFlight
  <2>4. \A p, q \in Reads : p # q /\ read'[p].pc = "call" /\ read'[q].pc = "call"
                              => read'[p].token # read'[q].token
    BY <1>1, <1>10 DEF SingleFlight
  <2> QED BY <2>1, <2>2, <2>3, <2>4 DEF SingleFlight
<1>13. \A s : Rotated(s)' <=> Rotated(s)
  BY <1>1 DEF Rotated
<1>14. ASSUME NEW s \in DOMAIN sessions, Rotated(s)
       PROVE  sessions[s].revokedAt # Null /\ Remembering(s)'
  <2>1. sessions[s].revokedAt # Null /\ Remembering(s)
    BY <1>14, <1>1 DEF Chains
  <2>2. CASE s # t
    <3>1. \A q \in Reads : Answering(q, s) => Answering(q, s)'
      BY <2>2, <1>2, <1>4, <1>6, <1>8 DEF Answering
    <3> QED BY <2>1, <2>2, <3>1, <1>1, <1>11 DEF Remembering
  <2>3. CASE s = t /\ auth[r].out.kind = "TOKENS"
    <3>1. AnswerOK(auth[r].out)
      BY <1>2, <1>5 DEF CallsOK, CallOK
    <3>2. auth[r].out.session \in DOMAIN sessions
      BY <2>3, <3>1 DEF AnswerOK
    <3>3. auth[r].out.session > 0
      BY <3>2, <1>2
    <3>4. spent' = [spent EXCEPT ![t] = [became |-> auth[r].out.session, until |-> clock + GRACE_MS]]
      BY <2>3, <1>4 DEF RefreshAnswered, GraceUntil
    <3>5. spent'[t].became > 0 /\ spent'[t].until = clock + GRACE_MS
      BY <3>3, <3>4, <1>2, <1>5
    <3>6. spent'[t].until >= sessions[t].revokedAt + GRACE_MS
      BY <3>5, <2>1, <2>3, <1>3
    <3> QED BY <2>1, <2>3, <3>5, <3>6, <1>1 DEF Remembering
  <2>4. CASE s = t /\ auth[r].out.kind # "TOKENS"
    <3>1. \A q \in Reads : ~Answering(q, t)
      BY <2>4, <1>7 DEF Answering
    <3>2. spent[t].became = -1
      BY <1>1, <1>4, <1>5 DEF SingleFlight
    <3>3. clock - sessions[t].revokedAt >= GRACE_MS
      BY <2>1, <2>4, <3>1, <3>2 DEF Remembering
    <3> QED BY <2>1, <2>4, <3>3, <1>1 DEF Remembering
  <2> QED BY <2>2, <2>3, <2>4
<1>15. \A s \in DOMAIN sessions : Rotated(s)' => sessions[s].revokedAt # Null /\ Remembering(s)'
  BY <1>13, <1>14
<1>16. \A q \in Reads : auth'[q].pc \in {"rotate", "replay"} => auth'[q] = auth[q]
  BY <1>2, <1>6
<1>17. \A q \in Reads : auth'[q].pc = "replay" /\ Rotated(auth[q].row)'
                           => clock - sessions[auth'[q].row].revokedAt >= GRACE_MS
  <2> SUFFICES ASSUME NEW q \in Reads, auth'[q].pc = "replay", Rotated(auth[q].row)'
               PROVE  clock - sessions[auth'[q].row].revokedAt >= GRACE_MS
    OBVIOUS
  <2>1. auth'[q] = auth[q] /\ Rotated(auth[q].row)
    BY <1>1, <1>16 DEF Rotated
  <2> QED BY <2>1, <1>1 DEF Chains
<1>18. Chains'
  BY <1>1, <1>15, <1>16, <1>17 DEF Chains
<1> QED BY <1>12, <1>18

\* The timer forgets a token when GRACE is over.
LEMMA TimerForgets ==
  ASSUME WellFormed, Renewals, NEW t \in 1 .. MaxRows, ForgetSpent(t), UNCHANGED scene
  PROVE  Renewals'
<1> SUFFICES ASSUME Undisturbed' PROVE SingleFlight' /\ Chains'
  BY DEF Renewals
<1>1. /\ SingleFlight /\ Chains
      /\ UNCHANGED <<auth, read, sessions, clock>>
  BY DEF Renewals, Undisturbed, Does, ForgetSpent, authStoreVars
<1>2. Rows /\ spent \in [1 .. MaxRows -> Memory]
  BY DEF WellFormed, ReadsOK
<1>3. /\ clock \in Nat /\ Null \notin Nat /\ GRACE_MS \in Nat
      /\ \A s \in DOMAIN sessions : sessions[s].revokedAt \in Nat \cup {Null}
  BY <1>2, RowFinds
<1>4. /\ spent[t].became > 0 /\ clock >= spent[t].until /\ spent[t].until \in Nat
      /\ spent' = [spent EXCEPT ![t] = [became |-> 0, until |-> 0]]
  BY <1>2 DEF ForgetSpent, Memory
<1>5. \A s : s # t => spent'[s] = spent[s]
  BY <1>4
<1>6. SingleFlight'
  <2>1. \A q \in Reads : read[q].pc = "call" => read[q].token # t
    BY <1>1, <1>4 DEF SingleFlight
  <2> QED BY <1>1, <1>5, <2>1 DEF SingleFlight
<1>7. \A s : (Rotated(s)' <=> Rotated(s)) /\ \A q \in Reads : Answering(q, s)' <=> Answering(q, s)
  BY <1>1 DEF Rotated, Answering
<1>8. ASSUME NEW s \in DOMAIN sessions, Rotated(s)
      PROVE  sessions[s].revokedAt # Null /\ Remembering(s)'
  <2>1. sessions[s].revokedAt # Null /\ Remembering(s)
    BY <1>8, <1>1 DEF Chains
  <2>2. CASE s # t
    BY <2>1, <2>2, <1>1, <1>5, <1>7 DEF Remembering
  <2>3. CASE s = t /\ clock - sessions[t].revokedAt >= GRACE_MS
    BY <2>1, <2>3, <1>1 DEF Remembering
  <2>4. CASE s = t /\ spent[t].until >= sessions[t].revokedAt + GRACE_MS
    <3>1. clock - sessions[t].revokedAt >= GRACE_MS
      BY <2>1, <2>4, <1>3, <1>4
    <3> QED BY <2>1, <2>4, <3>1, <1>1 DEF Remembering
  <2>5. CASE s = t /\ \E q \in Reads : Answering(q, t)
    BY <2>1, <2>5, <1>7 DEF Remembering
  <2> QED BY <2>1, <2>2, <2>3, <2>4, <2>5 DEF Remembering
<1>9. \A s \in DOMAIN sessions : Rotated(s)' => sessions[s].revokedAt # Null /\ Remembering(s)'
  BY <1>7, <1>8
<1>10. \A q \in Reads : auth[q].pc = "replay" /\ Rotated(auth[q].row)'
                        => clock - sessions[auth[q].row].revokedAt >= GRACE_MS
  BY <1>1 DEF Chains, Rotated
<1>11. Chains'
  BY <1>1, <1>9, <1>10 DEF Chains
<1> QED BY <1>6, <1>11

-----------------------------------------------------------------------------
(***************************************************************************)
(* The inductive invariant holds at first and from step to step            *)
(***************************************************************************)
AccountsInv == WellFormed /\ Doors /\ WaysIn /\ Renewals

\* The rows a scene starts with: one session for each sign-in, behind a code of
\* its own.
LEMMA RowsAtFirst ==
  ASSUME AccountsInit
  PROVE  Rows /\ DOMAIN sessions = DOMAIN scene.signedIn /\ scene \in Scenes
         /\ \A t \in DOMAIN sessions :
              /\ t \in 1 .. MaxRows /\ sessions[t].via = "code" /\ sessions[t].proof = t
              /\ sessions[t].login = t
<1> DEFINE m == Len(scene.signedIn)
           who == scene.who
           code == [userId |-> who, used |-> TRUE, createdAt |-> 0, expiresAt |-> OTP_TTL]
           row(n) == [userId |-> who, expiresAt |-> REFRESH_TTL, revokedAt |-> Null,
                      accessExpiry |-> ACCESS_TTL, via |-> "code", proof |-> n, login |-> n,
                      knew |-> 0]
<1>1. /\ scene \in Scenes /\ scene.signedIn \in Seq(Browsers) /\ m <= MaxRows /\ who \in People
      /\ AuthStoreInit(who, m)
  BY AccountsAssumption, AuthAssumption DEF AccountsInit
<1>2. m \in Nat /\ DOMAIN scene.signedIn = 1 .. m
  BY <1>1, LenProperties
<1>3. code \in CodeRow /\ code.used /\ code.userId = who
  BY <1>1, AuthAssumption DEF CodeRow
<1>4. \A n \in 1 .. m : /\ row(n) \in SessionRow /\ row(n).userId = who /\ row(n).via = "code"
                        /\ row(n).proof = n /\ row(n).login = n /\ row(n).revokedAt = Null
  BY <1>1, <1>2, AuthAssumption DEF SessionRow
<1>5. codes = [n \in 1 .. m |-> code] /\ sessions = [n \in 1 .. m |-> row(n)]
  BY <1>1 DEF AuthStoreInit
<1> HIDE DEF code, row, m
<1>6. codes \in [1 .. m -> CodeRow] /\ sessions \in [1 .. m -> SessionRow]
  BY <1>3, <1>4, <1>5
<1>7. codes \in Seq(CodeRow) /\ sessions \in Seq(SessionRow) /\ Len(sessions) = m
  BY <1>2, <1>6, SeqDef, LenProperties
<1>8. account \in [People -> Account]
  <2> DEFINE has == [status |-> "ACTIVE", password |-> 0, verified |-> FALSE, ways |-> {Null}]
             not == [status |-> "NONE", password |-> Null, verified |-> FALSE, ways |-> {}]
  <2>1. has \in Account /\ not \in Account
    BY AuthAssumption DEF Account
  <2>2. account = [u \in People |-> IF u \in Registered THEN has ELSE not]
    BY <1>1 DEF AuthStoreInit
  <2> HIDE DEF has, not
  <2> QED BY <2>1, <2>2
<1>9. /\ linked \in [Identities -> People \cup {Null}] /\ links = <<>> /\ devices = <<>> /\ clock = 0
      /\ audit = [u \in People |-> <<>>]
  BY <1>1 DEF AuthStoreInit
<1>10. /\ links \in Seq(LinkRow) /\ devices \in Seq(DeviceRow)
       /\ audit \in [People -> Seq({"SUSPEND_USER", "REACTIVATE_USER"})] /\ clock \in 0 .. MaxTime
  BY <1>9, AuthAssumption
<1>11. AuthStoreTypeOK
  BY <1>7, <1>8, <1>9, <1>10 DEF AuthStoreTypeOK
<1>12. \A t \in DOMAIN sessions : SessionOK(t)
  BY <1>3, <1>4, <1>5 DEF SessionOK, Vouched, Answered
<1>13. DOMAIN devices = {}
  BY <1>9
<1>14. Rows
  BY <1>1, <1>7, <1>11, <1>12, <1>13 DEF Rows, m
<1> QED BY <1>1, <1>2, <1>4, <1>5, <1>14, AuthAssumption DEF m

\* The cookies a scene starts with.
LEMMA PagesAtFirst ==
  ASSUME AccountsInit, DOMAIN sessions = DOMAIN scene.signedIn
  PROVE  PagesOK
<1>1. scene.signedIn \in Seq(Browsers) /\ LoginPagesInit(scene.signedIn)
  BY AccountsAssumption DEF AccountsInit
<1>2. Len(scene.signedIn) \in Nat /\ DOMAIN scene.signedIn = 1 .. Len(scene.signedIn)
  BY <1>1, LenProperties
<1> DEFINE held(b) == {0} \cup {n \in DOMAIN scene.signedIn : scene.signedIn[n] = b}
           cookies(b) == [EmptyJar EXCEPT !.session = Max(held(b))]
           shown(b) == Page(IF b \in ToSet(scene.signedIn) THEN "home" ELSE "login")
<1>3. \A b \in Browsers : Max(held(b)) \in {0} \cup DOMAIN sessions /\ Max(held(b)) \in Nat
  <2> SUFFICES ASSUME NEW b \in Browsers
               PROVE  Max(held(b)) \in {0} \cup DOMAIN sessions /\ Max(held(b)) \in Nat
    OBVIOUS
  <2>1. held(b) \subseteq 0 .. Len(scene.signedIn) /\ held(b) # {}
    BY <1>2
  <2>2. held(b) \subseteq {0} \cup DOMAIN sessions
    OBVIOUS
  <2> HIDE DEF held
  <2>3. Max(held(b)) \in held(b)
    BY <1>2, <2>1, MaxIsIn
  <2> QED BY <1>2, <2>1, <2>2, <2>3
<1>4. jar = [b \in Browsers |-> cookies(b)] /\ page = [b \in Browsers |-> shown(b)]
  BY <1>1 DEF LoginPagesInit
<1> HIDE DEF held
<1>5. \A b \in Browsers : JarOK(cookies(b))
  BY <1>3, AuthAssumption DEF JarOK, Jar, EmptyJar
<1>6. \A b \in Browsers : PageOK(shown(b))
  BY BlankPage
<1> HIDE DEF cookies, shown
<1> QED BY <1>4, <1>5, <1>6 DEF PagesOK, JarOK, PageOK

\* The invariant holds at first.
LEMMA InvAtFirst == AccountsInit => AccountsInv
<1> SUFFICES ASSUME AccountsInit PROVE AccountsInv
  OBVIOUS
<1>1. /\ Rows /\ DOMAIN sessions = DOMAIN scene.signedIn /\ scene \in Scenes
      /\ \A t \in DOMAIN sessions :
           /\ t \in 1 .. MaxRows /\ sessions[t].via = "code" /\ sessions[t].proof = t
           /\ sessions[t].login = t
  BY RowsAtFirst
<1>2. PagesOK
  BY <1>1, PagesAtFirst
<1>3. /\ auth = [k \in AuthCalls |-> IdleAuth]
      /\ read = [r \in Reads |-> IdleRead] /\ attempt = [b \in Browsers |-> Null] /\ faults = 0
      /\ linked = [i \in Identities |-> Null]
  BY DEF AccountsInit, SignInInit, RenewalInit, AuthStoreInit
<1>4. /\ \A k \in AuthCalls : auth[k].pc = "idle" /\ CallOK(auth[k]) /\ auth[k] \in Call
      /\ auth \in [AuthCalls -> Call]
  BY <1>3, IdleIsOK DEF CallOK
<1>5. CallsOK
  BY <1>4 DEF CallsOK
<1>6. ReadsOK
  <2> DEFINE none == [became |-> 0, until |-> 0]
  <2>1. none \in Memory /\ none.became = 0
    BY DEF Memory
  <2>2. spent = [t \in 1 .. MaxRows |-> none]
    BY DEF AccountsInit, RenewalInit
  <2> HIDE DEF none
  <2>3. \A r \in Reads : ReadOK(read[r])
    BY <1>3, IdleReadIsOK
  <2> QED BY <1>3, <2>1, <2>2, <2>3, IdleReadIsOK DEF ReadsOK
<1>7. Doors
  BY <1>1, <1>4 DEF Doors, Holds, Resets, AtPassword
<1>8. WaysIn
  <2>1. \A u \in People :
          \/ account[u].status = "ACTIVE" /\ account[u].ways = {Null}
          \/ account[u].status = "NONE" /\ account[u].ways = {}
    BY DEF AccountsInit, AuthStoreInit
  <2> QED BY <1>3, <2>1, AuthAssumption DEF WaysIn, OneWayIn
<1>9. SingleFlight
  BY <1>3, <1>4, RenewalAssumption, IdleReadIsOK DEF SingleFlight
<1>10. Chains
  BY <1>1, <1>4, RenewalAssumption DEF Chains, Rotated
<1> QED BY <1>1, <1>2, <1>5, <1>6, <1>7, <1>8, <1>9, <1>10 DEF AccountsInv, WellFormed, Renewals

\* Reads nobody touches stay well formed.
LEMMA ReadsAlone ==
  ASSUME ReadsOK, Grown, UNCHANGED renewalVars
  PROVE  ReadsOK'
<1>1. UNCHANGED <<read, spent, attempt, faults>>
  BY DEF renewalVars
<1>2. ASSUME NEW r \in Reads PROVE ReadOK(read[r])'
  <2>1. PICK rd : rd = read[r]
    OBVIOUS
  <2>2. ReadOK(rd)'
    BY <2>1, ReadsStand DEF ReadsOK
  <2> QED BY <1>1, <2>1, <2>2 DEF ReadOK
<1>3. \A t \in DOMAIN sessions : t \in DOMAIN sessions'
  BY DEF Grown
<1> QED BY <1>1, <1>2, <1>3 DEF ReadsOK

\* A call that is none of the reads' own, or has not ended yet, moves on
\* without trading a token.
LEMMA CalmIsPlacid ==
  ASSUME Rows, NEW k \in AuthCalls, Steps(k), Calm(k), k \in Reads => auth[k].pc # "done",
         UNCHANGED <<renewalVars, scene>>
  PROVE  Placid
<1>1. clock \in Nat /\ clock' = clock /\ UNCHANGED <<read, spent, faults, scene>>
  BY RowFinds DEF Calm, renewalVars
<1> QED BY <1>1 DEF Placid, Steps, Calm, DoorStep

\* A step of one call that trades no token.
LEMMA CalmStepKeeps ==
  ASSUME AccountsInv, NEW k \in AuthCalls, Steps(k), Calm(k), k \in Reads => auth[k].pc # "done",
         PagesOK', UNCHANGED <<renewalVars, scene>>
  PROVE  AccountsInv'
<1>1. Rows /\ CallsOK /\ Doors /\ WaysIn /\ ReadsOK /\ scene \in Scenes
  BY DEF AccountsInv, WellFormed
<1>2. Grown /\ Rows' /\ CallsOK' /\ KeepsWays
  BY DEF Steps
<1>3. ReadsOK'
  BY <1>1, <1>2, ReadsAlone
<1>4. Doors' /\ WaysIn'
  BY <1>1, <1>2, DoorsKept, WaysKept
<1>5. Renewals'
  BY <1>1, <1>2, CalmIsPlacid, PlacidKeeps DEF AccountsInv
<1> QED BY <1>1, <1>2, <1>3, <1>4, <1>5 DEF AccountsInv, WellFormed

\* A step at a browser.
LEMMA BrowserKeeps ==
  ASSUME AccountsInv, NEW b \in Browsers, AtBrowser(b), UNCHANGED <<renewalVars, scene>>
  PROVE  AccountsInv'
<1>1. b \in AuthCalls /\ b \notin Reads
  BY BrowsersAssumption, RenewalAssumption
<1>2. /\ Rows /\ CallsOK /\ Doors /\ WaysIn /\ ReadsOK /\ Renewals /\ scene \in Scenes /\ PagesOK'
      /\ auth \in [AuthCalls -> Call]
  BY DEF AccountsInv, WellFormed, AtBrowser, CallsOK
<1>3. CASE Starts(b)
  <2>1. PICK c : Takes(b, c) /\ Begun(c) /\ c.pc \notin {"rotate", "replay"}
    BY <1>3 DEF Starts
  <2>2. Steps(b) /\ Calm(b)
    BY <1>1, <1>2, <2>1, QuietStep DEF Takes
  <2> QED BY <1>1, <1>2, <2>2, CalmStepKeeps
<1>4. CASE Lets(b)
  <2>1. Drops
    BY <1>1, <1>2, <1>4 DEF Lets, Drops
  <2>2. Grown /\ Rows' /\ CallsOK' /\ Doors' /\ WaysIn'
    BY <1>2, <2>1, DropsKeep
  <2>3. ReadsOK'
    BY <1>2, <2>2, ReadsAlone
  <2>4. clock' = clock /\ sessions' = sessions /\ UNCHANGED <<read, spent, faults, scene>>
        /\ clock \in Nat
    BY <1>2, <2>1, RowFinds DEF Drops, authStoreVars, renewalVars
  <2>5. \A k \in AuthCalls : \/ auth'[k] = auth[k]
                             \/ auth'[k].pc \notin {"rotate", "replay"} /\ k \notin Reads
    BY <1>1, <1>2, <1>4, IdleIsOK DEF Lets
  <2>6. Placid
    BY <2>2, <2>4, <2>5 DEF Placid
  <2>7. Renewals'
    BY <1>2, <2>2, <2>6, PlacidKeeps
  <2> QED BY <1>2, <2>2, <2>3, <2>7 DEF AccountsInv, WellFormed
<1> QED BY <1>3, <1>4 DEF AtBrowser

\* A plain client of the API, or an admin, begins a call.
LEMMA DeskKeeps ==
  ASSUME AccountsInv, NEW k \in Desks, DeskActs(k), UNCHANGED <<pageVars, renewalVars, scene>>
  PROVE  AccountsInv'
<1>1. k \in AuthCalls /\ k \notin Reads
  BY AccountsAssumption
<1>2. /\ WellFormed /\ Rows /\ CallsOK /\ Doors /\ WaysIn /\ ReadsOK /\ PagesOK /\ Renewals
      /\ scene \in Scenes /\ UNCHANGED <<jar, page>>
  BY DEF AccountsInv, WellFormed, pageVars
<1>3. Admins \subseteq People /\ Registered \subseteq People /\ {0, 1} \subseteq Passwords
  BY AuthAssumption, AccountsAssumption
<1>4. \A t \in DOMAIN sessions : t \in Nat
  BY <1>2, RowFinds
<1>5. CASE Starts(k)
  <2>1. PICK c : Takes(k, c) /\ Begun(c) /\ c.pc \notin {"rotate", "replay"}
    BY <1>5 DEF Starts
  <2>2. Steps(k) /\ Calm(k)
    BY <1>1, <1>2, <2>1, QuietStep DEF Takes
  <2>3. PagesOK'
    BY <1>2, <2>2, PagesAlone DEF Steps
  <2> QED BY <1>1, <2>2, <2>3, CalmStepKeeps
<1>6. CASE \E admin \in Admins, u \in People, status \in {"ACTIVE", "SUSPENDED"} :
             ChangeStatus(k, admin, u, status)
  <2>1. Steps(k) /\ Calm(k)
    BY <1>1, <1>2, <1>6, StatusChanged
  <2>2. PagesOK'
    BY <1>2, <2>1, PagesAlone DEF Steps
  <2> QED BY <1>1, <2>1, <2>2, CalmStepKeeps
<1>7. CASE Does("refresh") /\ \E t \in DOMAIN sessions : BeginRefresh(k, t)
  <2>1. PICK t \in DOMAIN sessions : Refreshes(k, t)
    BY <1>4, <1>7, RefreshStarts
  <2>2. PICK c : Takes(k, c) /\ Begun(c)
    BY <2>1 DEF Refreshes
  <2>3. Steps(k)
    BY <1>1, <1>2, <2>2, QuietStep DEF Takes
  <2>4. Grown /\ Rows' /\ CallsOK' /\ KeepsWays
    BY <2>3 DEF Steps
  <2>5. ReadsOK' /\ PagesOK' /\ Doors' /\ WaysIn'
    BY <1>1, <1>2, <2>3, <2>4, ReadsAlone, PagesAlone, DoorsKept, WaysKept
  <2>6. Renewals'
    BY <1>7 DEF Renewals, Undisturbed, Does
  <2> QED BY <1>2, <2>4, <2>5, <2>6 DEF AccountsInv, WellFormed
<1>8. CASE \E t \in DOMAIN sessions : BeginLogout(k, t)
  BY <1>4, <1>5, <1>8, LogoutStarts
<1>9. CASE \E u \in Admins : BeginChange(k, u, 0, 1)
  BY <1>3, <1>5, <1>9, ChangeStarts
<1>10. CASE \E u \in Registered : BeginLogin(k, u, 0, 0)
  BY <1>3, <1>5, <1>10, LoginStarts
<1> QED BY <1>6, <1>7, <1>8, <1>9, <1>10 DEF DeskActs

\* The API goes on with a call.
LEMMA ServiceKeeps ==
  ASSUME AccountsInv, NEW k \in AuthCalls, Serve(k), UNCHANGED <<pageVars, renewalVars, scene>>
  PROVE  AccountsInv'
<1>1. /\ Rows /\ CallsOK /\ Doors /\ WaysIn /\ ReadsOK /\ PagesOK /\ Renewals
      /\ scene \in Scenes /\ UNCHANGED <<jar, page>>
  BY DEF AccountsInv, WellFormed, pageVars
<1>2. Steps(k) /\ (Calm(k) \/ Trades(k)) /\ auth[k].pc # "done"
  BY <1>1, CallServed DEF Resting
<1>3. Grown /\ Rows' /\ CallsOK' /\ KeepsWays
  BY <1>2 DEF Steps
<1>4. PagesOK' /\ ReadsOK' /\ Doors' /\ WaysIn'
  BY <1>1, <1>2, <1>3, PagesAlone, ReadsAlone, DoorsKept, WaysKept
<1>5. CASE Calm(k)
  BY <1>2, <1>4, <1>5, CalmStepKeeps
<1>6. CASE Trades(k)
  <2>1. Renewals'
    BY <1>1, <1>2, <1>6, TradeKeeps
  <2> QED BY <1>1, <1>3, <1>4, <2>1 DEF AccountsInv, WellFormed
<1> QED BY <1>2, <1>5, <1>6

\* The web process reads, renews, forgets, is restarted.
LEMMA RenewalKeeps ==
  ASSUME AccountsInv, Renew, UNCHANGED scene
  PROVE  AccountsInv'
<1>1. /\ WellFormed /\ Rows /\ CallsOK /\ Doors /\ WaysIn /\ Renewals /\ scene \in Scenes
      /\ auth \in [AuthCalls -> Call] /\ Reads \subseteq AuthCalls
  BY RenewalAssumption DEF AccountsInv, WellFormed, CallsOK
<1>2. CASE Drops /\ ReadsOK' /\ PagesOK' /\ Renewals'
  <2>1. Rows' /\ CallsOK' /\ Doors' /\ WaysIn'
    BY <1>1, <1>2, DropsKeep
  <2> QED BY <1>1, <1>2, <2>1 DEF AccountsInv, WellFormed
<1>3. UNCHANGED authStoreVars /\ UNCHANGED auth => Drops
  BY <1>1 DEF Drops
<1>4. CASE \E r \in Reads : ReadSteps(r)
  <2>1. PICK r \in Reads : ReadSteps(r)
    BY <1>4
  <2>2. CASE Moves(r)
    <3>1. Drops
      BY <1>3, <2>2 DEF Moves
    <3> QED BY <1>1, <1>2, <2>1, <2>2, <3>1, MoveKeeps DEF ReadSteps
  <2>3. CASE \E t \in DOMAIN sessions : Launches(r, t)
    <3>1. PICK t \in DOMAIN sessions : Launches(r, t)
      BY <2>3
    <3>2. PICK c : Takes(r, c) /\ Begun(c)
      BY <3>1 DEF Launches, Refreshes
    <3>3. Steps(r)
      BY <1>1, <3>2, QuietStep DEF Takes
    <3>4. Rows' /\ CallsOK' /\ Doors' /\ WaysIn'
      BY <1>1, <3>3, DoorsKept, WaysKept DEF Steps
    <3>5. Renewals'
      BY <1>1, <3>1, LaunchKeeps
    <3> QED BY <1>1, <2>1, <3>4, <3>5 DEF AccountsInv, WellFormed, ReadSteps
  <2> QED BY <2>1, <2>2, <2>3 DEF ReadSteps
<1>5. CASE \E r \in Reads, b \in Browsers, fetch \in BOOLEAN : jwt(r, b, fetch)
  BY <1>1, <1>4, <1>5, JwtSteps
<1>6. CASE \E r \in Reads : catchUp(r) \/ Delivered(r) \/ AnswerDropped(r) \/ apiFetch(r)
  BY <1>1, <1>4, <1>6, CatchUpSteps, DeliverySteps, ApiFetchSteps
<1>7. faults' # 0 => Renewals'
  BY DEF Renewals, Undisturbed
<1>8. CASE \E r \in Reads : RefreshAnswered(r) \/ Unreachable(r) \/ AnswerCutOff(r)
  BY <1>1, <1>2, <1>7, <1>8, RefreshSettles, AnswerKeeps
<1>9. CASE \E t \in 1 .. MaxRows : ForgetSpent(t)
  BY <1>1, <1>2, <1>3, <1>9, TimerKeeps, TimerForgets
<1>10. CASE RestartWeb
  BY <1>1, <1>2, <1>7, <1>10, RestartKeeps
<1>11. CASE \E b \in Browsers : SessionWatch(b)
  <2>1. PICK b \in Browsers : SessionWatch(b)
    BY <1>11
  <2>2. /\ ReadsOK' /\ PagesOK' /\ UNCHANGED authStoreVars
        /\ UNCHANGED <<auth, read, spent, faults>>
    BY <1>1, <2>1, WatchKeeps
  <2>3. clock' = clock /\ sessions' = sessions /\ clock \in Nat
    BY <1>1, <2>2, RowFinds DEF authStoreVars
  <2>4. Drops /\ Rows' /\ Grown
    BY <1>1, <1>3, <2>2, DropsKeep
  <2>5. Placid
    BY <2>2, <2>3, <2>4 DEF Placid
  <2> QED BY <1>1, <1>2, <2>2, <2>4, <2>5, PlacidKeeps
<1> QED BY <1>5, <1>6, <1>8, <1>9, <1>10, <1>11 DEF Renew

\* The clock moves.
LEMMA TimeKeeps ==
  ASSUME AccountsInv, PassTime, UNCHANGED <<auth, pageVars, renewalVars, scene>>
  PROVE  AccountsInv'
<1>1. /\ Rows /\ CallsOK /\ Doors /\ WaysIn /\ ReadsOK /\ PagesOK /\ Renewals
      /\ scene \in Scenes /\ UNCHANGED <<jar, page, read, spent, faults, scene, auth>>
  BY DEF AccountsInv, WellFormed, pageVars, renewalVars
<1>2. Grown /\ Rows' /\ CallsOK' /\ Doors' /\ WaysIn'
  BY <1>1, TimePasses
<1>3. PagesOK' /\ ReadsOK'
  BY <1>1, <1>2, PagesAlone, ReadsAlone
<1>4. clock \in Nat /\ clock' \in Nat /\ clock' >= clock /\ sessions' = sessions
  BY <1>1, RowFinds DEF PassTime
<1>5. Placid
  BY <1>1, <1>2, <1>4 DEF Placid
<1> QED BY <1>1, <1>2, <1>3, <1>5, PlacidKeeps DEF AccountsInv, WellFormed

\* Every step keeps the invariant.
LEMMA InvKept == AccountsInv /\ [AccountsNext]_accountsVars => AccountsInv'
<1> SUFFICES ASSUME AccountsInv, [AccountsNext]_accountsVars PROVE AccountsInv'
  OBVIOUS
<1>1. WellFormed /\ scene.at \subseteq Browsers
  BY AccountsAssumption DEF AccountsInv, WellFormed
<1>2. CASE AccountsNext
  <2>1. UNCHANGED scene
    BY <1>2 DEF AccountsNext
  <2>2. CASE \E b \in scene.at :
               /\ PasswordActs(b) \/ ProviderActs(b) \/ AccountActs(b) \/ PageAnswered(b)
               /\ UNCHANGED renewalVars
    BY <1>1, <2>1, <2>2, PasswordForms, ProviderForms, AccountForms, AnswersTaken, BrowserKeeps
  <2>3. CASE \E k \in Desks : DeskActs(k) /\ UNCHANGED <<pageVars, renewalVars>>
    BY <2>1, <2>3, DeskKeeps
  <2>4. CASE \E k \in AuthCalls : Serve(k) /\ UNCHANGED <<pageVars, renewalVars>>
    BY <2>1, <2>4, ServiceKeeps
  <2>5. CASE Renew
    BY <2>1, <2>5, RenewalKeeps
  <2>6. CASE PassTime /\ UNCHANGED <<auth, pageVars, renewalVars>>
    BY <2>1, <2>6, TimeKeeps
  <2> QED BY <1>2, <2>2, <2>3, <2>4, <2>5, <2>6 DEF AccountsNext
<1>3. CASE UNCHANGED accountsVars
  <2>1. UNCHANGED <<account, linked, sessions, codes, links, devices, audit, clock, auth, jar, page,
                    read, spent, attempt, faults, scene>>
    BY <1>3 DEF accountsVars, authStoreVars, pageVars, renewalVars
  <2>2. /\ Rows /\ CallsOK /\ Doors /\ WaysIn /\ ReadsOK /\ PagesOK /\ Renewals /\ scene \in Scenes
        /\ auth \in [AuthCalls -> Call]
    BY DEF AccountsInv, WellFormed, CallsOK
  <2>3. Drops /\ UNCHANGED renewalVars
    BY <2>1, <2>2 DEF Drops, authStoreVars, renewalVars
  <2>4. Grown /\ Rows' /\ CallsOK' /\ Doors' /\ WaysIn' /\ clock \in Nat
    BY <2>2, <2>3, DropsKeep, RowFinds
  <2>5. PagesOK' /\ ReadsOK'
    BY <2>1, <2>2, <2>3, <2>4, PagesAlone, ReadsAlone
  <2>6. Placid
    BY <2>1, <2>4 DEF Placid
  <2> QED BY <2>1, <2>2, <2>4, <2>5, <2>6, PlacidKeeps DEF AccountsInv, WellFormed
<1> QED BY <1>2, <1>3

-----------------------------------------------------------------------------
(***************************************************************************)
(* The theorems                                                            *)
(***************************************************************************)

\* The invariant the theorems follow from.
LEMMA AccountsInvariant == AccountsSpec => []AccountsInv
BY InvAtFirst, InvKept, PTL DEF AccountsSpec

\* Rows, calls, cookies and pages stay well formed, whatever browsers, plain
\* clients, the web process and the API do side by side.
THEOREM AccountsAreWellTyped == AccountsSpec => []AccountsTypeOK
<1>1. AccountsInv => AccountsTypeOK
  <2> SUFFICES ASSUME AccountsInv PROVE AccountsTypeOK
    OBVIOUS
  <2>1. /\ AuthStoreTypeOK /\ CallsOK /\ PagesOK /\ ReadsOK
    BY DEF AccountsInv, WellFormed, Rows
  <2>2. SignInTypeOK
    <3>1. ASSUME NEW k \in AuthCalls, auth[k].out # Null PROVE auth[k].out.kind \in Answers
      <4>1. auth[k].out \in AnswerRow
        BY <2>1, <3>1, CallFinds DEF Call
      <4> QED BY <4>1 DEF AnswerRow
    <3> QED BY <2>1, <3>1, CallFinds DEF SignInTypeOK
  <2>3. ASSUME NEW b \in Browsers
        PROVE  /\ {jar[b].session, jar[b].ready} \subseteq {0} \cup DOMAIN sessions
               /\ jar[b].device \in {0} \cup DOMAIN devices
               /\ page[b].at \in {"login", "code", "home", "provider", "email", "otp", "ready",
                                  "sent", "register", "forgot", "reset"}
    <3>1. JarOK(jar[b]) /\ page[b] \in PageRow
      BY <2>1 DEF PagesOK
    <3> QED BY <3>1 DEF JarOK, PageRow
  <2>4. ASSUME NEW r \in Reads PROVE read[r].pc \in {"idle", "call", "wait", "got", "send"}
    <3>1. read[r] \in ReadRow
      BY <2>1 DEF ReadsOK
    <3> QED BY <3>1 DEF ReadRow
  <2> QED BY <2>1, <2>2, <2>3, <2>4 DEF AccountsTypeOK
<1> QED BY <1>1, AccountsInvariant, PTL

\* However many calls present one code or one reset link at once, the claim lets
\* one of them through: no two sessions rest on one code, and no two calls set a
\* password with one link.
THEOREM OneDoorPerCode == AccountsSpec => []CodesOpenOneDoor
<1>1. AccountsInv => CodesOpenOneDoor
  <2> SUFFICES ASSUME AccountsInv PROVE CodesOpenOneDoor
    OBVIOUS
  <2>1. Doors
    BY DEF AccountsInv
  <2>2. ASSUME NEW j \in AuthCalls, NEW k \in AuthCalls, j # k,
               {auth[j].op, auth[k].op} = {"reset"},
               {auth[j].pc, auth[k].pc} \subseteq {"password", "cut", "forget"}
        PROVE  auth[j].row # auth[k].row
    <3>1. Resets(j) /\ Resets(k)
      BY <2>2 DEF Resets, AtPassword
    <3> QED BY <2>1, <2>2, <3>1 DEF Doors
  <2> QED BY <2>1, <2>2 DEF CodesOpenOneDoor, Doors
<1> QED BY <1>1, AccountsInvariant, PTL

\* No session without a second factor: at the root of every chain of rotations
\* is a code its account answered, a device remembered after such a code, or the
\* exemption of an admin.
THEOREM SecondFactorsAreHeld == AccountsSpec => []SecondFactorHeld
<1>1. AccountsInv => SecondFactorHeld
  <2> SUFFICES ASSUME AccountsInv, NEW t \in DOMAIN sessions
               PROVE  LET first == sessions[sessions[t].login]
                          By(n) == codes[n].used /\ codes[n].userId = sessions[t].userId
                      IN  CASE first.via = "code" -> By(first.proof)
                            [] first.via = "device" ->
                                 /\ devices[first.proof].userId = sessions[t].userId
                                 /\ By(devices[first.proof].code)
                            [] first.via = "admin" -> sessions[t].userId \in Admins /\ ADMIN_SKIP_2FA
                            [] OTHER -> FALSE
    BY DEF SecondFactorHeld
  <2> DEFINE first == sessions[sessions[t].login]
             u == sessions[t].userId
  <2>1. Vouched(first.via, first.proof, u)
    BY DEF AccountsInv, WellFormed, Rows, SessionOK
  <2>2. \A d \in DOMAIN devices : Answered(devices[d].code, devices[d].userId)
    BY DEF AccountsInv, WellFormed, Rows
  <2> HIDE DEF first, u
  <2>3. CASE first.via = "code" /\ Answered(first.proof, u)
    BY <2>3 DEF Answered, first, u
  <2>4. CASE first.via = "device" /\ Remembers(first.proof, u)
    BY <2>2, <2>4 DEF Answered, Remembers, first, u
  <2>5. CASE first.via = "admin" /\ u \in Admins /\ ADMIN_SKIP_2FA
    BY <2>5 DEF first, u
  <2> QED BY <2>1, <2>3, <2>4, <2>5 DEF Vouched
<1> QED BY <1>1, AccountsInvariant, PTL

\* One address, one way in: requests for one address that overlap open it once,
\* never give an account a second identity, and never give one that the form
\* opened, before the run or during it, its first.
THEOREM OneWayInPerAddress == AccountsSpec => []OneWayIn
<1>1. AccountsInv => OneWayIn
  BY DEF AccountsInv, WaysIn
<1> QED BY <1>1, AccountsInvariant, PTL

\* However many reads renew side by side, the web process presents no token twice
\* within GRACE of trading it, so it never trips the replay detection that would
\* sign its own user out.
THEOREM OwnClientIsTrusted == AccountsSpec => []OwnClientNeverReplays
<1>1. AccountsInv => OwnClientNeverReplays
  BY DEF AccountsInv, Renewals, Undisturbed, Chains, OwnClientNeverReplays, Rotated
<1> QED BY <1>1, AccountsInvariant, PTL

\* A sign-in never has two live refresh tokens while its web process runs
\* undisturbed.
THEOREM OneTokenLives == AccountsSpec => []OneLiveToken
<1>1. AccountsInv => OneLiveToken
  <2> SUFFICES ASSUME AccountsInv, Undisturbed, NEW s \in DOMAIN sessions, NEW t \in DOMAIN sessions,
                      s # t, sessions[s].login = sessions[t].login
               PROVE  ~Live(s) \/ ~Live(t)
    BY DEF OneLiveToken, Undisturbed
  <2>1. Rows /\ Chains
    BY DEF AccountsInv, WellFormed, Renewals
  <2>2. s \in Nat /\ t \in Nat
    BY <2>1, RowFinds
  <2>3. s < t \/ t < s
    BY <2>2
  <2> QED BY <2>1, <2>3 DEF Chains, Live
<1> QED BY <1>1, AccountsInvariant, PTL
=============================================================================
