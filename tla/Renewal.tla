------------------------------ MODULE Renewal ------------------------------
(***************************************************************************)
(* How the web app keeps a session alive.  Every read of a session runs    *)
(* NextAuth's jwt callback on the server, and the callback trades a        *)
(* refresh token shortly before the access token beside it expires.        *)
(*                                                                         *)
(*   read    idle -> call | wait -> got -> (send -> answered) -> idle      *)
(*                                                                         *)
(* Reads run side by side with the cookie they came with; the process      *)
(* remembers which token became which for GRACE.  An answer may be lost on *)
(* its way to the browser, the API out of reach or cut off mid-answer, and *)
(* the process restarted.                                                  *)
(***************************************************************************)
EXTENDS LoginPages

CONSTANTS
  Reads,              \* session reads, each the slot its refresh runs in
  SKEW_MS, GRACE_MS, MAX_HOPS, COOLDOWN_MS,
  MaxFaults           \* bound on lost answers and restarts

ASSUME RenewalAssumption ==
  /\ Reads \subseteq AuthCalls /\ Reads \cap Browsers = {}
  /\ \A n \in {SKEW_MS, GRACE_MS, MAX_HOPS, COOLDOWN_MS, MaxFaults} : n \in Nat

VARIABLES
  read,       \* progress of each read
  spent,      \* the process's map from a token to what it became
  attempt,    \* when each browser last signed itself out
  faults

\* `token` is awaited, `hops` what is left of the walk, `sent` the header of a
\* request that was refused, `fetch` whether an API request waits for the read.
IdleRead == [pc |-> "idle", browser |-> Null, token |-> 0, hops |-> 0, outcome |-> Null,
             fetch |-> FALSE, sent |-> 0]

\* spent[t]: 0 nothing, -1 in flight, otherwise the new session; `until` is
\* when the timer forgets it.
RenewalInit ==
  /\ read = [r \in Reads |-> IdleRead]
  /\ spent = [t \in 1 .. MaxRows |-> [became |-> 0, until |-> 0]]
  /\ attempt = [b \in Browsers |-> Null]
  /\ faults = 0

renewalVars == <<read, spent, attempt, faults>>

-----------------------------------------------------------------------------
needsRefresh(t) == clock + SKEW_MS >= sessions[t].accessExpiry

\* Mutant: the map is consulted only for finished refreshes.
Remembered_FinishedOnly(t) == spent[t].became > 0

\* Whether a token is known to be spent, or on its way.
Remembered(t) == spent[t].became # 0

\* follow: take what this token became, wait for the refresh that is spending
\* it, or start that refresh.
follow(r, call, t, hops) ==
  IF Remembered(t)
  THEN /\ read' = [read EXCEPT ![r] =
            IF spent[t].became > 0
            THEN [call EXCEPT !.pc = "got", !.outcome = "renewed", !.token = spent[t].became,
                              !.hops = hops]
            ELSE [call EXCEPT !.pc = "wait", !.token = t, !.hops = hops]]
       /\ UNCHANGED <<auth, authStoreVars, spent>>
  ELSE /\ read' = [read EXCEPT ![r] = [call EXCEPT !.pc = "call", !.token = t, !.hops = 0]]
       /\ spent' = [spent EXCEPT ![t] = [became |-> -1, until |-> 0]]
       /\ BeginRefresh(r, t)

\* The jwt callback on the cookie as it came in.  `fetch` marks the read an API
\* request makes for its header.
jwt(r, b, fetch) ==
  LET t == jar[b].session
      call == [IdleRead EXCEPT !.browser = b, !.fetch = fetch]
  IN  /\ read[r].pc = "idle" /\ t # 0
      /\ \/ needsRefresh(t) /\ follow(r, call, t, MAX_HOPS)
         \/ /\ ~needsRefresh(t) /\ fetch
            /\ read' = [read EXCEPT ![r] = [call EXCEPT !.pc = "send", !.token = t]]
            /\ UNCHANGED <<auth, authStoreVars, spent>>
      /\ UNCHANGED <<jar, page, attempt, faults>>

\* What everybody waiting for a token is handed when its refresh settles.
Settle(t, outcome, became) ==
  read' = [r \in Reads |->
             IF read[r].token = t /\ read[r].pc \in {"call", "wait"}
             THEN [read[r] EXCEPT !.pc = "got", !.outcome = outcome,
                                  !.token = IF became = 0 THEN t ELSE became]
             ELSE read[r]]

\* Mutant: the timer starts with the request's expiry, not with its answer.
GraceUntil_Skew == clock + SKEW_MS

GraceUntil == clock + GRACE_MS

\* requestRefresh answered: a pair is remembered, a refusal forgotten.
RefreshAnswered(r) ==
  LET t == read[r].token
      answer == auth[r].out
  IN  /\ read[r].pc = "call" /\ auth[r].pc = "done"
      /\ IF answer.kind = "TOKENS"
         THEN /\ spent' = [spent EXCEPT ![t] = [became |-> answer.session, until |-> GraceUntil]]
              /\ Settle(t, "renewed", answer.session)
         ELSE /\ spent' = [spent EXCEPT ![t] = [became |-> 0, until |-> 0]]
              /\ Settle(t, "dead", 0)
      /\ auth' = [auth EXCEPT ![r] = IdleAuth]
      /\ UNCHANGED <<authStoreVars, jar, page, attempt, faults>>

\* The API was out of reach: the request never ran.
Unreachable(r) ==
  LET t == read[r].token
  IN  /\ read[r].pc = "call" /\ auth[r].pc \in {"rotate", "replay"}
      /\ faults < MaxFaults
      /\ faults' = faults + 1
      /\ spent' = [spent EXCEPT ![t] = [became |-> 0, until |-> 0]]
      /\ Settle(t, "unreachable", 0)
      /\ auth' = [auth EXCEPT ![r] = IdleAuth]
      /\ UNCHANGED <<authStoreVars, jar, page, attempt>>

\* The API answered and the answer was cut off.
AnswerCutOff(r) ==
  LET t == read[r].token
  IN  /\ read[r].pc = "call" /\ auth[r].pc = "done"
      /\ faults < MaxFaults
      /\ faults' = faults + 1
      /\ spent' = [spent EXCEPT ![t] = [became |-> 0, until |-> 0]]
      /\ Settle(t, "unreachable", 0)
      /\ auth' = [auth EXCEPT ![r] = IdleAuth]
      /\ UNCHANGED <<authStoreVars, jar, page, attempt>>

\* catchUp: a remembered pair that went stale is traded on.  The call that
\* made the request takes its answer as it is (no hops left).
Stale(r) == read[r].outcome = "renewed" /\ read[r].hops > 0 /\ needsRefresh(read[r].token)

catchUp(r) ==
  /\ read[r].pc = "got" /\ Stale(r)
  /\ follow(r, [read[r] EXCEPT !.outcome = Null], read[r].token, read[r].hops - 1)
  /\ UNCHANGED <<jar, page, attempt, faults>>

\* The token the callback leaves in the cookie: dropped with an error when the
\* refresh was refused, as it was when nobody could say.
Cookie(r) ==
  LET b == read[r].browser
  IN  CASE read[r].outcome = "renewed" -> [jar[b] EXCEPT !.session = read[r].token, !.error = FALSE]
        [] read[r].outcome = "dead" -> [jar[b] EXCEPT !.session = 0, !.error = TRUE]
        [] OTHER -> jar[b]

\* The answer reaches the browser, and a request that waited goes out with the
\* header it got - the second time only if that is another one.
Delivered(r) ==
  /\ read[r].pc = "got" /\ ~Stale(r)
  /\ jar' = [jar EXCEPT ![read[r].browser] = Cookie(r)]
  /\ read' = [read EXCEPT ![r] =
       IF read[r].fetch /\ read[r].outcome # "dead" /\ read[r].token # read[r].sent
       THEN [@ EXCEPT !.pc = "send", !.outcome = Null] ELSE IdleRead]
  /\ UNCHANGED <<auth, authStoreVars, page, spent, attempt, faults>>

\* The browser dropped the answer, and with it the cookie: a phone put away.
AnswerDropped(r) ==
  /\ read[r].pc = "got" /\ ~Stale(r)
  /\ read' = [read EXCEPT ![r] = IdleRead]
  /\ UNCHANGED <<auth, authStoreVars, jar, page, spent, attempt, faults>>

\* apiFetch: the request, and once more after a 401 with whatever header a
\* second read of the session gives.
apiFetch(r) ==
  LET t == read[r].token
      now == jar[read[r].browser].session
      again == [IdleRead EXCEPT !.browser = read[r].browser, !.fetch = TRUE, !.sent = t]
  IN  /\ read[r].pc = "send"
      /\ IF canActivate(t) \/ read[r].sent # 0 \/ now = 0
         THEN read' = [read EXCEPT ![r] = IdleRead] /\ UNCHANGED <<auth, authStoreVars, spent>>
         ELSE IF needsRefresh(now) THEN follow(r, again, now, MAX_HOPS)
         ELSE /\ read' = [read EXCEPT ![r] =
                   IF now = t THEN IdleRead ELSE [again EXCEPT !.pc = "send", !.token = now]]
              /\ UNCHANGED <<auth, authStoreVars, spent>>
      /\ UNCHANGED <<jar, page, attempt, faults>>

\* The timer of a remembered refresh.
ForgetSpent(t) ==
  /\ spent[t].became > 0 /\ clock >= spent[t].until
  /\ spent' = [spent EXCEPT ![t] = [became |-> 0, until |-> 0]]
  /\ UNCHANGED <<auth, authStoreVars, jar, page, read, attempt, faults>>

\* A restart drops the map and every read; requests the API has run on.
RestartWeb ==
  /\ faults < MaxFaults
  /\ faults' = faults + 1
  /\ spent' = [t \in 1 .. MaxRows |-> [became |-> 0, until |-> 0]]
  /\ read' = [r \in Reads |-> IdleRead]
  /\ auth' = [k \in AuthCalls |-> IF k \in Reads /\ auth[k].pc = "done" THEN IdleAuth ELSE auth[k]]
  /\ UNCHANGED <<authStoreVars, jar, page, attempt>>

\* SessionWatch signs a browser out whose session says RefreshFailed, unless it
\* has just tried.
SessionWatch(b) ==
  /\ jar[b].error
  /\ attempt[b] # Null => clock - attempt[b] >= COOLDOWN_MS
  /\ attempt' = [attempt EXCEPT ![b] = clock]
  /\ jar' = [jar EXCEPT ![b] = [@ EXCEPT !.session = 0, !.error = FALSE]]
  /\ page' = [page EXCEPT ![b] = Page("login")]
  /\ UNCHANGED <<auth, authStoreVars, read, spent, faults>>

Renew ==
  \/ \E r \in Reads, b \in Browsers, fetch \in BOOLEAN : jwt(r, b, fetch)
  \/ \E r \in Reads :
       \/ RefreshAnswered(r) \/ Unreachable(r) \/ AnswerCutOff(r) \/ catchUp(r)
       \/ Delivered(r) \/ AnswerDropped(r) \/ apiFetch(r)
  \/ \E t \in 1 .. MaxRows : ForgetSpent(t)
  \/ RestartWeb
  \/ \E b \in Browsers : SessionWatch(b)
=============================================================================
