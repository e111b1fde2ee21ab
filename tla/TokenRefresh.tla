---------------------------- MODULE TokenRefresh ----------------------------
(***************************************************************************)
(* How the tabs of one browser keep a user signed in: requests that are    *)
(* refused with 401 wait for one refresh of their tab and are sent once    *)
(* more (BaseApiClient, ZustandAuthProvider), a page load refreshes by     *)
(* itself (initializeAuth), a refresh rotates the refresh token and a      *)
(* token that is presented twice signs the user out everywhere             *)
(* (/api/auth/refresh).  The tabs share the cookies and the local storage, *)
(* each has a store of its own.                                            *)
(*                                                                         *)
(* An access token and the refresh token issued with it are a pair, named  *)
(* by its number; 0 is no pair.                                            *)
(***************************************************************************)
EXTENDS Naturals, FiniteSets

CONSTANTS
  Tabs,      \* browser tabs that run the web application
  Calls,     \* the requests a tab can have open at once
  Me,        \* the request for the current user, made by a page load
  ReturnTokens, \* whether answers carry the tokens beside the cookies
  MaxPairs,  \* bound on the pairs issued
  MaxAdrift  \* bound on the refreshes that nobody waits for and the server may still handle

ASSUME TokenAssumption ==
  Me \in Calls /\ ReturnTokens \in BOOLEAN /\ MaxPairs \in Nat \ {0} /\ MaxAdrift \in Nat

VARIABLES
  issued,        \* pairs issued so far
  expired,       \* pairs up to this one: the access token has expired
  revoked,       \* pairs up to this one: every token was revoked at once
  rotated,       \* pairs whose refresh token was rotated
  jar,           \* the pair in the cookies
  store,         \* each tab's auth store
  saved,         \* the auth store in local storage
  call,          \* each tab's requests
  flight,        \* each tab's refreshes: attemptTokenRefresh's and refreshAuth's
  adrift,        \* refreshes their tab has given up and the server may still handle
  alarm,         \* a rotated token was presented again
  causes,        \* what has happened that can make a token be presented again
  ended,         \* the last tab with tokens signed out
  late           \* the refreshes that were under way when it did

server == <<issued, expired, revoked, rotated>>
client == <<jar, store, saved, call, flight, adrift>>
history == <<alarm, causes, ended, late>>
vars == <<server, client, history>>

Pairs == 0 .. MaxPairs
Kinds == {"auto", "init"}
CallStates == [at : {"done", "sent", "waiting", "resent"}, pair : Pairs]
Flights == [at : {"none", "sent", "checked", "rotated", "refused"}, jti : Pairs, new : Pairs]
Stores == [user : BOOLEAN, tokens : Pairs]

SignedOut == [user |-> FALSE, tokens |-> 0]
NoFlight == [at |-> "none", jti |-> 0, new |-> 0]
Refusal == [at |-> "refused", jti |-> 0, new |-> 0]
NoCall == [at |-> "done", pair |-> 0]

TypeOK ==
  /\ issued \in Pairs
  /\ expired \in Pairs /\ revoked \in Pairs
  /\ rotated \subseteq Pairs
  /\ jar \in Pairs
  /\ store \in [Tabs -> Stores]
  /\ saved \in Stores
  /\ call \in [Tabs -> [Calls -> CallStates]]
  /\ flight \in [Tabs -> [Kinds -> Flights]]
  /\ adrift \subseteq Flights
  /\ alarm \in BOOLEAN
  /\ causes \subseteq {"twice", "lost", "error"}
  /\ ended \in BOOLEAN
  /\ late \subseteq Tabs \X Kinds

\* The user is signed in, in the cookies and in one tab; the other tabs were opened since.
Init ==
  /\ issued = 1
  /\ expired = 0 /\ revoked = 0 /\ rotated = {}
  /\ jar = 1
  /\ saved = [user |-> TRUE, tokens |-> IF ReturnTokens THEN 1 ELSE 0]
  /\ store = [t \in Tabs |-> saved]
  /\ call = [t \in Tabs |-> [c \in Calls |-> NoCall]]
  /\ flight = [t \in Tabs |-> [k \in Kinds |-> NoFlight]]
  /\ adrift = {}
  /\ alarm = FALSE
  /\ causes = {}
  /\ ended = FALSE /\ late = {}

-----------------------------------------------------------------------------
(* Tokens.                                                                 *)

\* AuthMiddleware: the access token has neither expired nor been revoked.
Valid(p) == p > expired /\ p > revoked

\* The refresh token was rotated or revoked.
Dead(p) == p \in rotated \/ p \in 1 .. revoked

\* Whether a call of Redis fails: at most one does (the bound on errors).
RedisErrors == {FALSE} \cup (IF "error" \in causes THEN {} ELSE {TRUE})
Noted(error) == IF error THEN {"error"} ELSE {}

\* The access token of a request: the cookie, which goes when the token expires, or the header.
Attached(tokens) == IF jar > expired THEN jar ELSE tokens

\* The refresh token of a refresh: the cookie, or the one in the tab's memory.
Presented(tokens) == IF jar # 0 THEN jar ELSE tokens

\* set() of the store, which also writes local storage.
SetStore(t, s) == store' = [store EXCEPT ![t] = s] /\ saved' = s

\* The tokens of an answer's body.
Tokens(p) == IF ReturnTokens THEN p ELSE 0

\* A refresh the server has not refused.
UnderWay(f) == f.at \in {"sent", "checked", "rotated"}
Live == {f \in UNION {{flight[t][k] : k \in Kinds} : t \in Tabs} : UnderWay(f)}

\* A new refresh, and whether it presents a token that another one has under way, or had when it
\* was given up, or that is only in the memory of the tab.
Refresh(tokens) == [at |-> "sent", jti |-> Presented(tokens), new |-> 0]
Risk(tokens) ==
  IF (\E f \in Live \cup adrift : f.jti = Presented(tokens)) \/ (jar = 0 /\ tokens # 0)
  THEN {"twice"} ELSE {}

\* Variant: the answer sets no cookies.
KeepCookies(p) == jar' = jar

\* set_auth_cookies()
SetCookies(p) == jar' = p

\* What a refresh that is given up leaves behind: a rotation whose answer nobody gets ...
Dropped(f) == IF f.at = "rotated" THEN {"lost"} ELSE {}

\* ... or a request that the server still handles, unless it is lost on the way.
GiveUp(fs) ==
  \E kept \in SUBSET {f \in fs : f.at \in {"sent", "checked"} /\ f.jti # 0} :
    /\ Cardinality(adrift \cup kept) <= MaxAdrift
    /\ adrift' = adrift \cup kept

-----------------------------------------------------------------------------
(* Requests.                                                               *)

\* get(), post(), put(), patch(), delete(): the first attempt of requestWithRetry(), on the
\* pages of a user who is signed in (the others call without includeAuth).  A name of Calls
\* stands for one open request of one tab: with enough names a tab has any number of them.
Request(t, c) ==
  /\ c # Me
  /\ store[t] # SignedOut
  /\ \A u \in Tabs : call[u][c].at = "done"
  /\ call' = [call EXCEPT ![t][c] = [at |-> "sent", pair |-> Attached(store[t].tokens)]]
  /\ UNCHANGED <<server, jar, store, saved, flight, adrift, history>>

\* handleResponse(): a good answer; the current user goes into the store.
Answer(t, c) ==
  /\ call[t][c].at \in {"sent", "resent"}
  /\ Valid(call[t][c].pair)
  /\ call' = [call EXCEPT ![t][c] = NoCall]
  /\ IF c = Me THEN SetStore(t, [store[t] EXCEPT !.user = TRUE]) ELSE UNCHANGED <<store, saved>>
  /\ UNCHANGED <<server, jar, flight, adrift, history>>

\* Variant: every refused request refreshes by itself.
RefreshEach(t) == Refresh(store[t].tokens)

\* attemptTokenRefresh(): the refresh under way, or a new one.
SharedRefresh(t) ==
  IF flight[t]["auto"].at # "none" THEN flight[t]["auto"] ELSE Refresh(store[t].tokens)

\* A first attempt is refused, a valid token too when Redis cannot be asked whether it was
\* revoked: the request waits for the refresh.
Refused(t, c) ==
  /\ call[t][c].at = "sent"
  /\ \E error \in RedisErrors :
       /\ error = Valid(call[t][c].pair)
       /\ causes' = causes \cup Noted(error) \cup
                    (IF flight[t]["auto"].at # "none" THEN {} ELSE Risk(store[t].tokens))
  /\ call' = [call EXCEPT ![t][c] = [at |-> "waiting", pair |-> 0]]
  /\ flight' = [flight EXCEPT ![t]["auto"] = SharedRefresh(t)]
  /\ UNCHANGED <<server, jar, store, saved, adrift, alarm, ended, late>>

\* The second attempt is refused: onUnauthorized() signs the tab out.
RefusedAgain(t, c) ==
  /\ call[t][c].at = "resent"
  /\ ~Valid(call[t][c].pair)
  /\ call' = [call EXCEPT ![t][c] = NoCall]
  /\ SetStore(t, SignedOut)
  /\ UNCHANGED <<server, jar, flight, adrift, history>>

\* handleRequestError(): any other failure ends the request and changes nothing else.
Fail(t, c) ==
  /\ call[t][c].at \in {"sent", "resent"}
  /\ call' = [call EXCEPT ![t][c] = NoCall]
  /\ UNCHANGED <<server, jar, store, saved, flight, adrift, history>>

-----------------------------------------------------------------------------
(* A refresh.                                                              *)

\* What refresh_token() says first: no token is refused, so is one that is malformed or out of
\* time or whose user is gone, and a revoked one is taken for stolen.  is_token_revoked() says
\* yes when Redis cannot be asked.
Verdicts(f, error) ==
  (IF error THEN {} ELSE {"refused"}) \cup
  (IF f.jti = 0 THEN {} ELSE IF error \/ Dead(f.jti) THEN {"stolen"} ELSE {"checked"})

\* A stolen token revokes every token of the user.
Judge(verdict, error) ==
  /\ revoked' = IF verdict = "stolen" THEN issued ELSE revoked
  /\ alarm' = (alarm \/ verdict = "stolen")
  /\ causes' = causes \cup Noted(error)
  /\ UNCHANGED <<issued, expired, rotated, jar, store, saved, call, ended, late>>

\* After the queries for the user and the device: revoke the old token, an error being
\* ignored, and issue a pair.
Replace(jti, dropped) ==
  /\ issued < MaxPairs
  /\ issued' = issued + 1
  /\ \E error \in RedisErrors :
       /\ rotated' = IF error THEN rotated ELSE rotated \cup {jti}
       /\ causes' = causes \cup Noted(error) \cup dropped
  /\ UNCHANGED <<expired, revoked, jar, store, saved, call, alarm, ended, late>>

\* The server handles a refresh that its tab waits for, in two steps.
CheckRefresh(t, k) ==
  /\ flight[t][k].at = "sent"
  /\ \E error \in RedisErrors : \E verdict \in Verdicts(flight[t][k], error) :
       /\ flight' = [flight EXCEPT ![t][k] =
                       IF verdict = "checked" THEN [@ EXCEPT !.at = "checked"] ELSE Refusal]
       /\ Judge(verdict, error)
  /\ UNCHANGED adrift

Rotate(t, k) ==
  /\ flight[t][k].at = "checked"
  /\ Replace(flight[t][k].jti, {})
  /\ flight' = [flight EXCEPT ![t][k].at = "rotated", ![t][k].new = issued + 1]
  /\ UNCHANGED adrift

\* The server handles a refresh that its tab has given up: nobody gets the answer.
CheckAdrift(f) ==
  /\ f.at = "sent"
  /\ \E error \in RedisErrors : \E verdict \in Verdicts(f, error) :
       /\ adrift' = (adrift \ {f}) \cup
                    (IF verdict = "checked" THEN {[f EXCEPT !.at = "checked"]} ELSE {})
       /\ Judge(verdict, error)
  /\ UNCHANGED flight

RotateAdrift(f) ==
  /\ f.at = "checked"
  /\ Replace(f.jti, {"lost"})
  /\ adrift' = adrift \ {f}
  /\ UNCHANGED flight

\* The answer: cookies and store take the new pair; the requests that waited are sent again,
\* a page load asks for the current user.
Refreshed(t, k) ==
  LET p == flight[t][k].new
  IN  /\ flight[t][k].at = "rotated"
      /\ SetCookies(p)
      /\ SetStore(t, [store[t] EXCEPT !.tokens = Tokens(p)])
      /\ flight' = [flight EXCEPT ![t][k] = NoFlight]
      /\ call' = [call EXCEPT ![t] = [c \in Calls |->
                   IF k = "auto" /\ @[c].at = "waiting" THEN [at |-> "resent", pair |-> p]
                   ELSE IF k = "init" /\ c = Me THEN [at |-> "sent", pair |-> p]
                   ELSE @[c]]]
      /\ ended' = (ended /\ <<t, k>> \notin late)
      /\ late' = IF ended' THEN late ELSE {}
      /\ UNCHANGED <<server, adrift, alarm, causes>>

\* Variant: only the request that began the refresh learns that it failed.
LeftWaiting(k, r) == r

\* A request that shares the failed refresh fails with it.
Rejected(k, r) == IF k = "auto" /\ r.at = "waiting" THEN NoCall ELSE r

\* No answer, or a refusal.  attemptTokenRefresh(): the requests that waited fail and the tab is
\* signed out.  refreshAuth(): only a refusal signs out, and the page load goes on.
RefreshFailed(t, k) ==
  LET f == flight[t][k]
      out == k = "auto" \/ f.at = "refused"
  IN  /\ f.at # "none"
      /\ flight' = [flight EXCEPT ![t][k] = NoFlight]
      /\ IF out THEN SetStore(t, SignedOut) ELSE UNCHANGED <<store, saved>>
      /\ call' = [call EXCEPT ![t] = [c \in Calls |->
                   IF k = "init" /\ c = Me
                   THEN [at |-> "sent", pair |-> Attached(store'[t].tokens)]
                   ELSE Rejected(k, @[c])]]
      /\ GiveUp({f})
      /\ causes' = causes \cup Dropped(f)
      /\ late' = late \ {<<t, k>>}
      /\ UNCHANGED <<server, jar, alarm, ended>>

-----------------------------------------------------------------------------
(* The user and the clock.                                                 *)

\* A page load: what the old page waited for is dropped, the store comes from local storage,
\* and initializeAuth() refreshes a token that is about to expire or asks for the user.
Load(t) ==
  /\ store' = [store EXCEPT ![t] = saved]
  /\ \E soon \in {b \in BOOLEAN : saved.tokens <= expired => b} :
       LET refresh == saved.tokens # 0 /\ soon
           ask == saved.tokens # 0 /\ ~soon
       IN  /\ call' = [call EXCEPT ![t] = [c \in Calls |->
                        IF ask /\ c = Me THEN [at |-> "sent", pair |-> Attached(saved.tokens)]
                                         ELSE NoCall]]
           /\ flight' = [flight EXCEPT ![t] = [auto |-> NoFlight,
                          init |-> IF refresh THEN Refresh(saved.tokens) ELSE NoFlight]]
           /\ causes' = causes \cup (UNION {Dropped(flight[t][k]) : k \in Kinds})
                               \cup (IF refresh THEN Risk(saved.tokens) ELSE {})
  /\ GiveUp({flight[t][k] : k \in Kinds})
  /\ late' = late \ ({t} \X Kinds)
  /\ UNCHANGED <<server, jar, saved, alarm, ended>>

\* login()
Login(t) ==
  /\ ~store[t].user
  /\ issued < MaxPairs
  /\ issued' = issued + 1
  /\ SetCookies(issued + 1)
  /\ SetStore(t, [user |-> TRUE, tokens |-> Tokens(issued + 1)])
  /\ ended' = FALSE /\ late' = {}
  /\ UNCHANGED <<expired, revoked, rotated, call, flight, adrift, alarm, causes>>

\* Variants: logout() forgets the user and keeps the tokens, or the other fields.
KeepTokens(s) == [s EXCEPT !.user = FALSE]
ClearUser(s) == [user |-> FALSE]

\* logout() of the store.
LogoutStore(s) == SignedOut

\* logout(), first: the answer to its request reaches the browser and the cookies go.
ClearCookies(t) ==
  /\ store[t].user
  /\ jar' = 0
  /\ UNCHANGED <<server, store, saved, call, flight, adrift, history>>

\* logout(), last: once the answer is read, or when there is none, the store of the tab goes.
\* The menu of a phone does no more than that, and a page load in between not even that.
ClearStore(t) ==
  /\ store[t].user
  /\ SetStore(t, LogoutStore(store[t]))
  /\ ended' = (jar = 0 /\ \A u \in Tabs \ {t} : store[u].tokens = 0)
  /\ late' = IF ended' THEN {w \in Tabs \X Kinds : UnderWay(flight[w[1]][w[2]])} ELSE {}
  /\ UNCHANGED <<server, jar, call, flight, adrift, alarm, causes>>

\* The oldest access token's time is up: they live equally long.  That of pair MaxPairs never
\* is (a bound): what it would set off ends in a pair more.
Expire ==
  /\ expired < issued
  /\ expired + 1 < MaxPairs
  /\ expired' = expired + 1
  /\ UNCHANGED <<issued, revoked, rotated, client, history>>

-----------------------------------------------------------------------------

CallNext(t) == \E c \in Calls : Answer(t, c) \/ Refused(t, c) \/ RefusedAgain(t, c) \/ Fail(t, c)
RefreshNext(t) ==
  \E k \in Kinds : CheckRefresh(t, k) \/ Rotate(t, k) \/ Refreshed(t, k) \/ RefreshFailed(t, k)
AdriftNext == \E f \in adrift : CheckAdrift(f) \/ RotateAdrift(f)
UserNext(t) ==
  \/ Load(t) \/ Login(t) \/ ClearCookies(t) \/ ClearStore(t)
  \/ \E c \in Calls : Request(t, c)

Next ==
  \/ \E t \in Tabs : CallNext(t) \/ RefreshNext(t) \/ UserNext(t)
  \/ AdriftNext
  \/ Expire

Spec == Init /\ [][Next]_vars

-----------------------------------------------------------------------------
(* Properties.                                                             *)

\* refresh_token() takes a token presented twice for theft and signs the user out of every
\* device.  Without a thief that needs one of three things: a refresh that sends a token another
\* one had under way, or had when it was given up, or that was only in the memory of its tab
\* ("twice"), a rotation whose answer nobody got ("lost"), or an error of Redis.
AlarmHasCause == alarm => causes # {}

\* Once every answer has come, the cookies hold a refresh token that still counts, unless the
\* server has rotated it for a tab that no longer listened.
StaleCookieIsTransient ==
  Dead(jar) =>
    alarm \/ "lost" \in causes \/ \E f \in Live : f.at = "rotated" /\ f.jti = jar

\* Once the last tab has cleared its store and the cookies are gone, no open request, refused
\* or sent again, no page load and no refresh that begins later brings tokens back.  Only a
\* refresh that was already under way then can, which logout() does not call off: one that
\* began before, or while logout() waited for its answer with the tokens still in memory.
SignOutHolds == ended => jar = 0 /\ saved.tokens = 0 /\ \A t \in Tabs : store[t].tokens = 0

\* A request waits only for a refresh of its own tab that is still under way, whatever other
\* requests, page loads and sign-outs did in between: attemptTokenRefresh() leaves nobody behind.
WaiterHasRefresh ==
  \A t \in Tabs, c \in Calls : call[t][c].at = "waiting" => flight[t]["auto"].at # "none"

=============================================================================
