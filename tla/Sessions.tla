-------------------------------- MODULE Sessions --------------------------------
(***************************************************************************)
(* Login sessions, both ends. Server: auth/service.ts over Redis           *)
(* (auth/refreshStore.ts), one handler per request, one step per Redis     *)
(* command. Browser: lib/api/client.ts and stores/auth.ts, one tab per     *)
(* session storage; its requests share one refresh. A token stands for the *)
(* pair of an access and a refresh token issued together.                  *)
(***************************************************************************)
EXTENDS Naturals, FiniteSets

CONSTANTS
    Tabs,        \* browser tabs
    NoTab,
    Users,
    NoUser,
    Requests,    \* requests of the pages that may be in flight at once
    K,           \* handlers the server runs at once (bound)
    MaxTokens,   \* pairs issued in one behaviour (bound)
    MaxMishaps   \* failures, lost answers, copies in one behaviour (bound)

ASSUME SessionsAssumption ==
    /\ NoUser \notin Users
    /\ NoTab \notin Tabs
    /\ K \in Nat
    /\ MaxTokens \in Nat
    /\ MaxMishaps \in Nat

VARIABLES
    issued,      \* tokens issued so far: 1 .. issued
    owner,       \* owner[k]: the subject signed into k
    active,      \* the rt: keys of Redis
    used,        \* the rtused: keys
    listed,      \* listed[u]: the set rtu:u
    handler,     \* handler[h]: the request h works on
    tab,         \* tab[t]: the session store and the client of t
    request,     \* request[r]: where r is
    slipped,     \* (observation) tokens saved while their user was being revoked
    mishaps      \* (observation) failures, copies and overtaken refreshes so far

redis == <<issued, owner, active, used, listed>>
client == <<tab, request>>
vars == <<redis, handler, client, slipped, mishaps>>

Tokens == 1 .. MaxTokens
Handlers == 1 .. K
Places == {"idle", "consume", "mark", "lookup", "list", "delete", "drop", "save", "reply"}
Handler == [pc : Places, op : {"login", "refresh", "logout"}, user : Users \cup {NoUser},
            token : 0 .. MaxTokens, members : SUBSET Tokens, doomed : SUBSET Tokens,
            answer : {"none", "ok", "rejected", "unavailable"}, fresh : 0 .. MaxTokens]
Tab == [user : Users \cup {NoUser}, token : 0 .. MaxTokens,
        foreign : BOOLEAN,
        flight : 0 .. K, crossed : BOOLEAN, login : 0 .. K]
Request == [pc : {"idle", "waiting", "retried"}, tab : Tabs \cup {NoTab}]

Idle == [pc |-> "idle", op |-> "login", user |-> NoUser, token |-> 0, members |-> {},
         doomed |-> {}, answer |-> "none", fresh |-> 0]
NoSession == [user |-> NoUser, token |-> 0, foreign |-> FALSE,
              flight |-> 0, crossed |-> FALSE, login |-> 0]
NoRequest == [pc |-> "idle", tab |-> NoTab]

TypeOK ==
    /\ issued \in 0 .. MaxTokens
    /\ owner \in [Tokens -> Users \cup {NoUser}]
    /\ active \subseteq Tokens
    /\ used \subseteq Tokens
    /\ listed \in [Users -> SUBSET Tokens]
    /\ handler \in [Handlers -> Handler]
    /\ tab \in [Tabs -> Tab]
    /\ request \in [Requests -> Request]
    /\ slipped \subseteq Tokens
    /\ mishaps \in 0 .. MaxMishaps + 1

Init ==
    /\ issued = 0
    /\ owner = [k \in Tokens |-> NoUser]
    /\ active = {} /\ used = {} /\ slipped = {}
    /\ listed = [u \in Users |-> {}]
    /\ handler = [h \in Handlers |-> Idle]
    /\ tab = [t \in Tabs |-> NoSession]
    /\ request = [r \in Requests |-> NoRequest]
    /\ mishaps = 0

-----------------------------------------------------------------------------
(* The server: AuthService and RedisRefreshStore *)

At(h, pc) == handler[h].pc = pc
Go(h, pc) == handler' = [handler EXCEPT ![h].pc = pc]
Mishap == mishaps < MaxMishaps /\ mishaps' = mishaps + 1
\* A refresh is overtaken: not counted twice, as the bound must not forbid it.
Overtaking(yes) == mishaps' = IF yes /\ mishaps = 0 THEN 1 ELSE mishaps
Awaited(h) == \E t \in Tabs : h \in {tab[t].flight, tab[t].login}

\* The handler answers; nobody listens to a logout or to a request given up.
Reply(h, answer, fresh) ==
    handler' = [handler EXCEPT ![h] =
        IF ~Awaited(h) THEN Idle
        ELSE [Idle EXCEPT !.pc = "reply", !.op = handler[h].op, !.answer = answer, !.fresh = fresh]]

\* Variant: GET instead of GETDEL.
ConsumeKeeps(h) ==
    /\ At(h, "consume")
    /\ Go(h, IF handler[h].token \in active THEN "mark" ELSE "lookup")
    /\ UNCHANGED <<redis, client, slipped, mishaps>>

\* consume: GETDEL rt.
Consume(h) ==
    /\ At(h, "consume")
    /\ Go(h, IF handler[h].token \in active THEN "mark" ELSE "lookup")
    /\ active' = active \ {handler[h].token}
    /\ UNCHANGED <<issued, owner, used, listed, client, slipped, mishaps>>

\* MULTI: remember the id as used, take it off the user's list; then on to issue,
\* or the end of a logout.
MarkUsed(h) ==
    /\ At(h, "mark")
    /\ LET k == handler[h].token IN
       /\ used' = used \cup {k}
       /\ listed' = [listed EXCEPT ![owner[k]] = @ \ {k}]
    /\ IF handler[h].op = "logout" THEN handler' = [handler EXCEPT ![h] = Idle] ELSE Go(h, "save")
    /\ UNCHANGED <<issued, owner, active, client, slipped, mishaps>>

\* GET rtused: a refresh with a used token revokes the user, with an unknown one
\* only fails; a logout is done either way. What must not survive is noted here.
Lookup(h) ==
    /\ At(h, "lookup")
    /\ LET k == handler[h].token IN
       IF handler[h].op = "logout" THEN handler' = [handler EXCEPT ![h] = Idle]
       ELSE IF k \in used
       THEN handler' = [handler EXCEPT ![h].pc = "list",
                          ![h].doomed = {j \in active : owner[j] = owner[k]} \ slipped]
       ELSE Reply(h, "rejected", 0)
    /\ UNCHANGED <<redis, client, slipped, mishaps>>

\* revokeUser: SMEMBERS rtu ...
ListTokens(h) ==
    /\ At(h, "list")
    /\ handler' = [handler EXCEPT ![h].pc = "delete", ![h].members = listed[handler[h].user]]
    /\ UNCHANGED <<redis, client, slipped, mishaps>>

\* Variant: only the token that was presented is deleted.
DeleteOne(h) ==
    /\ At(h, "delete")
    /\ Go(h, "drop")
    /\ active' = active \ {handler[h].token}
    /\ UNCHANGED <<issued, owner, used, listed, client, slipped, mishaps>>

\* ... DEL rt for each ...
DeleteListed(h) ==
    /\ At(h, "delete")
    /\ handler' = [handler EXCEPT ![h].pc = "drop", ![h].members = {}]
    /\ active' = active \ handler[h].members
    /\ UNCHANGED <<issued, owner, used, listed, client, slipped, mishaps>>

\* ... DEL rtu; refresh then throws REFRESH_REVOKED.
DropList(h) ==
    /\ At(h, "drop")
    /\ listed' = [listed EXCEPT ![handler[h].user] = {}]
    /\ Reply(h, "rejected", 0)
    /\ UNCHANGED <<issued, owner, active, used, client, slipped, mishaps>>

BeingRevoked(u) == \E h \in Handlers : handler[h].user = u /\ handler[h].pc \in {"delete", "drop"}

\* Variant: the user's list is not kept.
SaveUnlisted(h) ==
    /\ At(h, "save")
    /\ issued < MaxTokens
    /\ LET k == issued + 1 IN
       /\ issued' = k
       /\ owner' = [owner EXCEPT ![k] = handler[h].user]
       /\ active' = active \cup {k}
       /\ slipped' = IF BeingRevoked(handler[h].user) THEN slipped \cup {k} ELSE slipped
       /\ Reply(h, "ok", k)
    /\ UNCHANGED <<used, listed, client, mishaps>>

\* issue: sign a pair and save it, one MULTI.
Save(h) ==
    /\ At(h, "save")
    /\ issued < MaxTokens
    /\ LET k == issued + 1 IN
       /\ issued' = k
       /\ owner' = [owner EXCEPT ![k] = handler[h].user]
       /\ active' = active \cup {k}
       /\ listed' = [listed EXCEPT ![handler[h].user] = @ \cup {k}]
       /\ slipped' = IF BeingRevoked(handler[h].user) THEN slipped \cup {k} ELSE slipped
       /\ Reply(h, "ok", k)
    /\ UNCHANGED <<used, client, mishaps>>

\* A Redis or audit call throws, the rate limiter says no, the process dies or the
\* answer is lost, anywhere: the client learns nothing.
HandlerFails(h) ==
    /\ ~At(h, "idle")
    /\ handler[h].answer # "unavailable"
    /\ Reply(h, "unavailable", 0)
    /\ \/ Mishap
       \/ At(h, "save") /\ issued = MaxTokens /\ Overtaking(TRUE)
    /\ UNCHANGED <<redis, client, slipped>>

-----------------------------------------------------------------------------
(* The browser *)

Free(h) == At(h, "idle") /\ \A g \in Handlers : g < h => ~At(g, "idle")

Asks(h, op, user, token) ==
    [handler EXCEPT ![h] = [Idle EXCEPT !.pc = IF op = "login" THEN "save" ELSE "consume",
                                        !.op = op, !.user = user, !.token = token]]

\* useLogin: the credentials were right.
Login(t, u) ==
    /\ tab[t].user = NoUser /\ tab[t].login = 0
    /\ issued < MaxTokens
    /\ \E h \in Handlers :
         /\ Free(h)
         /\ handler' = Asks(h, "login", u, 0)
         /\ tab' = [tab EXCEPT ![t].login = h]
    /\ UNCHANGED <<redis, request, slipped, mishaps>>

\* Its answer: setSession, or an error on the login page.
LoggedIn(t) ==
    LET h == tab[t].login IN
    /\ h # 0 /\ At(h, "reply")
    /\ tab' = [tab EXCEPT ![t] =
          IF handler[h].answer # "ok" THEN [@ EXCEPT !.login = 0]
          ELSE [@ EXCEPT !.login = 0, !.user = owner[handler[h].fresh], !.token = handler[h].fresh,
                         !.foreign = FALSE, !.crossed = (tab[t].flight # 0)]]
    /\ handler' = [handler EXCEPT ![h] = Idle]
    /\ Overtaking(tab[t].flight # 0)
    /\ UNCHANGED <<redis, request, slipped>>

\* The store of t is emptied; a refresh in flight does not notice.
Emptied(s) == [s EXCEPT !.user = NoUser, !.token = 0, !.foreign = FALSE,
                        !.crossed = (s.flight # 0)]

\* Variant: the store is emptied before the refresh token is read from it.
SignOutForgets(t) ==
    /\ tab[t].user # NoUser
    /\ tab' = [tab EXCEPT ![t] = Emptied(@)]
    /\ Overtaking(tab[t].flight # 0)
    /\ UNCHANGED <<redis, handler, request, slipped>>

\* Variant: only the user is removed from the store.
SignOutKeepsTokens(t) ==
    /\ tab[t].user # NoUser
    /\ tab' = [tab EXCEPT ![t].user = NoUser]
    /\ \E h \in Handlers :
         Free(h) /\ handler' = Asks(h, "logout", tab[t].user, tab[t].token)
    /\ Overtaking(tab[t].flight # 0)
    /\ UNCHANGED <<redis, request, slipped>>

\* signOut: empty the store, then ask for a logout without waiting for it.
SignOut(t) ==
    /\ tab[t].user # NoUser
    /\ tab' = [tab EXCEPT ![t] = Emptied(@)]
    /\ \E h \in Handlers :
         Free(h) /\ handler' = Asks(h, "logout", owner[tab[t].token], tab[t].token)
    /\ Overtaking(tab[t].flight # 0)
    /\ UNCHANGED <<redis, request, slipped>>

Ends(r) == request' = [request EXCEPT ![r] = NoRequest]

\* Variant: every 401 sends a refresh of its own.
UnauthorizedAlone(r, t) ==
    /\ request[r].pc = "idle" /\ tab[t].token # 0
    /\ request' = [request EXCEPT ![r] = [pc |-> "waiting", tab |-> t]]
    /\ \E h \in Handlers :
         /\ Free(h)
         /\ handler' = Asks(h, "refresh", owner[tab[t].token], tab[t].token)
         /\ tab' = [tab EXCEPT ![t].flight = h, ![t].crossed = FALSE]
    /\ UNCHANGED <<redis, slipped, mishaps>>

\* A request of t, sent with the access token of its moment, comes back with a 401 (15
\* minutes have passed): join the refresh in flight, or start one with the token of
\* now. Without a token there is nothing to refresh and nobody to sign out.
Unauthorized(r, t) ==
    /\ request[r].pc = "idle"
    /\ tab[t].token # 0 \/ tab[t].flight # 0
    /\ request' = [request EXCEPT ![r] = [pc |-> "waiting", tab |-> t]]
    /\ \/ tab[t].flight # 0 /\ UNCHANGED <<handler, tab>>
       \/ /\ tab[t].flight = 0
          /\ \E h \in Handlers :
               /\ Free(h)
               /\ handler' = Asks(h, "refresh", owner[tab[t].token], tab[t].token)
               /\ tab' = [tab EXCEPT ![t].flight = h, ![t].crossed = FALSE]
    /\ UNCHANGED <<redis, slipped, mishaps>>

Waiting(t) == {r \in Requests : request[r].tab = t /\ request[r].pc = "waiting"}
Landed(s) == [s EXCEPT !.flight = 0, !.crossed = FALSE]
GivenUp(t) == [r \in Requests |-> IF r \in Waiting(t) THEN NoRequest ELSE request[r]]
\* expireSession does nothing in a tab without a user.
Expired(s) == IF s.user = NoUser THEN s ELSE Emptied(s)

\* The answer to the refresh of t: store the pair and let everybody retry with it;
\* or end the session; or fail the requests and keep the session.
Refreshed(t) ==
    LET h == tab[t].flight IN
    /\ h # 0 /\ At(h, "reply")
    /\ \/ /\ handler[h].answer = "ok"
          /\ tab' = [tab EXCEPT ![t] = [Landed(@) EXCEPT !.token = handler[h].fresh,
                                                         !.foreign = tab[t].foreign \/ tab[t].crossed]]
          /\ request' = [r \in Requests |-> IF r \in Waiting(t)
                     THEN [request[r] EXCEPT !.pc = "retried"] ELSE request[r]]
       \/ /\ handler[h].answer = "rejected"
          /\ tab' = [tab EXCEPT ![t] = Expired(Landed(@))]
          /\ request' = GivenUp(t)
       \/ /\ handler[h].answer = "unavailable"
          /\ tab' = [tab EXCEPT ![t] = Landed(@)]
          /\ request' = GivenUp(t)
    /\ handler' = [handler EXCEPT ![h] = Idle]
    /\ UNCHANGED <<redis, slipped, mishaps>>

\* The retried request is answered ...
RetryAnswered(r) ==
    /\ request[r].pc = "retried"
    /\ Ends(r)
    /\ UNCHANGED <<redis, handler, tab, slipped, mishaps>>

\* ... or refused too, although its token is seconds old (the server has got another
\* secret): onAuthFailure.
RetryRefused(r) ==
    LET t == request[r].tab IN
    /\ request[r].pc = "retried"
    /\ Ends(r)
    /\ tab' = [tab EXCEPT ![t] = Expired(@)]
    /\ Mishap
    /\ UNCHANGED <<redis, handler, slipped>>

\* Variant: who shares the refresh is not told.
TimesOutAlone(t) ==
    /\ tab[t].flight # 0 /\ ~At(tab[t].flight, "reply")
    /\ tab' = [tab EXCEPT ![t] = Landed(@)]
    /\ Mishap
    /\ UNCHANGED <<redis, handler, request, slipped>>

\* 30 s pass: 'unavailable', while the handler may still be at work.
TimesOut(t) ==
    /\ tab[t].flight # 0 /\ ~At(tab[t].flight, "reply")
    /\ tab' = [tab EXCEPT ![t] = Landed(@)]
    /\ request' = GivenUp(t)
    /\ Mishap
    /\ UNCHANGED <<redis, handler, slipped>>

\* The page is loaded anew: requests are gone, and the store takes back what session
\* storage holds if it is a whole session.
Reload(t) ==
    /\ tab[t] # NoSession
    /\ tab' = [tab EXCEPT ![t] = IF tab[t].user = NoUser \/ tab[t].token = 0 THEN NoSession
                                 ELSE [NoSession EXCEPT !.user = tab[t].user, !.token = tab[t].token,
                                                        !.foreign = tab[t].foreign]]
    /\ request' = [r \in Requests |-> IF request[r].tab = t THEN NoRequest ELSE request[r]]
    /\ handler' = [h \in Handlers |-> IF h \in {tab[t].flight, tab[t].login} /\ At(h, "reply")
                                      THEN Idle ELSE handler[h]]
    /\ IF tab[t].flight = 0 /\ tab[t].login = 0 THEN UNCHANGED mishaps ELSE Mishap
    /\ UNCHANGED <<redis, slipped>>

\* The browser duplicates a tab, session storage included.
Duplicate(t, s) ==
    /\ tab[s] = NoSession /\ tab[t].user # NoUser /\ tab[t].token # 0
    /\ tab' = [tab EXCEPT ![s] = [NoSession EXCEPT !.user = tab[t].user, !.token = tab[t].token,
                                                   !.foreign = tab[t].foreign]]
    /\ Mishap
    /\ UNCHANGED <<redis, handler, request, slipped>>

-----------------------------------------------------------------------------
Serve(h) == Consume(h) \/ MarkUsed(h) \/ Lookup(h) \/ ListTokens(h) \/ DeleteListed(h)
              \/ DropList(h) \/ Save(h)
Next == \/ \E h \in Handlers : Serve(h) \/ HandlerFails(h)
        \/ \E r \in Requests : \/ RetryAnswered(r) \/ RetryRefused(r)
                               \/ \E t \in Tabs : Unauthorized(r, t)
        \/ \E t \in Tabs : \/ LoggedIn(t) \/ SignOut(t) \/ Refreshed(t) \/ TimesOut(t) \/ Reload(t)
                           \/ \E u \in Users : Login(t, u)
                           \/ \E s \in Tabs : Duplicate(t, s)

Spec == Init /\ [][Next]_vars

-----------------------------------------------------------------------------
\* "Refresh tokens are single-use" (service.ts:31): however tabs, retries and
\* sign-outs overlap, a token is exchanged for at most one other.
SpentOnce == \A h \in Handlers : At(h, "mark") =>
    /\ handler[h].token \notin used
    /\ \A g \in Handlers \ {h} : handler[g].pc \in {"mark", "save"} => handler[g].token # handler[h].token

\* Whatever can still be exchanged is on its user's list, where a revocation looks
\* for it; only what was saved during a revocation may be missing from it.
Revocable == \A k \in active \ slipped : k \in listed[owner[k]]

\* "replaying an already-rotated token revokes the user's whole refresh-token family"
\* (service.ts:32): once the list is deleted, no token is left that was there when the
\* used one was presented.
ReplayEndsFamily == \A h \in Handlers :
    At(h, "drop") => handler[h].doomed \cap active = {}

\* "Token rotation; the user is unchanged" (stores/auth.ts:27): the tokens of a tab are
\* those of the user it shows, and a tab without a user has none; unless a sign-out
\* or login overtook a refresh, whose answer then fills the store of the next session.
TokensBelongToUser == \A t \in Tabs :
    ~tab[t].foreign /\ tab[t].token # 0 => tab[t].user = owner[tab[t].token]

\* A session is never ended under its user by the program itself: not by two requests
\* that find the access token expired at the same time, not by a late 401.
NoSpuriousExpiry == [][mishaps' = 0 =>
    \A t \in Tabs : tab[t].user # NoUser /\ tab'[t].user = NoUser => SignOut(t)]_vars

\* As long as nothing failed, every token that can be exchanged is in a tab, on its way
\* to one, or on its way to be revoked: a sign-out leaves none behind.
NothingLeaks == mishaps = 0 => \A k \in active :
    \/ \E t \in Tabs : tab[t].token = k
    \/ \E h \in Handlers : handler[h].fresh = k
    \/ \E h \in Handlers : At(h, "consume") /\ handler[h].token = k

\* A request that waits for a refresh waits for one that is on its way: whatever ends
\* the refresh, an answer, a time-out or a reload, takes everybody who waits with it.
NobodyWaitsInVain == \A r \in Requests : request[r].pc = "waiting" =>
    LET h == tab[request[r].tab].flight IN h # 0 /\ ~At(h, "idle") /\ handler[h].op = "refresh"
=============================================================================
