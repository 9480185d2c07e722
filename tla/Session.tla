------------------------------- MODULE Session -------------------------------
(***************************************************************************)
(* The signed-in session of one dashboard user over several browser tabs.  *)
(*                                                                         *)
(* A session is a pair of tokens: an access token that every API call      *)
(* carries and a refresh token that buys the next pair.  The tabs share    *)
(* localStorage and a BroadcastChannel; every tab has a page with timers,  *)
(* one shared refresh promise and calls that answer a 401 by refreshing    *)
(* (dashboard/src/lib/api.ts, store.tsx).  The server rotates refresh      *)
(* tokens and accepts a rotated one for five more minutes                  *)
(* (api/src/routes/auth/session.rs).  The API's own cookies are            *)
(* SameSite=Lax on another site than the dashboard, so the refresh token   *)
(* travels in the request body only.                                       *)
(*                                                                         *)
(* Tokens are numbered in the order the server issues them; pair n is      *)
(* access token n and refresh token n.                                     *)
(***************************************************************************)
EXTENDS Naturals, Sequences, FiniteSets

CONSTANTS
    Tabs,
    MaxTokens,   \* bound: how many pairs the server issues
    Allow        \* the mishaps of this instance, a subset of Mishaps

\* "again" lets the user sign in again, "on" work on after a mishap.
Mishaps == {"reload", "restore", "idle", "error", "sleep", "again", "on"}

ASSUME SessionAssumption == MaxTokens \in Nat /\ Allow \subseteq Mishaps

VARIABLES
    issued,      \* server: number of pairs issued so far
    access,      \* server: state of each access token
    refresh,     \* server: state of each refresh token
    logouts,     \* requests to /auth/logout on the way, by their access token
    local,       \* localStorage: hooksniff_token and hooksniff_refresh
    tab,         \* the page of each tab
    requests,    \* requests to /auth/refresh not yet received
    bell,        \* BroadcastChannel messages on their way to each tab
    wanted,      \* history: the user has signed in and not ended the session
    dropped,     \* history: a tab was sent to /login while the session was wanted
    disturbed    \* history: a mishap has befallen the session that is wanted

server == <<issued, access, refresh>>
history == <<wanted, dropped, disturbed>>
svars == <<server, logouts, local, tab, requests, bell, history>>

None == 0
Token == 1..MaxTokens
MaybeToken == 0..MaxTokens

\* onTokenRefreshed is set whenever a signed-in page has its timers, so timers
\* stands for both.
Page == [ token : MaybeToken,  \* tokenRef and the token state of AuthProvider
          timers : BOOLEAN,    \* startProactiveRefresh is in force
          call : {"none", "sent", "waiting"},
          carries : MaybeToken ]   \* the token an unanswered call carries

LoginPage == [token |-> None, timers |-> FALSE, call |-> "none", carries |-> None]

\* A refresh in flight: who asked, with which token, what came back, whether
\* doRefresh or the silent restore of the mount sent it, whether the page's
\* refreshPromise still points to it, and who awaits it.
Pending == MaxTokens + 1
RefreshRequest == [ from : Tabs, uses : MaybeToken, got : MaybeToken \cup {Pending},
                    restore : BOOLEAN, current : BOOLEAN,
                    timer : BOOLEAN, call : BOOLEAN ]

\* What the tabs tell each other: TOKEN_REFRESHED with a token, INACTIVITY_LOGOUT.
IdleLogout == None
Messages == Token \cup {IdleLogout}

SessionTypeOK ==
    /\ issued \in MaybeToken
    /\ access \in [Token -> {"none", "ok", "expired", "revoked"}]
    /\ refresh \in [Token -> {"none", "live", "grace", "dead"}]
    /\ logouts \subseteq Token
    /\ local \in [token : MaybeToken, refresh : MaybeToken]
    /\ tab \in [Tabs -> Page]
    /\ requests \subseteq RefreshRequest
    /\ bell \in [Tabs -> Seq(Messages)]
    /\ wanted \in BOOLEAN
    /\ dropped \in BOOLEAN
    /\ disturbed \in BOOLEAN

SessionInit ==
    /\ issued = 0
    /\ access = [k \in Token |-> "none"]
    /\ refresh = [k \in Token |-> "none"]
    /\ logouts = {}
    /\ local = [token |-> None, refresh |-> None]
    /\ tab = [t \in Tabs |-> LoginPage]
    /\ requests = {}
    /\ bell = [t \in Tabs |-> <<>>]
    /\ wanted = FALSE
    /\ dropped = FALSE
    /\ disturbed = FALSE

-----------------------------------------------------------------------------
(* Helpers.                                                                *)

\* Bounds: a step that may cost the server a pair is taken only while pairs are
\* left for everything already under way, and a session that is disturbed or
\* ended only finishes what it has begun, unless "on" is allowed.
Demand ==
    issued + Cardinality({q \in requests : q.got = Pending})
    + Cardinality({t \in Tabs : tab[t].call = "sent"})
InBudget == Demand < MaxTokens
MayStart == InBudget /\ wanted /\ (disturbed => "on" \in Allow)

\* The server makes pair issued + 1.
Issue ==
    /\ issued < MaxTokens
    /\ issued' = issued + 1
    /\ access' = [access EXCEPT ![issued + 1] = "ok"]

\* A message reaches the other tabs that listen now.
Told(t, m) ==
    [u \in Tabs |-> IF u # t /\ tab[u].timers THEN Append(bell[u], m) ELSE bell[u]]

\* The page goes away with its requests, messages and calls, another is loaded.
Load(t, page, sent, ring) ==
    /\ tab' = [tab EXCEPT ![t] = page]
    /\ bell' = [ring EXCEPT ![t] = <<>>]
    /\ requests' = {q \in requests : q.from # t} \cup sent

\* The page forgets its refreshPromise; the refresh itself goes on.
Forgotten(t, Q) == {IF q.from = t THEN [q EXCEPT !.current = FALSE] ELSE q : q \in Q}

\* Mutant: the call that joins is forgotten.
MutDoRefresh(t, timer, call) ==
    IF \E q \in requests : q.from = t /\ q.current
    THEN {IF q.from = t /\ q.current THEN [q EXCEPT !.timer = @ \/ timer] ELSE q : q \in requests}
    ELSE requests \cup {[from |-> t, uses |-> local.refresh, got |-> Pending, restore |-> FALSE,
                         current |-> TRUE, timer |-> timer, call |-> call]}

\* doRefresh: join the refresh under way or send localStorage's refresh token.
DoRefresh(t, timer, call) ==
    IF \E q \in requests : q.from = t /\ q.current
    THEN {IF q.from = t /\ q.current
          THEN [q EXCEPT !.timer = @ \/ timer, !.call = @ \/ call] ELSE q : q \in requests}
    ELSE requests \cup {[from |-> t, uses |-> local.refresh, got |-> Pending, restore |-> FALSE,
                         current |-> TRUE, timer |-> timer, call |-> call]}

\* A tab is sent to /login: noted when the user never asked for it.
Kick == dropped' = (dropped \/ wanted)

Mishap == disturbed' = (disturbed \/ wanted)
MayHappen(m) == m \in Allow /\ Mishap

-----------------------------------------------------------------------------
(* The server.                                                             *)

\* Mutant: a refresh token is good for one use.
MutAccepted == {"live"}

\* POST /auth/refresh: a token that is live, or was rotated less than five
\* minutes ago, is rotated (again) and buys a new pair.
Accepted == {"live", "grace"}

ServeRefresh(q) ==
    /\ q.got = Pending
    /\ IF q.uses # None /\ refresh[q.uses] \in Accepted
       THEN /\ Issue
            /\ refresh' = [refresh EXCEPT ![q.uses] = "grace", ![issued + 1] = "live"]
            /\ requests' = (requests \ {q}) \cup {[q EXCEPT !.got = issued + 1]}
       ELSE /\ requests' = (requests \ {q}) \cup {[q EXCEPT !.got = None]}
            /\ UNCHANGED server
    /\ UNCHANGED <<logouts, local, tab, bell, history>>

\* The network loses the request or its answer, or the server fails: doRefresh
\* and the mount see null.
LoseRefresh(q) ==
    /\ q.got # None
    /\ requests' = (requests \ {q}) \cup {[q EXCEPT !.got = None]}
    /\ MayHappen("error")
    /\ UNCHANGED <<server, logouts, local, tab, bell, wanted, dropped>>

\* POST /auth/logout: the presented access token is revoked and with it every
\* refresh token of the customer, except that one rotated within the last five
\* minutes keeps its recent revoked_at.  An expired access token gets a 401.
ServeLogout(k) ==
    /\ k \in logouts
    /\ logouts' = logouts \ {k}
    /\ IF access[k] = "ok"
       THEN /\ access' = [access EXCEPT ![k] = "revoked"]
            /\ refresh' = [j \in Token |-> IF refresh[j] = "live" THEN "dead" ELSE refresh[j]]
            /\ Mishap
       ELSE UNCHANGED <<access, refresh, disturbed>>
    /\ UNCHANGED <<issued, local, tab, requests, bell, wanted, dropped>>

\* Nobody can tell what becomes of a token that is held nowhere.
InUse(k) ==
    \/ k \in {local.token, local.refresh}
    \/ \E t \in Tabs : k \in {tab[t].token, tab[t].carries} \/ \E i \in DOMAIN bell[t] : bell[t][i] = k
    \/ \E q \in requests : k \in {q.uses, q.got}

\* An hour passes; no answer takes that long.
AccessExpires(k) ==
    /\ access[k] = "ok" /\ InUse(k)
    /\ ~\E q \in requests : q.got = k
    /\ access' = [access EXCEPT ![k] = "expired"]
    /\ UNCHANGED <<issued, refresh, logouts, local, tab, requests, bell, history>>

\* Five minutes pass after a rotation.  An answer that takes longer (a laptop
\* put to sleep) is a mishap.
GraceEnds(k) ==
    /\ refresh[k] = "grace" /\ InUse(k)
    /\ IF \E q \in requests : q.uses = k
       THEN MayHappen("sleep")
       ELSE UNCHANGED disturbed
    /\ refresh' = [refresh EXCEPT ![k] = "dead"]
    /\ UNCHANGED <<issued, access, logouts, local, tab, requests, bell, wanted, dropped>>

-----------------------------------------------------------------------------
(* Signing in and out.                                                     *)

\* AuthProvider.login: persistAuth and login store the pair and start the
\* timers.  Whatever of the old session is still on its way may hit the new
\* one: that is a mishap.
Login(t) ==
    /\ tab[t].token = None
    /\ issued = 0 \/ "again" \in Allow
    /\ InBudget
    /\ Issue
    /\ refresh' = [refresh EXCEPT ![issued + 1] = "live"]
    /\ local' = [token |-> issued + 1, refresh |-> issued + 1]
    /\ tab' = [tab EXCEPT ![t].token = issued + 1, ![t].timers = TRUE]
    /\ requests' = Forgotten(t, requests)
    /\ wanted' = TRUE
    /\ dropped' = FALSE
    /\ disturbed' = (requests # {} \/ \E u \in Tabs : tab[u].call # "none")
    /\ UNCHANGED <<logouts, bell>>

\* AuthProvider.logout without the history: stop, tell the server, clear the
\* page and localStorage.
SignOut(t) ==
    /\ logouts' = IF tab[t].token # None THEN logouts \cup {tab[t].token} ELSE logouts
    /\ local' = [token |-> None, refresh |-> None]
    /\ tab' = [tab EXCEPT ![t].token = None, ![t].timers = FALSE]
    /\ requests' = Forgotten(t, requests)
    /\ UNCHANGED server

Logout(t) ==
    /\ tab[t].token # None
    /\ SignOut(t)
    /\ wanted' = FALSE
    /\ UNCHANGED <<bell, dropped, disturbed>>

\* The hour of inactivity in tab t is over.  The timer of startProactiveRefresh
\* tells the other tabs, useIdleTimeout of the shell does not.  The user may
\* have been active in another tab all along: that is the mishap.
Idle(t) ==
    /\ "idle" \in Allow
    /\ tab[t].timers
    /\ wanted /\ ~disturbed
    /\ \E told, away \in BOOLEAN :
          /\ told \/ tab[t].token # None
          /\ bell' = IF told THEN Told(t, IdleLogout) ELSE bell
          /\ IF away THEN wanted' = FALSE /\ UNCHANGED disturbed ELSE UNCHANGED wanted /\ Mishap
    /\ SignOut(t)
    /\ UNCHANGED dropped

-----------------------------------------------------------------------------
(* The page.                                                               *)

\* The user reloads the page or opens the site in this tab.  The mount effect of
\* AuthProvider signs the page in with the stored token at once, and when
\* /auth/me answers 401 refreshes on its own: see ReceiveRestore.
Reload(t) ==
    /\ MayStart
    /\ LET k == local.token
           stale == k # None /\ access[k] # "ok"
           loses == \E q \in requests : q.from = t /\ q.uses = local.refresh
       IN /\ Load(t, [LoginPage EXCEPT !.token = k, !.timers = k # None],
                  IF stale THEN {[from |-> t, uses |-> local.refresh, got |-> Pending, restore |-> TRUE,
                                  current |-> FALSE, timer |-> FALSE, call |-> FALSE]} ELSE {}, bell)
          /\ IF stale \/ loses
             THEN (stale => "restore" \in Allow) /\ (loses => "reload" \in Allow) /\ Mishap
             ELSE UNCHANGED disturbed
    /\ UNCHANGED <<server, logouts, local, wanted, dropped>>

\* Mutant: the mount does not await the answer.
MutReceiveRestore(q) ==
    /\ q.restore
    /\ requests' = requests \ {q}
    /\ tab' = [tab EXCEPT ![q.from].token = q.got]
    /\ local' = [local EXCEPT !.token = q.got]
    /\ UNCHANGED <<server, logouts, bell, history>>

\* The mount's refresh returns: the new access token is kept, the new refresh
\* token is dropped and localStorage keeps the one just rotated.
ReceiveRestore(q) ==
    /\ q.restore /\ q.got # Pending
    /\ requests' = requests \ {q}
    /\ IF q.got # None
       THEN /\ tab' = [tab EXCEPT ![q.from].token = q.got]
            /\ local' = [local EXCEPT !.token = q.got]
       ELSE UNCHANGED <<tab, local>>
    /\ UNCHANGED <<server, logouts, bell, history>>

\* The 50 minute interval, or the tab becoming visible near the expiry.
ProactiveRefresh(t) ==
    /\ tab[t].timers
    /\ MayStart
    /\ requests' = DoRefresh(t, TRUE, FALSE)
    /\ UNCHANGED <<server, logouts, local, tab, bell, history>>

\* apiFetch sends a request with the token the component holds.
SendCall(t) ==
    /\ tab[t].call = "none" /\ tab[t].token # None
    /\ MayStart
    /\ tab' = [tab EXCEPT ![t].call = "sent", ![t].carries = tab[t].token]
    /\ UNCHANGED <<server, logouts, local, requests, bell, history>>

\* The answer: fine, or a 401 that makes apiFetch refresh.
CallAnswered(t) ==
    /\ tab[t].call = "sent"
    /\ IF access[tab[t].carries] = "ok"
       THEN tab' = [tab EXCEPT ![t].call = "none", ![t].carries = None] /\ UNCHANGED requests
       ELSE tab' = [tab EXCEPT ![t].call = "waiting", ![t].carries = None] /\ requests' = DoRefresh(t, FALSE, TRUE)
    /\ UNCHANGED <<server, logouts, local, bell, history>>

\* What apiFetch does when the refresh or the repeated request fails: stop,
\* drop the access token and load /login.
GiveUpCall(t) ==
    Load(t, LoginPage, {}, bell) /\ local' = [local EXCEPT !.token = None] /\ Kick

\* Mutant: the new refresh token is not stored.
MutGotToken(q) ==
    LET t == q.from IN
    /\ local' = [local EXCEPT !.token = IF q.timer \/ q.call THEN q.got ELSE @]
    /\ bell' = Told(t, q.got)
    /\ tab' = [tab EXCEPT ![t].token = IF q.timer \/ (q.call /\ tab[t].timers) THEN q.got ELSE @,
                          ![t].call = IF q.call THEN "none" ELSE @]
    /\ requests' = Forgotten(t, requests \ {q})
    /\ UNCHANGED <<dropped, disturbed>>

\* doRefresh's answer reaches the page: the refresh token is stored, the other
\* tabs are told, the promise is cleared (whichever it is by now) and whoever
\* awaits it goes on: the interval hands the token to AuthProvider; the call
\* hands it over too, or past the page after a stop, and is repeated.
GotToken(q) ==
    LET t == q.from IN
    /\ local' = [refresh |-> q.got, token |-> IF q.timer \/ q.call THEN q.got ELSE local.token]
    /\ bell' = Told(t, q.got)
    /\ tab' = [tab EXCEPT ![t].token = IF q.timer \/ (q.call /\ tab[t].timers) THEN q.got ELSE @,
                          ![t].call = IF q.call THEN "none" ELSE @]
    /\ requests' = Forgotten(t, requests \ {q})
    /\ UNCHANGED <<dropped, disturbed>>

\* The repeated request: only a 2xx keeps the session, any other status is
\* taken for a failed refresh.
RepeatFails(q) ==
    /\ q.call
    /\ IF access[q.got] = "ok" THEN MayHappen("error") ELSE UNCHANGED disturbed
    /\ Load(q.from, LoginPage, {}, Told(q.from, q.got))
    /\ local' = [token |-> None, refresh |-> q.got]
    /\ Kick

ReceiveRefresh(q) ==
    /\ ~q.restore /\ q.got # Pending
    /\ IF q.got # None
       THEN \/ (q.call => access[q.got] = "ok") /\ GotToken(q)
            \/ RepeatFails(q)
       ELSE /\ IF q.call THEN GiveUpCall(q.from)
               ELSE /\ requests' = Forgotten(q.from, requests \ {q})
                    /\ UNCHANGED <<local, tab, bell, dropped>>
            /\ UNCHANGED disturbed
    /\ UNCHANGED <<server, logouts, wanted>>

\* A message of another tab; a page that has stopped has no onmessage.
Hear(t) ==
    /\ bell[t] # <<>>
    /\ bell' = [bell EXCEPT ![t] = Tail(@)]
    /\ LET m == Head(bell[t]) IN
       IF ~tab[t].timers THEN UNCHANGED <<server, logouts, local, tab, requests, history>>
       ELSE IF m = IdleLogout THEN SignOut(t) /\ Kick /\ Mishap /\ UNCHANGED wanted
       ELSE /\ tab' = [tab EXCEPT ![t].token = m]
            /\ local' = [local EXCEPT !.token = m]
            /\ UNCHANGED <<server, logouts, requests, history>>

-----------------------------------------------------------------------------
TabStep(t) ==
    \/ Login(t) \/ Logout(t) \/ Idle(t) \/ Reload(t)
    \/ ProactiveRefresh(t) \/ SendCall(t) \/ CallAnswered(t) \/ Hear(t)

SessionNext ==
    \/ \E t \in Tabs : TabStep(t)
    \/ \E q \in requests : ServeRefresh(q) \/ LoseRefresh(q) \/ ReceiveRefresh(q) \/ ReceiveRestore(q)
    \/ \E k \in Token : ServeLogout(k) \/ AccessExpires(k) \/ GraceEnds(k)

SessionSpec == SessionInit /\ [][SessionNext]_svars

\* The refresh a tab's call waits for is served or fails, and its answer
\* arrives: what the network and the browser do for every fetch.
SessionFairness ==
    \A t \in Tabs :
       /\ WF_svars(\E q \in requests : q.from = t /\ q.call /\ ServeRefresh(q))
       /\ WF_svars(\E q \in requests : q.from = t /\ q.call /\ ReceiveRefresh(q))

SessionFairSpec == SessionSpec /\ SessionFairness

-----------------------------------------------------------------------------
(* Properties.                                                             *)

\* "While the user is active, the session never drops" (api.ts, above
\* startProactiveRefresh), as far as it is true: with any number of tabs
\* refreshing at once, no tab is sent to /login while the user still wants the
\* session, unless one of the named mishaps has happened since the sign-in.
SessionKept == dropped => disturbed

\* The refresh token in localStorage still buys a pair: it is live, or it has
\* been rotated and the answer with its successor is on the way to localStorage.
StoredTokenUsable ==
    wanted /\ ~disturbed =>
        /\ local.refresh # None
        /\ \/ refresh[local.refresh] = "live"
           \/ /\ refresh[local.refresh] = "grace"
              /\ \E q \in requests : ~q.restore /\ q.uses = local.refresh /\ q.got \in Token

\* A call that met a 401 does not hang: it is answered or the page goes away.
CallsEnd == \A t \in Tabs : tab[t].call = "waiting" ~> tab[t].call # "waiting"

\* The comment of api.ts taken at its word.
SessionNeverDrops == ~dropped

\* Signing out is final: without a new sign-in no page has a token again.
LogoutIsFinal ==
    [][\A t \in Tabs : (~wanted /\ tab[t].token = None) => tab'[t].token = None \/ wanted']_svars
=============================================================================
