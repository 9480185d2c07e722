---------------------------- MODULE Session_proofs ----------------------------
(***************************************************************************)
(* Proofs about Session, for any number of tabs, token pairs and mishaps:  *)
(* however many tabs refresh at once, an undisturbed session is kept.      *)
(***************************************************************************)
EXTENDS Session, TLAPS

\* What makes every refresh of an undisturbed session succeed: whoever waits
\* holds an accepted token, and the pairs on their way are live, used by nobody
\* and each on the way to one tab only.
Healthy ==
    /\ local.refresh \in 1..issued
    /\ refresh[local.refresh] \in {"live", "grace"}
    /\ refresh[local.refresh] = "grace" =>
          \E q \in requests : q.uses = local.refresh /\ q.got # Pending
    /\ \A q \in requests :
          /\ ~q.restore
          /\ q.uses \in 1..issued
          /\ refresh[q.uses] \in {"live", "grace"}
          /\ q.got # None
          /\ q.got # Pending =>
                /\ q.got \in 1..issued
                /\ access[q.got] = "ok"
                /\ refresh[q.got] = "live"
                /\ q.got # local.refresh
                /\ \A p \in requests : p.uses # q.got /\ (p.got = q.got => p = q)

SInv ==
    /\ SessionTypeOK
    /\ dropped => disturbed
    /\ wanted /\ ~disturbed => Healthy

-----------------------------------------------------------------------------
(* Helpers.                                                                *)

\* Forgetting the promise changes nothing else about a refresh.
LEMMA ForgottenSame ==
    ASSUME NEW t, NEW Q \in SUBSET RefreshRequest
    PROVE  /\ Forgotten(t, Q) \subseteq RefreshRequest
           /\ \A r \in Forgotten(t, Q) : \E q \in Q :
                 /\ r = IF q.from = t THEN [q EXCEPT !.current = FALSE] ELSE q
                 /\ r.uses = q.uses /\ r.got = q.got /\ r.restore = q.restore
           /\ \A q \in Q : \E r \in Forgotten(t, Q) : r.uses = q.uses /\ r.got = q.got
<1>1. ASSUME NEW q \in Q
      PROVE  LET r == IF q.from = t THEN [q EXCEPT !.current = FALSE] ELSE q
             IN  r \in RefreshRequest /\ r.uses = q.uses /\ r.got = q.got /\ r.restore = q.restore
  BY DEF RefreshRequest
<1> QED
  BY <1>1 DEF Forgotten

\* A refresh under way after the page has joined it.
Joined(q, t, timer, call) ==
    IF q.from = t /\ q.current THEN [q EXCEPT !.timer = @ \/ timer, !.call = @ \/ call] ELSE q

\* doRefresh joins refreshes under way or adds one with the stored token.
LEMMA DoRefreshType ==
    ASSUME SessionTypeOK, NEW t \in Tabs, NEW timer \in BOOLEAN, NEW call \in BOOLEAN
    PROVE  /\ DoRefresh(t, timer, call) \subseteq RefreshRequest
           /\ \A r \in DoRefresh(t, timer, call) :
                 \/ \E q \in requests :
                       /\ r = Joined(q, t, timer, call)
                       /\ r.uses = q.uses /\ r.got = q.got /\ r.restore = q.restore
                 \/ r.uses = local.refresh /\ r.got = Pending /\ ~r.restore
           /\ \A q \in requests : \E r \in DoRefresh(t, timer, call) : r.uses = q.uses /\ r.got = q.got
<1> USE SessionAssumption DEF SessionAssumption, SessionTypeOK
<1>1. CASE \E q \in requests : q.from = t /\ q.current
  <2> DEFINE f(q) == Joined(q, t, timer, call)
  <2>1. ASSUME NEW q \in requests
        PROVE  f(q) \in RefreshRequest /\ f(q).uses = q.uses /\ f(q).got = q.got /\ f(q).restore = q.restore
    BY DEF RefreshRequest, Joined
  <2>2. DoRefresh(t, timer, call) = {f(q) : q \in requests}
    BY <1>1 DEF DoRefresh, Joined
  <2>3. \A r \in DoRefresh(t, timer, call) : \E q \in requests : r = f(q)
    BY <2>2
  <2>4. \A q \in requests : f(q) \in DoRefresh(t, timer, call)
    BY <2>2
  <2> HIDE DEF f
  <2>5. /\ DoRefresh(t, timer, call) \subseteq RefreshRequest
        /\ \A r \in DoRefresh(t, timer, call) : \E q \in requests :
              r = f(q) /\ r.uses = q.uses /\ r.got = q.got /\ r.restore = q.restore
    BY <2>1, <2>3
  <2>6. \A q \in requests : \E r \in DoRefresh(t, timer, call) : r.uses = q.uses /\ r.got = q.got
    BY <2>1, <2>4
  <2> QED
    BY <2>5, <2>6 DEF f
<1>2. CASE ~\E q \in requests : q.from = t /\ q.current
  <2> DEFINE new == [from |-> t, uses |-> local.refresh, got |-> Pending, restore |-> FALSE,
                     current |-> TRUE, timer |-> timer, call |-> call]
  <2>1. new \in RefreshRequest
    BY DEF RefreshRequest, MaybeToken, Pending
  <2>2. new.uses = local.refresh /\ new.got = Pending /\ ~new.restore
    OBVIOUS
  <2>3. DoRefresh(t, timer, call) = requests \cup {new}
    BY <1>2 DEF DoRefresh
  <2>4. \A q \in requests : q = Joined(q, t, timer, call)
    BY <1>2 DEF Joined
  <2> HIDE DEF new
  <2> QED
    BY <2>1, <2>2, <2>3, <2>4
<1> QED
  BY <1>1, <1>2

LEMMA AnsweredType ==
    ASSUME NEW q \in RefreshRequest, NEW g \in MaybeToken
    PROVE  /\ [q EXCEPT !.got = g] \in RefreshRequest
           /\ [q EXCEPT !.got = g].got = g
           /\ [q EXCEPT !.got = g].uses = q.uses
           /\ [q EXCEPT !.got = g].restore = q.restore
  BY DEF RefreshRequest

LEMMA ToldType ==
    ASSUME SessionTypeOK, NEW t \in Tabs, NEW m \in Messages
    PROVE  Told(t, m) \in [Tabs -> Seq(Messages)]
  BY DEF Told, SessionTypeOK

-----------------------------------------------------------------------------
(* Types.                                                                  *)

LEMMA ServerType ==
    ASSUME SessionTypeOK,
           \/ \E q \in requests : ServeRefresh(q) \/ LoseRefresh(q)
           \/ \E k \in Token : ServeLogout(k) \/ AccessExpires(k) \/ GraceEnds(k)
    PROVE  SessionTypeOK'
<1> USE SessionAssumption DEF SessionAssumption, SessionTypeOK, server, history, Mishap, MayHappen
<1>1. ASSUME NEW q \in requests, ServeRefresh(q)
      PROVE  SessionTypeOK'
  <2>1. CASE q.uses # None /\ refresh[q.uses] \in Accepted
    <3>1. issued + 1 \in Token /\ q.uses \in Token
      BY <1>1, <2>1 DEF ServeRefresh, Issue, Token, MaybeToken, RefreshRequest, None
    <3>2. [q EXCEPT !.got = issued + 1] \in RefreshRequest
      BY <3>1, AnsweredType DEF Token, MaybeToken
    <3>3. issued' \in MaybeToken
      BY <1>1, <2>1, <3>1 DEF ServeRefresh, Issue, Token, MaybeToken
    <3>4. /\ access' \in [Token -> {"none", "ok", "expired", "revoked"}]
          /\ refresh' \in [Token -> {"none", "live", "grace", "dead"}]
      BY <1>1, <2>1, <3>1 DEF ServeRefresh, Issue
    <3>5. requests' \subseteq RefreshRequest
      BY <1>1, <2>1, <3>2 DEF ServeRefresh
    <3> QED
      BY <1>1, <3>3, <3>4, <3>5 DEF ServeRefresh
  <2>2. CASE ~(q.uses # None /\ refresh[q.uses] \in Accepted)
    <3>1. [q EXCEPT !.got = None] \in RefreshRequest
      BY AnsweredType DEF MaybeToken, None
    <3> QED
      BY <1>1, <2>2, <3>1 DEF ServeRefresh
  <2> QED
    BY <2>1, <2>2
<1>2. ASSUME NEW q \in requests, LoseRefresh(q)
      PROVE  SessionTypeOK'
  <2>1. [q EXCEPT !.got = None] \in RefreshRequest
    BY AnsweredType DEF MaybeToken, None
  <2> QED
    BY <1>2, <2>1 DEF LoseRefresh
<1>3. ASSUME NEW k \in Token, ServeLogout(k)
      PROVE  SessionTypeOK'
  BY <1>3 DEF ServeLogout
<1>4. ASSUME NEW k \in Token, AccessExpires(k)
      PROVE  SessionTypeOK'
  BY <1>4 DEF AccessExpires
<1>5. ASSUME NEW k \in Token, GraceEnds(k)
      PROVE  SessionTypeOK'
  BY <1>5 DEF GraceEnds
<1> QED
  BY <1>1, <1>2, <1>3, <1>4, <1>5

\* A page with fields changed is a page.
LEMMA PageType ==
    ASSUME SessionTypeOK, NEW t \in Tabs, NEW k \in MaybeToken, NEW b \in BOOLEAN,
           NEW c \in {"none", "sent", "waiting"}
    PROVE  /\ [tab EXCEPT ![t].token = k] \in [Tabs -> Page]
           /\ [tab EXCEPT ![t].token = k, ![t].timers = b] \in [Tabs -> Page]
           /\ [tab EXCEPT ![t].token = k, ![t].call = c] \in [Tabs -> Page]
           /\ [tab EXCEPT ![t].call = c, ![t].carries = k] \in [Tabs -> Page]
<1> USE DEF SessionTypeOK
<1>1. [tab EXCEPT ![t].token = k] \in [Tabs -> Page]
  BY DEF Page
<1>2. [tab EXCEPT ![t].token = k, ![t].timers = b] \in [Tabs -> Page]
  BY DEF Page
<1>3. [tab EXCEPT ![t].token = k, ![t].call = c] \in [Tabs -> Page]
  BY DEF Page
<1>4. [tab EXCEPT ![t].call = c, ![t].carries = k] \in [Tabs -> Page]
  BY DEF Page
<1> QED
  BY <1>1, <1>2, <1>3, <1>4

LEMMA SignOutType ==
    ASSUME SessionTypeOK, NEW t \in Tabs, SignOut(t)
    PROVE  /\ logouts' \subseteq Token
           /\ local' \in [token : MaybeToken, refresh : MaybeToken]
           /\ tab' \in [Tabs -> Page]
           /\ requests' \subseteq RefreshRequest
<1> USE SessionAssumption DEF SessionAssumption, SignOut
<1>1. None \in MaybeToken
  BY DEF None, MaybeToken
<1>2. tab' \in [Tabs -> Page]
  BY <1>1, PageType
<1>3. requests' \subseteq RefreshRequest
  BY ForgottenSame DEF SessionTypeOK
<1>4. tab[t].token \in MaybeToken
  BY DEF SessionTypeOK, Page
<1>5. logouts' \subseteq Token
  BY <1>4 DEF SessionTypeOK, Token, MaybeToken, None
<1> QED
  BY <1>1, <1>2, <1>3, <1>5

LEMMA LoginType ==
    ASSUME SessionTypeOK, NEW t \in Tabs, Login(t)
    PROVE  SessionTypeOK'
<1> USE SessionAssumption DEF SessionAssumption, Login
<1>1. issued + 1 \in Token /\ issued + 1 \in MaybeToken
  BY DEF Issue, SessionTypeOK, Token, MaybeToken
<1>2. tab' \in [Tabs -> Page]
  BY <1>1, PageType
<1>3. requests' \subseteq RefreshRequest
  BY ForgottenSame DEF SessionTypeOK
<1>4. /\ access' \in [Token -> {"none", "ok", "expired", "revoked"}]
      /\ refresh' \in [Token -> {"none", "live", "grace", "dead"}]
      /\ issued' \in MaybeToken
      /\ local' \in [token : MaybeToken, refresh : MaybeToken]
  BY <1>1 DEF SessionTypeOK, Issue
<1>5. disturbed' \in BOOLEAN
  OBVIOUS
<1> QED
  BY <1>2, <1>3, <1>4, <1>5 DEF SessionTypeOK

LEMMA LeaveType ==
    ASSUME SessionTypeOK, NEW t \in Tabs, Logout(t) \/ Idle(t)
    PROVE  SessionTypeOK'
<1>1. SignOut(t)
  BY DEF Logout, Idle
<1>2. UNCHANGED server
  BY <1>1 DEF SignOut
<1>3. bell' \in [Tabs -> Seq(Messages)]
  <2>1. IdleLogout \in Messages
    BY DEF Messages
  <2>2. Told(t, IdleLogout) \in [Tabs -> Seq(Messages)]
    BY <2>1, ToldType
  <2> QED
    BY <2>2 DEF Logout, Idle, SessionTypeOK
<1>4. wanted' \in BOOLEAN /\ dropped' \in BOOLEAN /\ disturbed' \in BOOLEAN
  BY DEF Logout, Idle, Mishap, SessionTypeOK
<1> QED
  BY <1>1, <1>2, <1>3, <1>4, SignOutType DEF SessionTypeOK, server

LEMMA HearType ==
    ASSUME SessionTypeOK, NEW t \in Tabs, Hear(t)
    PROVE  SessionTypeOK'
<1>1. bell[t] \in Seq(Messages) /\ bell[t] # <<>>
  BY DEF SessionTypeOK, Hear
<1>2. Head(bell[t]) \in Messages /\ Tail(bell[t]) \in Seq(Messages)
  BY <1>1
<1>3. bell' \in [Tabs -> Seq(Messages)]
  BY <1>2 DEF SessionTypeOK, Hear
<1>4. CASE ~tab[t].timers
  BY <1>3, <1>4 DEF Hear, SessionTypeOK, server, history
<1>5. CASE tab[t].timers /\ Head(bell[t]) = IdleLogout
  <2>1. SignOut(t) /\ Kick /\ Mishap /\ UNCHANGED wanted
    BY <1>5 DEF Hear
  <2>2. wanted' \in BOOLEAN /\ dropped' \in BOOLEAN /\ disturbed' \in BOOLEAN
    BY <2>1 DEF Kick, Mishap, SessionTypeOK
  <2>3. UNCHANGED server
    BY <2>1 DEF SignOut
  <2> QED
    BY <1>3, <2>1, <2>2, <2>3, SignOutType DEF SessionTypeOK, server
<1>6. CASE tab[t].timers /\ Head(bell[t]) # IdleLogout
  <2>1. Head(bell[t]) \in MaybeToken
    BY <1>2, <1>6 DEF Messages, Token, MaybeToken
  <2>2. /\ tab' = [tab EXCEPT ![t].token = Head(bell[t])]
        /\ local' = [local EXCEPT !.token = Head(bell[t])]
        /\ UNCHANGED <<server, logouts, requests, history>>
    BY <1>6 DEF Hear
  <2>3. tab' \in [Tabs -> Page]
    BY <2>1, <2>2, PageType
  <2>4. local' \in [token : MaybeToken, refresh : MaybeToken]
    BY <2>1, <2>2 DEF SessionTypeOK
  <2> QED
    BY <1>3, <2>2, <2>3, <2>4 DEF SessionTypeOK, server, history
<1> QED
  BY <1>4, <1>5, <1>6

LEMMA PageStepType ==
    ASSUME SessionTypeOK, NEW t \in Tabs, ProactiveRefresh(t) \/ SendCall(t) \/ CallAnswered(t)
    PROVE  SessionTypeOK'
<1>1. CASE ProactiveRefresh(t)
  <2>1. requests' \subseteq RefreshRequest
    BY <1>1, DoRefreshType DEF ProactiveRefresh
  <2> QED
    BY <1>1, <2>1 DEF ProactiveRefresh, SessionTypeOK, server, history
<1>2. CASE SendCall(t)
  <2>1. tab[t].token \in MaybeToken
    BY DEF SessionTypeOK, Page
  <2>2. tab' \in [Tabs -> Page]
    BY <1>2, <2>1, PageType DEF SendCall
  <2> QED
    BY <1>2, <2>2 DEF SendCall, SessionTypeOK, server, history
<1>3. CASE CallAnswered(t)
  <2>1. None \in MaybeToken
    BY SessionAssumption DEF SessionAssumption, None, MaybeToken
  <2>2. tab' \in [Tabs -> Page]
    <3>1. \A c \in {"none", "sent", "waiting"} :
             [tab EXCEPT ![t].call = c, ![t].carries = None] \in [Tabs -> Page]
      BY <2>1, PageType
    <3> QED
      BY <1>3, <3>1 DEF CallAnswered
  <2>3. requests' \subseteq RefreshRequest
    <3>1. DoRefresh(t, FALSE, TRUE) \subseteq RefreshRequest
      BY DoRefreshType
    <3> QED
      BY <1>3, <3>1 DEF CallAnswered, SessionTypeOK
  <2> QED
    BY <1>3, <2>2, <2>3 DEF CallAnswered, SessionTypeOK, server, history
<1> QED
  BY <1>1, <1>2, <1>3

\* Loading a page keeps the types.
LEMMA LoadType ==
    ASSUME SessionTypeOK, NEW t \in Tabs, NEW page \in Page, NEW sent \in SUBSET RefreshRequest,
           NEW ring \in [Tabs -> Seq(Messages)], Load(t, page, sent, ring)
    PROVE  /\ tab' \in [Tabs -> Page]
           /\ bell' \in [Tabs -> Seq(Messages)]
           /\ requests' \subseteq RefreshRequest
  BY DEF SessionTypeOK, Load

LEMMA ReloadType ==
    ASSUME SessionTypeOK, NEW t \in Tabs, Reload(t)
    PROVE  SessionTypeOK'
<1> DEFINE k == local.token
           page == [LoginPage EXCEPT !.token = k, !.timers = k # None]
           sent == IF k # None /\ access[k] # "ok"
                   THEN {[from |-> t, uses |-> local.refresh, got |-> Pending, restore |-> TRUE,
                          current |-> FALSE, timer |-> FALSE, call |-> FALSE]} ELSE {}
<1>1. page \in Page
  <2>1. k \in MaybeToken /\ None \in MaybeToken
    BY SessionAssumption DEF SessionAssumption, SessionTypeOK, None, MaybeToken
  <2>2. \A b \in BOOLEAN : [LoginPage EXCEPT !.token = k, !.timers = b] \in Page
    BY <2>1 DEF LoginPage, Page
  <2>3. \E b \in BOOLEAN : b = (k # None)
    OBVIOUS
  <2> QED
    BY <2>2, <2>3
<1>2. sent \in SUBSET RefreshRequest
  BY DEF SessionTypeOK, RefreshRequest
<1>3. Load(t, page, sent, bell)
  BY DEF Reload
<1>4. disturbed' \in BOOLEAN
  BY DEF Reload, MayHappen, Mishap, SessionTypeOK
<1>5. /\ tab' \in [Tabs -> Page]
      /\ bell' \in [Tabs -> Seq(Messages)]
      /\ requests' \subseteq RefreshRequest
  <2> HIDE DEF page, sent
  <2>1. bell \in [Tabs -> Seq(Messages)]
    BY DEF SessionTypeOK
  <2> QED
    BY <1>1, <1>2, <1>3, <2>1, LoadType
<1> QED
  BY <1>4, <1>5 DEF Reload, SessionTypeOK, server

LEMMA RestoreType ==
    ASSUME SessionTypeOK, NEW q \in requests, ReceiveRestore(q)
    PROVE  SessionTypeOK'
<1>1. q.from \in Tabs /\ q.got \in MaybeToken
  BY DEF SessionTypeOK, RefreshRequest, ReceiveRestore
<1>2. tab' \in [Tabs -> Page]
  <2>1. [tab EXCEPT ![q.from].token = q.got] \in [Tabs -> Page]
    BY <1>1, PageType
  <2> QED
    BY <2>1 DEF ReceiveRestore, SessionTypeOK
<1>3. local' \in [token : MaybeToken, refresh : MaybeToken]
  BY <1>1 DEF ReceiveRestore, SessionTypeOK
<1> QED
  BY <1>2, <1>3 DEF ReceiveRestore, SessionTypeOK, server, history

LEMMA ReceiveType ==
    ASSUME SessionTypeOK, NEW q \in requests, ReceiveRefresh(q)
    PROVE  SessionTypeOK'
<1> DEFINE t == q.from
<1>1. t \in Tabs /\ q.got \in MaybeToken /\ requests \ {q} \in SUBSET RefreshRequest
  BY DEF SessionTypeOK, RefreshRequest, ReceiveRefresh
<1>2. Forgotten(t, requests \ {q}) \subseteq RefreshRequest
  BY <1>1, ForgottenSame
<1>3. None \in MaybeToken /\ LoginPage \in Page /\ {} \in SUBSET RefreshRequest
  BY SessionAssumption DEF SessionAssumption, None, MaybeToken, LoginPage, Page
<1>4. bell \in [Tabs -> Seq(Messages)] /\ local \in [token : MaybeToken, refresh : MaybeToken]
  BY DEF SessionTypeOK
<1>5. UNCHANGED <<server, logouts, wanted>>
  BY DEF ReceiveRefresh
<1>6. CASE q.got = None /\ q.call
  <2>1. Load(t, LoginPage, {}, bell) /\ local' = [local EXCEPT !.token = None] /\ Kick /\ UNCHANGED disturbed
    BY <1>6 DEF ReceiveRefresh, GiveUpCall
  <2>2. tab' \in [Tabs -> Page] /\ bell' \in [Tabs -> Seq(Messages)] /\ requests' \subseteq RefreshRequest
    BY <1>1, <1>3, <1>4, <2>1, LoadType
  <2>3. local' \in [token : MaybeToken, refresh : MaybeToken] /\ dropped' \in BOOLEAN
    BY <1>3, <1>4, <2>1 DEF Kick, SessionTypeOK
  <2> QED
    BY <1>5, <2>1, <2>2, <2>3 DEF SessionTypeOK, server
<1>7. CASE q.got = None /\ ~q.call
  BY <1>2, <1>5, <1>7 DEF ReceiveRefresh, SessionTypeOK, server
<1>8. CASE q.got # None
  <2>0. q.got \in Messages
    BY <1>1, <1>8 DEF MaybeToken, Token, Messages, None
  <2>1. Told(t, q.got) \in [Tabs -> Seq(Messages)]
    BY <1>1, <2>0, ToldType
  <2>2. CASE GotToken(q)
    <3>1. local' \in [token : MaybeToken, refresh : MaybeToken]
      BY <1>1, <1>4, <2>2 DEF GotToken
    <3>2. requests' \subseteq RefreshRequest
      BY <1>2, <2>2 DEF GotToken
    <3>3. tab' \in [Tabs -> Page]
      <4>1. \A k \in MaybeToken, c \in {"none", "sent", "waiting"} :
               [tab EXCEPT ![t].token = k, ![t].call = c] \in [Tabs -> Page]
        BY <1>1, PageType
      <4>2. tab[t].token \in MaybeToken /\ tab[t].call \in {"none", "sent", "waiting"}
        BY <1>1 DEF SessionTypeOK, Page
      <4>3. PICK k \in MaybeToken, c \in {"none", "sent", "waiting"} :
               tab' = [tab EXCEPT ![t].token = k, ![t].call = c]
        BY <1>1, <2>2, <4>2 DEF GotToken
      <4>4. [tab EXCEPT ![t].token = k, ![t].call = c] \in [Tabs -> Page]
        BY <4>1
      <4> QED
        BY <4>3, <4>4
    <3> QED
      BY <1>5, <2>1, <2>2, <3>1, <3>2, <3>3 DEF GotToken, SessionTypeOK, server
  <2>3. CASE RepeatFails(q)
    <3>1. tab' \in [Tabs -> Page] /\ bell' \in [Tabs -> Seq(Messages)] /\ requests' \subseteq RefreshRequest
      BY <1>1, <1>3, <2>1, <2>3, LoadType DEF RepeatFails
    <3>2. local' \in [token : MaybeToken, refresh : MaybeToken]
      BY <1>1, <1>3, <2>3 DEF RepeatFails
    <3>3. dropped' \in BOOLEAN /\ disturbed' \in BOOLEAN
      BY <2>3 DEF RepeatFails, Kick, MayHappen, Mishap, SessionTypeOK
    <3> QED
      BY <1>5, <3>1, <3>2, <3>3 DEF SessionTypeOK, server
  <2> QED
    BY <1>8, <2>2, <2>3 DEF ReceiveRefresh
<1> QED
  BY <1>6, <1>7, <1>8

LEMMA TypeStep ==
    ASSUME SessionTypeOK, [SessionNext]_svars
    PROVE  SessionTypeOK'
<1>1. CASE UNCHANGED svars
  BY <1>1 DEF SessionTypeOK, svars, server, history
<1>2. CASE SessionNext
  BY <1>2, ServerType, LoginType, LeaveType, HearType, PageStepType, ReloadType, RestoreType,
     ReceiveType DEF SessionNext, TabStep
<1> QED
  BY <1>1, <1>2

-----------------------------------------------------------------------------
(* The session is kept.                                                    *)

LEMMA QuietHealthy ==
    ASSUME Healthy, UNCHANGED <<issued, access, refresh, requests>>, local'.refresh = local.refresh
    PROVE  Healthy'
  BY DEF Healthy

\* A served refresh: the token used was accepted and the new pair is fresh.
LEMMA ServeHealthy ==
    ASSUME SessionTypeOK, Healthy, NEW q \in requests, ServeRefresh(q)
    PROVE  Healthy'
<1> USE SessionAssumption DEF SessionAssumption
<1> DEFINE n == issued + 1
           r == [q EXCEPT !.got = n]
<1>1. q.got = Pending /\ q.uses \in 1..issued /\ refresh[q.uses] \in {"live", "grace"}
  BY DEF ServeRefresh, Healthy
<1>2. /\ issued < MaxTokens /\ issued \in Nat /\ issued' = n
      /\ access' = [access EXCEPT ![n] = "ok"]
      /\ refresh' = [refresh EXCEPT ![q.uses] = "grace", ![n] = "live"]
      /\ requests' = (requests \ {q}) \cup {r}
      /\ UNCHANGED local
  BY <1>1 DEF ServeRefresh, Issue, Accepted, None, SessionTypeOK, MaybeToken
<1>3. r.got = n /\ r.uses = q.uses /\ r.restore = q.restore
  <2>1. n \in MaybeToken /\ q \in RefreshRequest
    BY <1>2 DEF MaybeToken, SessionTypeOK
  <2> QED
    BY <2>1, AnsweredType
<1>4. n \in Token /\ 1..issued \subseteq Token /\ n \notin 1..issued /\ 1..issued \subseteq 1..issued'
  BY <1>2 DEF Token
<1>5. /\ access'[n] = "ok" /\ refresh'[n] = "live" /\ refresh'[q.uses] = "grace"
      /\ \A k \in 1..issued : access'[k] = access[k] /\ (k # q.uses => refresh'[k] = refresh[k])
  BY <1>1, <1>2, <1>4 DEF SessionTypeOK
<1> HIDE DEF r
<1>6. local.refresh \in 1..issued' /\ refresh'[local.refresh] \in {"live", "grace"}
  BY <1>2, <1>4, <1>5 DEF Healthy
<1>7. refresh'[local.refresh] = "grace" => \E p \in requests' : p.uses = local.refresh /\ p.got # Pending
  <2>1. CASE q.uses = local.refresh
    <3>1. n # Pending
      BY <1>2 DEF Pending
    <3> QED
      BY <1>2, <1>3, <2>1, <3>1
  <2>2. CASE q.uses # local.refresh
    BY <1>1, <1>2, <1>5, <2>2 DEF Healthy
  <2> QED
    BY <2>1, <2>2
<1>8. ASSUME NEW p \in requests \ {q}
      PROVE  /\ ~p.restore /\ p.uses \in 1..issued' /\ refresh'[p.uses] \in {"live", "grace"}
             /\ p.got # None
             /\ p.got # Pending =>
                   /\ p.got \in 1..issued /\ access'[p.got] = "ok" /\ refresh'[p.got] = "live"
                   /\ p.got # local.refresh /\ p.got # n
                   /\ \A o \in requests : o.uses # p.got /\ (o.got = p.got => o = p)
  <2>1. /\ ~p.restore /\ p.uses \in 1..issued /\ refresh[p.uses] \in {"live", "grace"} /\ p.got # None
        /\ p.got # Pending =>
              /\ p.got \in 1..issued /\ access[p.got] = "ok" /\ refresh[p.got] = "live"
              /\ p.got # local.refresh
              /\ \A o \in requests : o.uses # p.got /\ (o.got = p.got => o = p)
    BY DEF Healthy
  <2>2. refresh'[p.uses] \in {"live", "grace"} /\ p.uses \in 1..issued'
    BY <1>4, <1>5, <2>1
  <2>3. p.got # Pending => access'[p.got] = "ok" /\ refresh'[p.got] = "live" /\ p.got # n
    BY <1>4, <1>5, <2>1
  <2> QED
    BY <2>1, <2>2, <2>3
<1>9. /\ ~r.restore /\ r.uses \in 1..issued' /\ refresh'[r.uses] \in {"live", "grace"} /\ r.got # None
      /\ r.got \in 1..issued' /\ access'[r.got] = "ok" /\ refresh'[r.got] = "live" /\ r.got # local.refresh
      /\ r.uses # r.got
  <2>1. ~q.restore /\ local.refresh \in 1..issued
    BY DEF Healthy
  <2>2. n \in 1..issued' /\ n # None
    BY <1>2 DEF None
  <2> QED
    BY <1>1, <1>3, <1>4, <1>5, <2>1, <2>2
<1>10. ASSUME NEW p \in requests', p.got # Pending
       PROVE  /\ p.got \in 1..issued' /\ access'[p.got] = "ok" /\ refresh'[p.got] = "live"
              /\ p.got # local.refresh
              /\ \A o \in requests' : o.uses # p.got /\ (o.got = p.got => o = p)
  <2>1. CASE p = r
    <3>1. ASSUME NEW o \in requests' PROVE o.uses # p.got /\ (o.got = p.got => o = p)
      <4>1. CASE o = r
        BY <1>9, <2>1, <4>1
      <4>2. CASE o \in requests \ {q}
        <5>1. o.uses \in 1..issued /\ (o.got # Pending => o.got # n)
          BY <1>8, <4>2 DEF Healthy
        <5>2. n # Pending
          BY <1>2 DEF Pending
        <5> QED
          BY <1>3, <1>4, <2>1, <5>1, <5>2
      <4> QED
        BY <1>2, <4>1, <4>2
    <3> QED
      BY <1>9, <2>1, <3>1
  <2>2. CASE p \in requests \ {q}
    <3>1. /\ p.got \in 1..issued /\ access'[p.got] = "ok" /\ refresh'[p.got] = "live"
          /\ p.got # local.refresh /\ p.got # n
          /\ \A o \in requests : o.uses # p.got /\ (o.got = p.got => o = p)
      BY <1>8, <1>10, <2>2
    <3>2. r.uses # p.got /\ r.got # p.got
      BY <1>3, <3>1
    <3> QED
      BY <1>2, <1>4, <3>1, <3>2
  <2> QED
    BY <1>2, <2>1, <2>2
<1>11. \A p \in requests' : /\ ~p.restore /\ p.uses \in 1..issued' /\ refresh'[p.uses] \in {"live", "grace"}
                             /\ p.got # None
  BY <1>2, <1>8, <1>9
<1> QED
  BY <1>2, <1>6, <1>7, <1>10, <1>11 DEF Healthy, Pending

\* Time and the network disturb the session before they can harm it.
LEMMA ServerHealthy ==
    ASSUME SessionTypeOK, Healthy, wanted', ~disturbed',
           \/ \E q \in requests : LoseRefresh(q)
           \/ \E k \in Token : ServeLogout(k) \/ AccessExpires(k) \/ GraceEnds(k)
    PROVE  Healthy'
<1>1. ASSUME NEW q \in requests, LoseRefresh(q)
      PROVE  FALSE
  BY <1>1 DEF LoseRefresh, MayHappen, Mishap
<1>2. ASSUME NEW k \in Token, ServeLogout(k)
      PROVE  Healthy'
  <2>1. access[k] # "ok"
    BY <1>2 DEF ServeLogout, Mishap
  <2> QED
    BY <1>2, <2>1, QuietHealthy DEF ServeLogout
<1>3. ASSUME NEW k \in Token, AccessExpires(k)
      PROVE  Healthy'
  <2>1. UNCHANGED <<issued, refresh, local, requests>> /\ \A q \in requests : q.got # k
    BY <1>3 DEF AccessExpires
  <2>2. \A j \in Token : j # k => access'[j] = access[j]
    BY <1>3 DEF AccessExpires, SessionTypeOK
  <2>3. 1..issued \subseteq Token
    BY SessionAssumption DEF SessionAssumption, SessionTypeOK, Token, MaybeToken
  <2>4. \A q \in requests : q.got # Pending => access'[q.got] = "ok"
    BY <2>1, <2>2, <2>3 DEF Healthy
  <2> QED
    BY <2>1, <2>4 DEF Healthy
<1>4. ASSUME NEW k \in Token, GraceEnds(k)
      PROVE  Healthy'
  <2>1. UNCHANGED <<issued, access, local, requests>> /\ \A q \in requests : q.uses # k
    BY <1>4 DEF GraceEnds, MayHappen, Mishap
  <2>2. refresh[k] = "grace" /\ \A j \in Token : j # k => refresh'[j] = refresh[j]
    BY <1>4 DEF GraceEnds, SessionTypeOK
  <2>3. 1..issued \subseteq Token
    BY SessionAssumption DEF SessionAssumption, SessionTypeOK, Token, MaybeToken
  <2>4. local.refresh # k
    BY <2>1, <2>2 DEF Healthy
  <2>5. \A q \in requests : /\ refresh'[q.uses] = refresh[q.uses]
                            /\ q.got # Pending => refresh'[q.got] = refresh[q.got]
    BY <2>1, <2>2, <2>3 DEF Healthy
  <2>6. refresh'[local.refresh] = refresh[local.refresh]
    BY <2>2, <2>3, <2>4 DEF Healthy
  <2> QED
    BY <2>1, <2>5, <2>6 DEF Healthy
<1> QED
  BY <1>1, <1>2, <1>3, <1>4

\* A sign-in that meets nothing of an older session starts a healthy one.
LEMMA LoginHealthy ==
    ASSUME SessionTypeOK, NEW t \in Tabs, Login(t), ~disturbed'
    PROVE  Healthy'
<1>1. requests' = {}
  BY DEF Login, Forgotten
<1>2. issued + 1 \in Token /\ issued' = issued + 1 /\ issued \in Nat
  BY SessionAssumption DEF SessionAssumption, Login, Issue, SessionTypeOK, Token, MaybeToken
<1>3. local'.refresh = issued + 1 /\ refresh'[issued + 1] = "live"
  BY <1>2 DEF Login, SessionTypeOK
<1> QED
  BY <1>1, <1>2, <1>3 DEF Healthy

\* Joining or sending a refresh with the stored token.
LEMMA DoRefreshHealthy ==
    ASSUME SessionTypeOK, Healthy, NEW t \in Tabs, NEW timer \in BOOLEAN, NEW call \in BOOLEAN,
           requests' = DoRefresh(t, timer, call), UNCHANGED <<issued, access, refresh, local>>
    PROVE  Healthy'
<1> DEFINE f(q) == Joined(q, t, timer, call)
<1>1. \A r \in requests' :
         \/ \E q \in requests : r = f(q) /\ r.uses = q.uses /\ r.got = q.got /\ r.restore = q.restore
         \/ r.uses = local.refresh /\ r.got = Pending /\ ~r.restore
  BY DoRefreshType
<1>2. \A q \in requests : \E r \in requests' : r.uses = q.uses /\ r.got = q.got
  BY DoRefreshType
<1> HIDE DEF f
<1>3. Pending # None
  BY SessionAssumption DEF SessionAssumption, Pending, None
<1>4. \A r \in requests' : /\ ~r.restore /\ r.uses \in 1..issued /\ refresh[r.uses] \in {"live", "grace"}
                           /\ r.got # None
  BY <1>1, <1>3 DEF Healthy
<1>5. ASSUME NEW r \in requests', r.got # Pending
      PROVE  /\ r.got \in 1..issued /\ access[r.got] = "ok" /\ refresh[r.got] = "live"
             /\ r.got # local.refresh
             /\ \A p \in requests' : p.uses # r.got /\ (p.got = r.got => p = r)
  <2>1. PICK q \in requests : r = f(q) /\ r.got = q.got
    BY <1>1, <1>5
  <2>2. /\ q.got \in 1..issued /\ access[q.got] = "ok" /\ refresh[q.got] = "live"
        /\ q.got # local.refresh
        /\ \A p \in requests : p.uses # q.got /\ (p.got = q.got => p = q)
    BY <1>5, <2>1 DEF Healthy
  <2>3. ASSUME NEW p \in requests'
        PROVE  p.uses # r.got /\ (p.got = r.got => p = r)
    <3>1. CASE \E o \in requests : p = f(o) /\ p.uses = o.uses /\ p.got = o.got
      BY <2>1, <2>2, <3>1
    <3>2. CASE p.uses = local.refresh /\ p.got = Pending
      BY <1>5, <2>1, <2>2, <3>2
    <3> QED
      BY <1>1, <3>1, <3>2
  <2> QED
    BY <2>1, <2>2, <2>3
<1>6. refresh[local.refresh] = "grace" => \E r \in requests' : r.uses = local.refresh /\ r.got # Pending
  BY <1>2 DEF Healthy
<1> QED
  BY <1>4, <1>5, <1>6 DEF Healthy

\* An answer reaches the page: the pair it brings is live and nobody else's.
LEMMA GotHealthy ==
    ASSUME SessionTypeOK, Healthy, NEW q \in requests, q.got # Pending, GotToken(q),
           UNCHANGED <<issued, access, refresh>>
    PROVE  Healthy'
<1> DEFINE t == q.from
           f(r) == IF r.from = t THEN [r EXCEPT !.current = FALSE] ELSE r
<1>1. /\ q.got \in 1..issued /\ refresh[q.got] = "live"
      /\ \A p \in requests : p.uses # q.got /\ (p.got = q.got => p = q)
  BY DEF Healthy
<1>2. local'.refresh = q.got /\ requests' = Forgotten(t, requests \ {q})
  BY DEF GotToken
<1>3. requests \ {q} \in SUBSET RefreshRequest
  BY DEF SessionTypeOK
<1>4. \A r \in requests' : \E p \in requests \ {q} :
         r = f(p) /\ r.uses = p.uses /\ r.got = p.got /\ r.restore = p.restore
  BY <1>2, <1>3, ForgottenSame
<1> HIDE DEF f
<1>5. \A r \in requests' : /\ ~r.restore /\ r.uses \in 1..issued /\ refresh[r.uses] \in {"live", "grace"}
                           /\ r.got # None /\ r.got # q.got
  BY <1>1, <1>4 DEF Healthy
<1>6. ASSUME NEW r \in requests', r.got # Pending
      PROVE  /\ r.got \in 1..issued /\ access[r.got] = "ok" /\ refresh[r.got] = "live"
             /\ \A p \in requests' : p.uses # r.got /\ (p.got = r.got => p = r)
  <2>1. PICK o \in requests \ {q} : r = f(o) /\ r.got = o.got
    BY <1>4
  <2>2. /\ o.got \in 1..issued /\ access[o.got] = "ok" /\ refresh[o.got] = "live"
        /\ \A p \in requests : p.uses # o.got /\ (p.got = o.got => p = o)
    BY <1>6, <2>1 DEF Healthy
  <2> QED
    BY <1>4, <2>1, <2>2
<1>7. local'.refresh \in 1..issued' /\ refresh'[local'.refresh] = "live"
  BY <1>1, <1>2
<1>8. \A r \in requests' :
         /\ ~r.restore /\ r.uses \in 1..issued' /\ refresh'[r.uses] \in {"live", "grace"} /\ r.got # None
         /\ r.got # Pending =>
               /\ r.got \in 1..issued' /\ access'[r.got] = "ok" /\ refresh'[r.got] = "live"
               /\ r.got # local'.refresh
               /\ \A p \in requests' : p.uses # r.got /\ (p.got = r.got => p = r)
  BY <1>2, <1>5, <1>6
<1> QED
  BY <1>7, <1>8 DEF Healthy, Pending

LEMMA ReloadHealthy ==
    ASSUME SessionTypeOK, Healthy, NEW t \in Tabs, Reload(t), ~disturbed'
    PROVE  Healthy'
<1>1. /\ UNCHANGED <<issued, access, refresh, local>> /\ wanted
      /\ requests' = {q \in requests : q.from # t}
      /\ \A q \in requests : q.from = t => q.uses # local.refresh
  BY DEF Reload, Load, MayStart, MayHappen, Mishap, server
<1>2. \A q \in requests' : q \in requests
  BY <1>1
<1>3. refresh[local.refresh] = "grace" => \E q \in requests' : q.uses = local.refresh /\ q.got # Pending
  BY <1>1 DEF Healthy
<1> QED
  BY <1>1, <1>2, <1>3 DEF Healthy

LEMMA SafeStep ==
    ASSUME SInv, SessionNext
    PROVE  (dropped' => disturbed') /\ (wanted' /\ ~disturbed' => Healthy')
<1> USE DEF SInv
<1>1. ASSUME NEW t \in Tabs, TabStep(t)
      PROVE  (dropped' => disturbed') /\ (wanted' /\ ~disturbed' => Healthy')
  <2>1. CASE Login(t)
    BY <2>1, LoginHealthy DEF Login
  <2>2. CASE Logout(t)
    BY <2>2 DEF Logout
  <2>3. CASE Idle(t)
    BY <2>3 DEF Idle, Mishap, SessionTypeOK
  <2>4. CASE Reload(t)
    BY <2>4, ReloadHealthy DEF Reload, MayStart, MayHappen, Mishap
  <2>5. CASE ProactiveRefresh(t)
    <3>1. requests' = DoRefresh(t, TRUE, FALSE) /\ UNCHANGED <<issued, access, refresh, local, history>>
      BY <2>5 DEF ProactiveRefresh, server
    <3>2. Healthy => Healthy'
      BY <3>1, DoRefreshHealthy
    <3> QED
      BY <3>1, <3>2 DEF history
  <2>6. CASE SendCall(t)
    BY <2>6, QuietHealthy DEF SendCall, server, history
  <2>7. CASE CallAnswered(t)
    <3>1. UNCHANGED <<issued, access, refresh, local, history>>
      BY <2>7 DEF CallAnswered, server
    <3>2. requests' = requests \/ requests' = DoRefresh(t, FALSE, TRUE)
      BY <2>7 DEF CallAnswered
    <3>3. Healthy => Healthy'
      BY <3>1, <3>2, DoRefreshHealthy, QuietHealthy
    <3> QED
      BY <3>1, <3>3 DEF history
  <2>8. CASE Hear(t)
    <3>1. CASE tab[t].timers /\ Head(bell[t]) = IdleLogout
      BY <2>8, <3>1 DEF Hear, Kick, Mishap
    <3>2. CASE ~(tab[t].timers /\ Head(bell[t]) = IdleLogout)
      <4>1. UNCHANGED <<issued, access, refresh, requests, history>>
        BY <2>8, <3>2 DEF Hear, server
      <4>2. local'.refresh = local.refresh
        BY <2>8, <3>2 DEF Hear, SessionTypeOK
      <4> QED
        BY <4>1, <4>2, QuietHealthy DEF history
    <3> QED
      BY <3>1, <3>2
  <2> QED
    BY <1>1, <2>1, <2>2, <2>3, <2>4, <2>5, <2>6, <2>7, <2>8 DEF TabStep
<1>2. ASSUME NEW q \in requests, ServeRefresh(q)
      PROVE  (dropped' => disturbed') /\ (wanted' /\ ~disturbed' => Healthy')
  BY <1>2, ServeHealthy DEF ServeRefresh, history
<1>3. ASSUME NEW q \in requests, LoseRefresh(q)
      PROVE  (dropped' => disturbed') /\ (wanted' /\ ~disturbed' => Healthy')
  BY <1>3, ServerHealthy DEF LoseRefresh, MayHappen, Mishap
<1>4. ASSUME NEW q \in requests, ReceiveRestore(q)
      PROVE  (dropped' => disturbed') /\ (wanted' /\ ~disturbed' => Healthy')
  BY <1>4 DEF ReceiveRestore, Healthy, history
<1>5. ASSUME NEW q \in requests, ReceiveRefresh(q)
      PROVE  (dropped' => disturbed') /\ (wanted' /\ ~disturbed' => Healthy')
  <2>1. q.got # Pending /\ UNCHANGED <<issued, access, refresh, wanted>>
    BY <1>5 DEF ReceiveRefresh, server
  <2>2. CASE wanted /\ ~disturbed
    <3>1. q.got # None /\ access[q.got] = "ok"
      BY <2>1, <2>2 DEF Healthy
    <3>2. CASE GotToken(q)
      <4>1. UNCHANGED <<dropped, disturbed>>
        BY <3>2 DEF GotToken
      <4> QED
        BY <2>1, <2>2, <3>2, <4>1, GotHealthy
    <3>3. CASE RepeatFails(q)
      BY <2>2, <3>1, <3>3 DEF RepeatFails, MayHappen, Mishap
    <3> QED
      BY <1>5, <3>1, <3>2, <3>3 DEF ReceiveRefresh
  <2>3. CASE ~wanted \/ disturbed
    <3>1. dropped' => dropped \/ wanted
      BY <1>5 DEF ReceiveRefresh, GotToken, RepeatFails, GiveUpCall, Kick
    <3>2. disturbed => disturbed'
      BY <1>5 DEF ReceiveRefresh, GotToken, RepeatFails, MayHappen, Mishap
    <3> QED
      BY <2>1, <2>3, <3>1, <3>2
  <2> QED
    BY <2>2, <2>3
<1>6. ASSUME NEW k \in Token, ServeLogout(k) \/ AccessExpires(k) \/ GraceEnds(k)
      PROVE  (dropped' => disturbed') /\ (wanted' /\ ~disturbed' => Healthy')
  <2>1. UNCHANGED <<wanted, dropped>> /\ (disturbed => disturbed')
    BY <1>6 DEF ServeLogout, AccessExpires, GraceEnds, MayHappen, Mishap, history
  <2> QED
    BY <1>6, <2>1, ServerHealthy
<1> QED
  BY <1>1, <1>2, <1>3, <1>4, <1>5, <1>6 DEF SessionNext

LEMMA SafeInductive == SInv /\ [SessionNext]_svars => SInv'
<1> SUFFICES ASSUME SInv, [SessionNext]_svars
             PROVE  SInv'
  OBVIOUS
<1>1. SessionTypeOK'
  BY TypeStep DEF SInv
<1>2. CASE SessionNext
  BY <1>1, <1>2, SafeStep DEF SInv
<1>3. CASE UNCHANGED svars
  BY <1>1, <1>3, QuietHealthy DEF SInv, svars, server, history
<1> QED
  BY <1>2, <1>3

LEMMA SafeInit == SessionInit => SInv
<1> SUFFICES ASSUME SessionInit
             PROVE  SInv
  OBVIOUS
<1> USE SessionAssumption DEF SessionAssumption, SessionInit
<1>1. None \in MaybeToken /\ issued \in MaybeToken
  BY DEF None, MaybeToken
<1>2. tab \in [Tabs -> Page] /\ local \in [token : MaybeToken, refresh : MaybeToken]
  BY <1>1 DEF Page, LoginPage
<1>3. <<>> \in Seq(Messages)
  OBVIOUS
<1>4. bell \in [Tabs -> Seq(Messages)]
  BY <1>3
<1>5. /\ access \in [Token -> {"none", "ok", "expired", "revoked"}]
      /\ refresh \in [Token -> {"none", "live", "grace", "dead"}]
      /\ logouts \subseteq Token /\ requests \subseteq RefreshRequest
      /\ wanted \in BOOLEAN /\ dropped \in BOOLEAN /\ disturbed \in BOOLEAN
  OBVIOUS
<1>6. SessionTypeOK
  BY <1>1, <1>2, <1>4, <1>5 DEF SessionTypeOK
<1> QED
  BY <1>6 DEF SInv

-----------------------------------------------------------------------------
(* The results.                                                            *)

\* The variables of a session keep their types.
THEOREM SessionTypeCorrect == SessionSpec => []SessionTypeOK
<1>1. SInv => SessionTypeOK
  BY DEF SInv
<1> QED
  BY <1>1, SafeInit, SafeInductive, PTL DEF SessionSpec

\* SessionKept: with any number of tabs refreshing at once, none is sent to
\* /login unless a mishap has disturbed the session.
THEOREM SessionKeptCorrect == SessionSpec => []SessionKept
<1>1. SInv => SessionKept
  BY DEF SInv, SessionKept
<1> QED
  BY <1>1, SafeInit, SafeInductive, PTL DEF SessionSpec

\* StoredTokenUsable: an undisturbed session always has a refresh token in
\* localStorage that still buys a pair.
THEOREM StoredTokenUsableCorrect == SessionSpec => []StoredTokenUsable
<1>1. SInv => StoredTokenUsable
  <2> SUFFICES ASSUME SInv, wanted, ~disturbed
               PROVE  /\ local.refresh # None
                      /\ \/ refresh[local.refresh] = "live"
                         \/ /\ refresh[local.refresh] = "grace"
                            /\ \E q \in requests : ~q.restore /\ q.uses = local.refresh /\ q.got \in Token
    BY DEF StoredTokenUsable
  <2>1. Healthy /\ issued \in Nat /\ 1..issued \subseteq Token
    BY SessionAssumption DEF SessionAssumption, SInv, SessionTypeOK, Token, MaybeToken
  <2> QED
    BY <2>1 DEF Healthy, None
<1> QED
  BY <1>1, SafeInit, SafeInductive, PTL DEF SessionSpec
=============================================================================
