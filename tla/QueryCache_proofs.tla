--------------------------- MODULE QueryCache_proofs ---------------------------
(***************************************************************************)
(* Proofs about QueryTables and QueryCache, for any number of calls and    *)
(* every pair of a mutation and a query: an entry that counts as valid     *)
(* shows what the API has, but for calls applied after their end, and no   *)
(* open screen is left without data.                                       *)
(***************************************************************************)
EXTENDS QueryCache, TLAPS

-----------------------------------------------------------------------------
(* The tables.                                                             *)

\* An optimistic mutation invalidates whatever it cancels, after an error too.
Restores(m) == m.cancels \subseteq m.invalidates /\ (m.cancels # {} => m.settled)
AllRestore(h) == \A m \in h.mutations : Restores(m)

LEMMA PlainRestores ==
    ASSUME NEW w, NEW k
    PROVE  Restores(M(w, k)) /\ Restores(S(w, k))
BY DEF Restores, M, S

LEMMA OptimisticRestores ==
    ASSUME NEW w, NEW k, NEW c, NEW e, NEW r, NEW n, c \subseteq k
    PROVE  Restores(Optimistic(M(w, k), c, e, r, n))
BY DEF Restores, M, Optimistic

LEMMA CustomerRestores == \A h \in Customer : AllRestore(h)
<1> USE PlainRestores DEF AllRestore, Hooks
<1>1. AllRestore(useEndpoints)
  <2>1. Restores(Optimistic(M({"endpoints"}, {<<"endpoint", "id">>, <<"endpoints">>, <<"stats">>}),
                 {<<"endpoint", "id">>, <<"endpoints">>}, {<<"endpoint", "id">>, <<"endpoints">>},
                 {}, {<<"endpoint", "id">>}))
    BY OptimisticRestores
  <2> QED
    BY <2>1 DEF useEndpoints
<1>2. AllRestore(useNotifications)
  <2>1. Restores(Optimistic(M({"notifications"}, {<<"notifications">>}), {<<"notifications">>},
                 {<<"notifications", "params">>}, {<<"notifications">>}, {}))
    BY OptimisticRestores
  <2> QED
    BY <2>1 DEF useNotifications
<1>3. AllRestore(useBroadcasts)
  <2>1. Restores(Optimistic(M({"dismissals"}, {<<"broadcasts">>}), {<<"broadcasts">>},
                 {<<"broadcasts", "active">>}, {}, {<<"broadcasts", "active">>}))
    BY OptimisticRestores
  <2> QED
    BY <2>1 DEF useBroadcasts
<1>4. /\ AllRestore(useUnreadCounts) /\ AllRestore(useWebhooks) /\ AllRestore(useAnalytics)
      /\ AllRestore(useApiKeys) /\ AllRestore(useServiceTokens) /\ AllRestore(useRateLimits)
      /\ AllRestore(useAlerts) /\ AllRestore(useTransforms) /\ AllRestore(useInboundConfigs)
  BY DEF useUnreadCounts, useWebhooks, useAnalytics, useApiKeys, useServiceTokens, useRateLimits,
         useAlerts, useTransforms, useInboundConfigs
<1>5. /\ AllRestore(usePortal) /\ AllRestore(useBilling) /\ AllRestore(useTeams)
      /\ AllRestore(useTeamRole) /\ AllRestore(useCollections) /\ AllRestore(useDashboardData)
  BY DEF usePortal, useBilling, useTeams, useTeamRole, useCollections, useDashboardData
<1>6. /\ AllRestore(EndpointsContent) /\ AllRestore(EndpointPage) /\ AllRestore(RoutingPage)
      /\ AllRestore(RetryPolicyPage) /\ AllRestore(AppDetailContent) /\ AllRestore(ApplicationsPage)
      /\ AllRestore(OverageSettings) /\ AllRestore(StreamingContent) /\ AllRestore(SignatureCard)
      /\ AllRestore(RefundRequestModal)
  BY DEF EndpointsContent, EndpointPage, RoutingPage, RetryPolicyPage, AppDetailContent,
         ApplicationsPage, OverageSettings, StreamingContent, SignatureCard, RefundRequestModal
<1>7. /\ AllRestore(MessagePollerContent) /\ AllRestore(BackgroundTasksPage)
      /\ AllRestore(IntegrationsContent) /\ AllRestore(ConnectorsContent)
      /\ AllRestore(EnvironmentsContent) /\ AllRestore(OperationalWebhooksList)
  BY DEF MessagePollerContent, BackgroundTasksPage, IntegrationsContent, ConnectorsContent,
         EnvironmentsContent, OperationalWebhooksList
<1> HIDE DEF AllRestore, Hooks
<1> QED
  BY <1>1, <1>2, <1>3, <1>4, <1>5, <1>6, <1>7, Zenon DEF Customer

LEMMA AdministratorRestores == \A h \in Administrator : AllRestore(h)
<1> USE PlainRestores DEF AllRestore, Hooks
<1>1. /\ AllRestore(useAdminUserQueries) /\ AllRestore(useAdminUserRecords) /\ AllRestore(useAdminUserMutations)
  BY DEF useAdminUserQueries, useAdminUserRecords, useAdminUserMutations
<1>2. /\ AllRestore(useAdminSettings) /\ AllRestore(useAdminSystem) /\ AllRestore(useAdminData)
      /\ AllRestore(useAdminStats) /\ AllRestore(useAdminBatch) /\ AllRestore(useAdminAlerts)
      /\ AllRestore(AdminBroadcasts) /\ AllRestore(AdminEmail) /\ AllRestore(AdminSecurity)
  BY DEF useAdminSettings, useAdminSystem, useAdminData, useAdminStats, useAdminBatch, useAdminAlerts,
         AdminBroadcasts, AdminEmail, AdminSecurity
<1> HIDE DEF AllRestore, Hooks
<1> QED
  BY <1>1, <1>2, Zenon DEF Administrator

\* What the cache needs of every pair.
LEMMA CancelsCovered == \A w \in Ways : w.cancels => w.covers /\ w.settled
<1> SUFFICES ASSUME NEW pair \in Pairs
             PROVE  LET w == WayOf(pair[1], pair[2]) IN w.cancels => w.covers /\ w.settled
  BY DEF Ways
<1>1. ASSUME NEW side, \A h \in side : AllRestore(h), pair \in PairsOf(side)
      PROVE  Restores(pair[1])
  BY <1>1 DEF PairsOf, AllRestore
<1>2. Restores(pair[1])
  BY <1>1, CustomerRestores, AdministratorRestores DEF Pairs
<1>3. Matches(pair[1].cancels, pair[2].key) => Matches(pair[1].invalidates, pair[2].key) /\ pair[1].settled
  BY <1>2 DEF Matches, Restores
<1> QED
  BY <1>3 DEF WayOf, Covers
-----------------------------------------------------------------------------
(* The invariant.                                                          *)

\* Calls under way whose end invalidates the entry, or breaks the promise.
Excused == \E c \in Calls : call[c] = "applied" \/ (way.settled /\ call[c] = "sent")

\* What holds of the data while nothing excuses it: at rest a valid entry is
\* current, and an answer on its way is.
Current ==
    Promised /\ ~Excused =>
        /\ fetch.at = "idle" /\ entry.known /\ ~entry.invalid => UpToDate
        /\ fetch.at = "answered" => fetch.shows \ tardy = server \ tardy

\* Only a call that cancelled the fetch leaves a screen without data.
Supplied == observed /\ ~entry.known => fetch.at # "idle" \/ failed \/ (way.cancels /\ InFlight # {})

NoData(e) == ~e.known => e.shows = {}

Kept ==
    /\ NoData(revert)
    /\ ~way.cancels => \A c \in Calls : snapshot[c] = Empty
    /\ \A c \in Calls : call[c] = "applied" => c \in server

CacheInv == CacheTypeOK /\ Kept /\ Current /\ Supplied

-----------------------------------------------------------------------------
(* The parts of the steps.                                                 *)

Fetch == [at : {"idle", "asked", "answered"}, shows : SUBSET Calls]

LEMMA Constants == Empty \in Entry /\ Idle \in Fetch /\ NoData(Empty) /\ ~Empty.known
BY DEF Empty, Entry, Idle, Fetch, NoData

LEMMA BeginTyped ==
    ASSUME NEW e \in Entry, Begin(e)
    PROVE  fetch' \in Fetch /\ fetch'.at = "asked" /\ fetch'.shows = {} /\ revert' = e /\ overlooked' = FALSE
BY DEF Begin, Fetch

\* An entry that ends a call and that the mutation invalidates is not taken for
\* valid, and a screen without data gets a fetch.
LEMMA InvalidateCovered ==
    ASSUME CacheTypeOK, Kept, NEW e \in Entry, NoData(e), way.covers, Invalidate(e),
           UNCHANGED <<way, observed>>
    PROVE  /\ entry' \in Entry /\ NoData(entry') /\ entry'.invalid
           /\ fetch' \in Fetch /\ (fetch'.at # "answered" => fetch'.shows = {})
           /\ revert' \in Entry /\ NoData(revert') /\ (fetch'.at = "idle" => revert' = Empty)
           /\ overlooked' \in BOOLEAN
           /\ fetch'.at = "asked" \/ overlooked' \/ fetch'.at = "idle"
           /\ observed => fetch'.at # "idle"
<1> DEFINE marked == [e EXCEPT !.invalid = TRUE]
<1>1. marked \in Entry /\ NoData(marked) /\ marked.invalid
  BY DEF Entry, NoData
<1>2. entry' = marked
  BY DEF Invalidate
<1>3. CASE observed /\ (fetch.at = "idle" \/ e.known)
  <2>1. Begin(marked)
    BY <1>3 DEF Invalidate
  <2>2. overlooked' \in BOOLEAN
    BY <2>1, BeginTyped, <1>1, Zenon
  <2> HIDE DEF marked
  <2> QED
    BY <1>1, <1>2, <2>1, <2>2, BeginTyped
<1>4. CASE ~(observed /\ (fetch.at = "idle" \/ e.known))
  <2>1. overlooked' = (overlooked \/ fetch.at # "idle") /\ UNCHANGED <<fetch, revert>>
    BY <1>4 DEF Invalidate
  <2>2. overlooked' \in BOOLEAN
    BY <2>1 DEF CacheTypeOK
  <2> HIDE DEF marked
  <2> QED
    BY <1>1, <1>2, <1>4, <2>1, <2>2 DEF CacheTypeOK, Kept, Fetch
<1> QED
  BY <1>3, <1>4

LEMMA RolledBackTyped ==
    ASSUME CacheTypeOK, Kept, NEW c \in Calls
    PROVE  /\ RolledBack(c, entry) \in Entry /\ NoData(RolledBack(c, entry))
           /\ ~way.cancels => RolledBack(c, entry) = entry
<1>1. CASE (way.edits \/ way.rewrites) /\ snapshot[c].known
  BY <1>1, Constants DEF RolledBack, CacheTypeOK, Kept, Entry, NoData
<1>2. CASE ~((way.edits \/ way.rewrites) /\ snapshot[c].known)
  BY <1>2 DEF RolledBack, CacheTypeOK, NoData
<1> QED
  BY <1>1, <1>2

LEMMA EditedTyped ==
    ASSUME NEW e \in Entry, NEW c \in Calls, NoData(e)
    PROVE  Edited(c, e) \in Entry /\ NoData(Edited(c, e))
<1>1. CASE e.known /\ way.edits
  BY <1>1 DEF Edited, Entry, NoData
<1>2. CASE e.known /\ ~way.edits /\ way.rewrites
  BY <1>2 DEF Edited, Entry, NoData
<1>3. CASE e.known /\ ~way.edits /\ ~way.rewrites
  BY <1>3 DEF Edited, Entry, NoData
<1>4. CASE ~e.known
  BY <1>4 DEF Edited, Entry, NoData
<1> QED
  BY <1>1, <1>2, <1>3, <1>4

-----------------------------------------------------------------------------
(* The steps of the cache.                                                 *)

\* A step that only begins a fetch of the entry.
LEMMA BeginSafe ==
    ASSUME CacheInv, Begin(entry), UNCHANGED <<way, server, entry, failed, call, snapshot, lateVars>>, observed' \in BOOLEAN
    PROVE  CacheInv'
<1> USE DEF CacheInv
<1>1. entry \in Entry /\ NoData(entry)
  BY DEF CacheTypeOK, NoData
<1>2. fetch' \in Fetch /\ fetch'.at = "asked" /\ fetch'.shows = {} /\ revert' = entry /\ overlooked' = FALSE
  BY <1>1, BeginTyped
<1>3. overlooked' \in BOOLEAN
  BY <1>2, Zenon
<1>4. CacheTypeOK'
  BY <1>1, <1>2, <1>3 DEF CacheTypeOK, Fetch, lateVars
<1>5. Kept'
  BY <1>1, <1>2 DEF Kept, NoData
<1>6. Current' /\ Supplied'
  BY <1>2 DEF Current, Supplied
<1> QED
  BY <1>4, <1>5, <1>6

\* A step that leaves the data alone: a screen that comes finds data or a fetch.
LEMMA ScreenSafe ==
    ASSUME CacheInv, UNCHANGED <<way, server, entry, fetch, revert, failed, overlooked, call, snapshot, lateVars>>,
           observed' \in BOOLEAN, observed' => observed \/ entry.known \/ fetch.at # "idle"
    PROVE  CacheInv'
<1> USE DEF CacheInv
<1>1. CacheTypeOK' /\ Kept'
  BY DEF CacheTypeOK, Kept, NoData, lateVars
<1>2. Current' /\ Supplied'
  BY DEF Current, Promised, Lost, Excused, Supplied, InFlight, lateVars, UpToDate
<1> QED
  BY <1>1, <1>2

LEMMA CacheSafe ==
    ASSUME CacheInv, Open \/ Turn \/ Leave \/ Prefetch \/ Refetch
    PROVE  CacheInv'
<1>1. CASE Open
  <2>1. observed' \in BOOLEAN
    BY <1>1, Zenon DEF Open
  <2>2. CASE ~entry.known /\ fetch.at = "idle"
    BY <1>1, <2>1, <2>2, BeginSafe DEF Open
  <2>3. CASE ~(~entry.known /\ fetch.at = "idle")
    BY <1>1, <2>1, <2>3, ScreenSafe DEF Open, NoFetch
  <2> QED
    BY <2>2, <2>3
<1>2. CASE Turn
  <2>1. observed' \in BOOLEAN
    BY <1>2, Zenon DEF Turn
  <2>2. CASE Begin(entry)
    BY <1>2, <2>1, <2>2, BeginSafe DEF Turn
  <2>3. CASE (fetch.at # "idle" \/ (entry.known /\ ~entry.invalid)) /\ NoFetch
    BY <1>2, <2>1, <2>3, ScreenSafe DEF Turn, NoFetch
  <2> QED
    BY <1>2, <2>2, <2>3 DEF Turn
<1>3. CASE Leave
  <2>1. observed' \in BOOLEAN /\ ~observed'
    BY <1>3, Zenon DEF Leave
  <2> QED
    BY <1>3, <2>1, ScreenSafe DEF Leave
<1>4. CASE Prefetch
  BY <1>4, BeginSafe DEF Prefetch, CacheInv, CacheTypeOK
<1>5. CASE Refetch
  BY <1>5, BeginSafe DEF Refetch, CacheInv, CacheTypeOK
<1> QED
  BY <1>1, <1>2, <1>3, <1>4, <1>5

LEMMA ForgetSafe == ASSUME CacheInv, Forget PROVE CacheInv'
<1> USE DEF CacheInv
<1>1. failed' \in BOOLEAN
  BY Zenon DEF Forget
<1>2. CacheTypeOK'
  BY <1>1, Constants DEF Forget, CacheTypeOK, NoData, lateVars
<1>3. Kept'
  BY DEF Forget, Kept, NoData
<1>4. Supplied'
  BY DEF Forget, Supplied
<1>5. Current'
  <2>1. fetch'.at = "idle" /\ ~entry'.known
    BY Constants DEF Forget
  <2> QED
    BY <2>1 DEF Current
<1> QED
  BY <1>2, <1>3, <1>4, <1>5

LEMMA AnswerSafe == ASSUME CacheInv, Answer PROVE CacheInv'
<1> USE DEF CacheInv
<1>1. fetch' = [at |-> "answered", shows |-> server]
  BY DEF Answer
<1>2. CacheTypeOK'
  BY <1>1 DEF Answer, CacheTypeOK, lateVars
<1>3. Kept'
  BY DEF Answer, Kept, NoData
<1>4. Current' /\ Supplied'
  BY <1>1 DEF Answer, Current, Supplied
<1> QED
  BY <1>2, <1>3, <1>4

LEMMA ReceiveSafe == ASSUME CacheInv, Receive PROVE CacheInv'
<1> USE DEF CacheInv
<1>1. /\ fetch.at = "answered"
      /\ entry' = [known |-> TRUE, whole |-> TRUE, shows |-> fetch.shows, invalid |-> FALSE]
      /\ fetch' = Idle /\ revert' = Empty
      /\ UNCHANGED <<way, server, observed, overlooked, call, snapshot, lateVars>>
  BY DEF Receive
<1>2. failed' \in BOOLEAN
  BY Zenon DEF Receive
<1>3. CacheTypeOK'
  <2>1. entry' \in Entry /\ entry'.known
    BY <1>1 DEF CacheTypeOK, Entry
  <2>2. fetch' \in Fetch /\ fetch'.shows = {} /\ revert' = Empty /\ revert' \in Entry
    BY <1>1, Constants DEF Idle
  <2> QED
    BY <1>1, <1>2, <2>1, <2>2 DEF CacheTypeOK, Fetch, lateVars
<1>4. Kept'
  BY <1>1, Constants DEF Kept
<1>5. Current'
  BY <1>1 DEF Current, Promised, Lost, Excused, Idle, lateVars, UpToDate
<1>6. Supplied'
  BY <1>1 DEF Supplied
<1> QED
  BY <1>3, <1>4, <1>5, <1>6

LEMMA FetchFailsSafe == ASSUME CacheInv, FetchFails PROVE CacheInv'
<1> USE DEF CacheInv
<1>1. /\ entry' = [entry EXCEPT !.invalid = TRUE]
      /\ fetch' = Idle /\ revert' = Empty
      /\ failed'
      /\ UNCHANGED <<way, server, observed, overlooked, call, snapshot, lateVars>>
  BY DEF FetchFails
<1>2. failed' \in BOOLEAN
  BY Zenon DEF FetchFails
<1>3. CacheTypeOK'
  <2>1. entry' \in Entry /\ NoData(entry')
    BY <1>1 DEF CacheTypeOK, Entry, NoData
  <2>2. fetch' \in Fetch /\ fetch'.shows = {} /\ revert' = Empty /\ revert' \in Entry
    BY <1>1, Constants DEF Idle
  <2> QED
    BY <1>1, <1>2, <2>1, <2>2 DEF CacheTypeOK, Fetch, NoData, lateVars
<1>4. Kept'
  BY <1>1, Constants DEF Kept
<1>5. Current'
  <2>1. entry'.invalid /\ fetch'.at = "idle"
    BY <1>1 DEF CacheTypeOK, Entry, Idle
  <2> QED
    BY <2>1 DEF Current
<1>6. Supplied'
  BY <1>1 DEF Supplied
<1> QED
  BY <1>3, <1>4, <1>5, <1>6
-----------------------------------------------------------------------------
(* The steps of the mutation.                                              *)

LEMMA MutateSafe ==
    ASSUME CacheInv, NEW c \in Calls, Mutate(c)
    PROVE  CacheInv'
<1> USE DEF CacheInv
<1>1. /\ call[c] = "idle" /\ call' = [call EXCEPT ![c] = "sent"]
      /\ UNCHANGED <<way, server, observed, failed, overlooked, lateVars>>
  BY DEF Mutate
<1>2. /\ call' \in [Calls -> {"idle", "sent", "applied", "done", "failed"}]
      /\ call'[c] = "sent"
      /\ \A d \in Calls \ {c} : call'[d] = call[d]
  BY <1>1 DEF CacheTypeOK
<1>3. CASE way.cancels
  <2> DEFINE base == IF fetch.at = "idle" THEN entry ELSE revert
  <2>1. /\ snapshot' = [snapshot EXCEPT ![c] = base]
        /\ entry' = Edited(c, base)
        /\ fetch' = Idle /\ revert' = Empty
    BY <1>3 DEF Mutate
  <2>2. base \in Entry /\ NoData(base)
    BY DEF CacheTypeOK, Kept, NoData
  <2> HIDE DEF base
  <2>3. entry' \in Entry /\ NoData(entry')
    BY <2>1, <2>2, EditedTyped
  <2>4. fetch' \in Fetch /\ fetch'.shows = {} /\ revert' \in Entry
    BY <2>1, Constants DEF Idle
  <2>5. CacheTypeOK'
    BY <1>1, <1>2, <2>1, <2>2, <2>3, <2>4 DEF CacheTypeOK, Fetch, NoData, lateVars
  <2>6. Kept'
    BY <1>1, <1>2, <1>3, <2>1, Constants DEF Kept
  <2>7. way.settled
    BY <1>3, CancelsCovered DEF CacheTypeOK
  <2>8. Excused'
    BY <1>1, <1>2, <2>7 DEF Excused
  <2>9. InFlight' # {}
    BY <1>2 DEF InFlight
  <2> QED
    BY <1>1, <1>3, <2>5, <2>6, <2>8, <2>9 DEF Current, Supplied
<1>4. CASE ~way.cancels
  <2>1. UNCHANGED <<entry, fetch, revert, snapshot>>
    BY <1>4 DEF Mutate
  <2>2. CacheTypeOK' /\ Kept'
    BY <1>1, <1>2, <2>1 DEF CacheTypeOK, Kept, NoData, lateVars
  <2>3. Promised' => Promised
    BY <1>1, <1>2 DEF Promised, Lost
  <2>4. Excused => Excused'
    BY <1>1, <1>2 DEF Excused
  <2>5. Current' /\ Supplied'
    BY <1>1, <1>4, <2>1, <2>3, <2>4 DEF Current, Supplied, UpToDate, lateVars
  <2> QED
    BY <2>2, <2>5
<1> QED
  BY <1>3, <1>4

LEMMA ApplySafe ==
    ASSUME CacheInv, NEW c \in Calls, Apply(c)
    PROVE  CacheInv'
<1> USE DEF CacheInv
<1>1. /\ call[c] = "sent" /\ call' = [call EXCEPT ![c] = "applied"] /\ server' = server \cup {c}
      /\ UNCHANGED <<way, entry, observed, fetch, revert, failed, overlooked, snapshot, lateVars>>
  BY DEF Apply
<1>2. /\ call' \in [Calls -> {"idle", "sent", "applied", "done", "failed"}]
      /\ call'[c] = "applied"
      /\ \A d \in Calls \ {c} : call'[d] = call[d]
  BY <1>1 DEF CacheTypeOK
<1>3. CacheTypeOK' /\ Kept'
  BY <1>1, <1>2 DEF CacheTypeOK, Kept, NoData, lateVars
<1>4. Excused'
  BY <1>2 DEF Excused
<1>5. InFlight' # {}
  BY <1>2 DEF InFlight
<1> QED
  BY <1>1, <1>3, <1>4, <1>5 DEF Current, Supplied

\* A write after the end of its call disturbs nothing else.
LEMMA ApplyLateSafe ==
    ASSUME CacheInv, NEW c \in Calls, ApplyLate(c)
    PROVE  CacheInv'
<1> USE DEF CacheInv
<1>1. /\ server' = server \cup {c} /\ tardy' = tardy \cup {c} /\ late' = late \ {c}
      /\ UNCHANGED <<way, entry, observed, fetch, revert, failed, overlooked, call, snapshot>>
  BY DEF ApplyLate
<1>2. CacheTypeOK' /\ Kept'
  BY <1>1 DEF CacheTypeOK, Kept, NoData
<1>3. Promised' => Promised
  BY <1>1 DEF Promised, Lost
<1>4. Excused => Excused'
  BY <1>1 DEF Excused
<1>5. \A copy : copy \ tardy = server \ tardy => copy \ tardy' = server' \ tardy'
  BY <1>1, Zenon
<1>6. UpToDate => UpToDate'
  BY <1>1, <1>5 DEF UpToDate
<1>7. Current' /\ Supplied'
  BY <1>1, <1>3, <1>4, <1>5, <1>6 DEF Current, Supplied, InFlight
<1> QED
  BY <1>2, <1>7

\* The end of a call that invalidates: the entry is e, before that.
LEMMA EndSafe ==
    ASSUME CacheInv, NEW c \in Calls, NEW e \in Entry, NoData(e), Invalidate(e), way.covers,
           NEW outcome \in {"done", "failed"}, call' = [call EXCEPT ![c] = outcome],
           snapshot' = [snapshot EXCEPT ![c] = Empty], MayLinger(c),
           UNCHANGED <<way, server, observed, failed, tardy>>
    PROVE  CacheInv'
<1> USE DEF CacheInv
<1>1. /\ entry' \in Entry /\ NoData(entry') /\ entry'.invalid
      /\ fetch' \in Fetch /\ (fetch'.at # "answered" => fetch'.shows = {})
      /\ revert' \in Entry /\ NoData(revert') /\ (fetch'.at = "idle" => revert' = Empty)
      /\ overlooked' \in BOOLEAN
      /\ fetch'.at = "asked" \/ overlooked' \/ fetch'.at = "idle"
      /\ observed => fetch'.at # "idle"
  BY InvalidateCovered
<1>2. /\ call' \in [Calls -> {"idle", "sent", "applied", "done", "failed"}]
      /\ call'[c] = outcome
      /\ \A d \in Calls \ {c} : call'[d] = call[d]
  BY DEF CacheTypeOK
<1>3. CacheTypeOK'
  BY <1>1, <1>2, Constants DEF CacheTypeOK, Fetch, NoData, MayLinger
<1>4. Kept'
  BY <1>1, <1>2 DEF Kept, CacheTypeOK
<1>5. Current'
  BY <1>1 DEF Current, Promised
<1>6. Supplied'
  BY <1>1 DEF Supplied
<1> QED
  BY <1>3, <1>4, <1>5, <1>6

\* The end of a call that does not: nothing is promised any more, or the API
\* has refused it.
LEMMA QuietEndSafe ==
    ASSUME CacheInv, NEW c \in Calls, ~way.cancels, call[c] \in {"sent", "applied"},
           NEW outcome \in {"done", "failed"}, call' = [call EXCEPT ![c] = outcome],
           snapshot' = [snapshot EXCEPT ![c] = Empty], MayLinger(c),
           UNCHANGED <<way, server, entry, observed, fetch, revert, failed, overlooked, tardy>>,
           Promised => ~way.settled /\ (call[c] = "sent" \/ (call[c] = "applied" /\ outcome = "failed"))
    PROVE  CacheInv'
<1> USE DEF CacheInv
<1>1. /\ call' \in [Calls -> {"idle", "sent", "applied", "done", "failed"}]
      /\ call'[c] = outcome
      /\ \A d \in Calls \ {c} : call'[d] = call[d]
  BY DEF CacheTypeOK
<1>2. CacheTypeOK' /\ Kept'
  BY <1>1, Constants DEF CacheTypeOK, Kept, NoData, MayLinger
<1>3. Supplied'
  BY DEF Supplied
<1>4. Current'
  <2>1. SUFFICES ASSUME Promised', ~Excused' PROVE Promised /\ ~Excused
    BY DEF Current, UpToDate
  <2>2. Promised
    BY <2>1, <1>1 DEF Promised, Lost
  <2>3. call[c] # "applied"
    BY <2>1, <2>2, <1>1 DEF Promised, Lost, Kept
  <2> QED
    BY <2>1, <2>2, <2>3, <1>1 DEF Excused
<1> QED
  BY <1>2, <1>3, <1>4

LEMMA SucceedSafe ==
    ASSUME CacheInv, NEW c \in Calls, Succeed(c)
    PROVE  CacheInv'
<1> USE DEF CacheInv
<1>1. /\ call' = [call EXCEPT ![c] = "done"] /\ Invalidate(entry)
      /\ snapshot' = [snapshot EXCEPT ![c] = Empty] /\ MayLinger(c)
      /\ UNCHANGED <<way, server, observed, failed, tardy>>
  BY DEF Succeed
<1> call[c] = "applied"
  BY DEF Succeed
<1>2. entry \in Entry /\ NoData(entry)
  BY DEF CacheTypeOK, NoData
<1>3. CASE way.covers
  BY <1>1, <1>2, <1>3, EndSafe
<1>4. CASE ~way.covers
  <2>1. entry' = entry /\ UNCHANGED <<fetch, revert, overlooked>>
    BY <1>1, <1>4 DEF Invalidate, NoFetch
  <2>2. ~way.cancels /\ ~Promised
    BY <1>4, CancelsCovered DEF CacheTypeOK, Promised
  <2> QED
    BY <1>1, <2>1, <2>2, QuietEndSafe
<1> QED
  BY <1>3, <1>4

LEMMA FailSafe ==
    ASSUME CacheInv, NEW c \in Calls, Fail(c)
    PROVE  CacheInv'
<1> USE DEF CacheInv
<1>1. /\ call[c] = "sent" \/ call[c] = "applied"
      /\ call' = [call EXCEPT ![c] = "failed"]
      /\ snapshot' = [snapshot EXCEPT ![c] = Empty] /\ MayLinger(c)
      /\ UNCHANGED <<way, server, observed, failed, tardy>>
  BY DEF Fail
<1>2. /\ RolledBack(c, entry) \in Entry /\ NoData(RolledBack(c, entry))
      /\ ~way.cancels => RolledBack(c, entry) = entry
  BY RolledBackTyped
<1>3. CASE way.settled /\ way.covers
  BY <1>1, <1>2, <1>3, EndSafe DEF Fail
<1>4. CASE ~(way.settled /\ way.covers)
  <2>1. ~way.cancels
    BY <1>4, CancelsCovered DEF CacheTypeOK
  <2>2. entry' = RolledBack(c, entry) /\ UNCHANGED <<fetch, revert, overlooked>>
    BY <1>4 DEF Fail, Invalidate, NoFetch
  <2>3. Promised => ~way.settled
    BY <1>4 DEF Promised
  <2> QED
    BY <1>1, <1>2, <2>1, <2>2, <2>3, QuietEndSafe
<1> QED
  BY <1>3, <1>4

-----------------------------------------------------------------------------
LEMMA CacheStart == CacheInit => CacheInv
<1> SUFFICES ASSUME CacheInit PROVE CacheInv
  OBVIOUS
<1> USE DEF CacheInit
<1>1. observed \in BOOLEAN /\ failed \in BOOLEAN /\ overlooked \in BOOLEAN
  BY Zenon
<1>2. CacheTypeOK
  BY <1>1, Constants DEF CacheTypeOK, Fetch, Idle, NoData
<1>3. Kept
  BY Constants DEF Kept
<1>4. Current /\ Supplied
  BY Constants DEF Current, Supplied, Idle
<1> QED
  BY <1>2, <1>3, <1>4 DEF CacheInv

LEMMA CacheStep == CacheInv /\ [CacheNext]_qvars => CacheInv'
<1> SUFFICES ASSUME CacheInv, [CacheNext]_qvars PROVE CacheInv'
  OBVIOUS
<1>1. CASE CacheNext
  BY <1>1, CacheSafe, ForgetSafe, AnswerSafe, ReceiveSafe, FetchFailsSafe,
     MutateSafe, ApplySafe, ApplyLateSafe, SucceedSafe, FailSafe DEF CacheNext
<1>2. CASE UNCHANGED qvars
  <2>1. observed' \in BOOLEAN
    BY <1>2 DEF CacheInv, CacheTypeOK, qvars
  <2> QED
    BY <1>2, <2>1, ScreenSafe DEF qvars
<1> QED
  BY <1>1, <1>2

LEMMA CacheInvariant == CacheSpec => []CacheInv
BY CacheStart, CacheStep, PTL DEF CacheSpec

-----------------------------------------------------------------------------
(* The theorems.                                                           *)

\* Type correctness: an entry without data shows nothing, and a fetch that is
\* not under way has nothing to be taken back to (the cache and the handlers of
\* useNotifications, useEndpoints and useBroadcasts).
THEOREM CacheTypeCorrect == CacheSpec => []CacheTypeOK
<1>1. CacheInv => CacheTypeOK
  BY DEF CacheInv
<1> QED
  BY <1>1, CacheInvariant, PTL

\* For every pair of the tables in which the mutation invalidates the query,
\* any number of overlapping calls, lost answers and cancelled or restarted
\* fetches: an entry the cache takes for valid shows what the API has, but for
\* the writes of calls that were applied after the page had given them up.
THEOREM ValidIsCurrentCorrect == CacheSpec => []ValidIsCurrent
<1>1. CacheInv => ValidIsCurrent
  BY DEF CacheInv, Current, ValidIsCurrent, Quiet, Excused, InFlight
<1> QED
  BY <1>1, CacheInvariant, PTL

\* An optimistic mutation that cancels the first load of a screen always starts
\* it again: an open screen is never left blank (onMutate and onSettled of the
\* optimistic hooks).
THEOREM NeverBlankCorrect == CacheSpec => []NeverBlank
<1>1. CacheInv => NeverBlank
  BY DEF CacheInv, Supplied, NeverBlank
<1> QED
  BY <1>1, CacheInvariant, PTL
=============================================================================
