------------------------------ MODULE QueryCache ------------------------------
(***************************************************************************)
(* One entry of the dashboard's query cache, the screens that show it and  *)
(* the calls of one mutation that writes what it shows: any pair of a      *)
(* mutation and a query of QueryTables.  The provider                      *)
(* (dashboard/src/components/ReactQueryProvider.tsx) sets refetchOnMount   *)
(* to false, so an entry that was invalidated while no screen showed it is *)
(* not fetched when one does.  The cache itself is @tanstack/react-query 5.*)
(*                                                                         *)
(* The server's data is the set of calls applied to it, and a copy of it   *)
(* is the set of calls it shows.                                           *)
(***************************************************************************)
EXTENDS QueryTables

CONSTANTS
    Calls,      \* bound: the calls of the mutation
    Faults      \* what may go wrong: subset of {"lost_reply", "offline"}, "lost_reply"
                \* being an attempt of a call that is given up and applied all the same

ASSUME QueryCacheAssumption == Faults \subseteq {"lost_reply", "offline"}

VARIABLES
    way,        \* the pair of mutation and query, see WayOf
    server,     \* the calls applied by the API
    entry,      \* the cache entry of the query
    observed,   \* a mounted screen shows the query
    fetch,      \* the fetch of the query: idle, asked, or answered with what it read
    revert,     \* the entry as it was when the fetch began
    failed,     \* the last fetch failed
    overlooked, \* an invalidation found a fetch it does not restart
    call,       \* the calls
    snapshot,   \* what onMutate returned to the call's onError
    late,       \* ended calls an attempt of which the API may still apply
    tardy       \* history: calls applied after their end

lateVars == <<late, tardy>>
qvars == <<way, server, entry, observed, fetch, revert, failed, overlooked, call, snapshot, lateVars>>

\* whole: data of the API, changed in place at most.
Entry == [known : BOOLEAN, whole : BOOLEAN, shows : SUBSET Calls, invalid : BOOLEAN]
Empty == [known |-> FALSE, whole |-> TRUE, shows |-> {}, invalid |-> FALSE]
Idle == [at |-> "idle", shows |-> {}]

CacheTypeOK ==
    /\ way \in Ways
    /\ server \subseteq Calls
    /\ entry \in Entry
    /\ ~entry.known => entry.shows = {}
    /\ observed \in BOOLEAN
    /\ fetch \in [at : {"idle", "asked", "answered"}, shows : SUBSET Calls]
    /\ fetch.at # "answered" => fetch.shows = {}
    /\ revert \in Entry
    /\ fetch.at = "idle" => revert = Empty
    /\ failed \in BOOLEAN
    /\ overlooked \in BOOLEAN
    /\ call \in [Calls -> {"idle", "sent", "applied", "done", "failed"}]
    /\ snapshot \in [Calls -> Entry]
    /\ late \subseteq Calls /\ tardy \subseteq Calls

CacheInit ==
    /\ way \in Ways
    /\ server = {}
    /\ entry = Empty /\ observed = FALSE
    /\ fetch = Idle /\ revert = Empty /\ failed = FALSE /\ overlooked = FALSE
    /\ call = [c \in Calls |-> "idle"]
    /\ snapshot = [c \in Calls |-> Empty]
    /\ late = {} /\ tardy = {}

InFlight == {c \in Calls : call[c] \in {"sent", "applied"}}

-----------------------------------------------------------------------------
(* The cache.                                                              *)

\* A fetch begins, from the entry e.
Begin(e) ==
    /\ fetch' = [at |-> "asked", shows |-> {}]
    /\ revert' = e
    /\ overlooked' = FALSE

NoFetch == UNCHANGED <<fetch, revert, overlooked>>

\* Mutant: an entry that has data is only marked.
MutMark(e) ==
    IF ~way.covers
    THEN entry' = e /\ NoFetch
    ELSE /\ entry' = [e EXCEPT !.invalid = TRUE]
         /\ IF observed /\ ~e.known /\ fetch.at = "idle"
            THEN Begin([e EXCEPT !.invalid = TRUE])
            ELSE /\ overlooked' = (overlooked \/ fetch.at # "idle")
                 /\ UNCHANGED <<fetch, revert>>

\* Mutant: a query that has no data is not fetched.
MutBlank(e) ==
    IF ~way.covers
    THEN entry' = e /\ NoFetch
    ELSE /\ entry' = [e EXCEPT !.invalid = TRUE]
         /\ IF observed /\ e.known
            THEN Begin([e EXCEPT !.invalid = TRUE])
            ELSE NoFetch

\* invalidateQueries: the entry is marked and, when a screen shows it, fetched
\* again.  A fetch under way is restarted only if there is data already.
Invalidate(e) ==
    IF ~way.covers
    THEN entry' = e /\ NoFetch
    ELSE /\ entry' = [e EXCEPT !.invalid = TRUE]
         /\ IF observed /\ (fetch.at = "idle" \/ e.known)
            THEN Begin([e EXCEPT !.invalid = TRUE])
            ELSE /\ overlooked' = (overlooked \/ fetch.at # "idle")
                 /\ UNCHANGED <<fetch, revert>>

\* A screen mounts.  refetchOnMount is false: only an entry without data is fetched.
Open ==
    /\ ~observed
    /\ observed' = TRUE
    /\ IF ~entry.known /\ fetch.at = "idle" THEN Begin(entry) ELSE NoFetch
    /\ UNCHANGED <<way, server, entry, failed, call, snapshot, lateVars>>

\* A mounted screen turns to the parameters of the query: a stale entry, one
\* invalidated or as old as its staleTime, is fetched.
Turn ==
    /\ ~observed /\ way.turns
    /\ observed' = TRUE
    /\ \/ fetch.at = "idle" /\ Begin(entry)
       \/ (fetch.at # "idle" \/ (entry.known /\ ~entry.invalid)) /\ NoFetch
    /\ UNCHANGED <<way, server, entry, failed, call, snapshot, lateVars>>

Leave ==
    /\ observed
    /\ observed' = FALSE
    /\ UNCHANGED <<way, server, entry, fetch, revert, failed, overlooked, call, snapshot, lateVars>>

\* Half an hour after the last screen (gcTime) the entry is dropped.
Forget ==
    /\ ~observed /\ entry.known /\ fetch.at = "idle"
    /\ entry' = Empty /\ failed' = FALSE
    /\ UNCHANGED <<way, server, observed, fetch, revert, overlooked, call, snapshot, lateVars>>

\* The pointer rests on a link to the screen: PrefetchLink fetches what is not there.
Prefetch ==
    /\ ~observed /\ ~entry.known /\ fetch.at = "idle"
    /\ Begin(entry)
    /\ UNCHANGED <<way, server, entry, observed, failed, call, snapshot, lateVars>>

\* The network is back (refetchOnReconnect), or the query's interval is over.
Refetch ==
    /\ observed /\ fetch.at = "idle"
    /\ Begin(entry)
    /\ UNCHANGED <<way, server, entry, observed, failed, call, snapshot, lateVars>>

\* The API reads the data ...
Answer ==
    /\ fetch.at = "asked"
    /\ fetch' = [at |-> "answered", shows |-> server]
    /\ UNCHANGED <<way, server, entry, observed, revert, failed, overlooked, call, snapshot, lateVars>>

\* ... and its answer replaces the entry.
Receive ==
    /\ fetch.at = "answered"
    /\ entry' = [known |-> TRUE, whole |-> TRUE, shows |-> fetch.shows, invalid |-> FALSE]
    /\ fetch' = Idle /\ revert' = Empty
    /\ failed' = FALSE
    /\ UNCHANGED <<way, server, observed, overlooked, call, snapshot, lateVars>>

\* Both attempts of the fetch failed.
FetchFails ==
    /\ "offline" \in Faults /\ fetch.at # "idle"
    /\ entry' = [entry EXCEPT !.invalid = TRUE]
    /\ fetch' = Idle /\ revert' = Empty
    /\ failed' = TRUE
    /\ UNCHANGED <<way, server, observed, overlooked, call, snapshot, lateVars>>

-----------------------------------------------------------------------------
(* The mutation.                                                           *)

\* Mutant: edits an entry that has no data.
MutEdited(c, e) ==
    CASE way.edits -> [e EXCEPT !.shows = @ \cup {c}, !.invalid = FALSE]
      [] ~way.edits /\ way.rewrites -> [e EXCEPT !.invalid = FALSE]
      [] OTHER -> e

\* onMutate: setQueryData marks the entry as fresh.
Edited(c, e) ==
    IF e.known
    THEN CASE way.edits -> [e EXCEPT !.shows = @ \cup {c}, !.invalid = FALSE]
           [] ~way.edits /\ way.rewrites -> [e EXCEPT !.invalid = FALSE]
           [] OTHER -> e
    ELSE IF way.creates
         THEN [known |-> TRUE, whole |-> FALSE, shows |-> {c}, invalid |-> FALSE]
         ELSE e

\* mutate: an optimistic mutation cancels the fetch, which takes the entry back
\* to where the fetch began, and edits it; the others only call the API.
Mutate(c) ==
    /\ call[c] = "idle"
    /\ call' = [call EXCEPT ![c] = "sent"]
    /\ IF way.cancels
       THEN LET base == IF fetch.at = "idle" THEN entry ELSE revert
            IN /\ snapshot' = [snapshot EXCEPT ![c] = base]
               /\ entry' = Edited(c, base)
               /\ fetch' = Idle /\ revert' = Empty
       ELSE UNCHANGED <<entry, fetch, revert, snapshot>>
    /\ UNCHANGED <<way, server, observed, failed, overlooked, lateVars>>

\* The API applies the call.
Apply(c) ==
    /\ call[c] = "sent"
    /\ server' = server \cup {c}
    /\ call' = [call EXCEPT ![c] = "applied"]
    /\ UNCHANGED <<way, entry, observed, fetch, revert, failed, overlooked, snapshot, lateVars>>

\* An attempt that was given up before the call ended, after 30 seconds, on an
\* error of the network or on 502-504, may still be on its way.
MayLinger(c) == late' = late \/ ("lost_reply" \in Faults /\ late' = late \cup {c})

\* The API applies such an attempt after the call has ended; nothing in the page
\* learns of it.
ApplyLate(c) ==
    /\ c \in late
    /\ server' = server \cup {c}
    /\ late' = late \ {c} /\ tardy' = tardy \cup {c}
    /\ UNCHANGED <<way, entry, observed, fetch, revert, failed, overlooked, call, snapshot>>

Succeed(c) ==
    /\ call[c] = "applied"
    /\ call' = [call EXCEPT ![c] = "done"]
    /\ Invalidate(entry)
    /\ snapshot' = [snapshot EXCEPT ![c] = Empty]
    /\ MayLinger(c)
    /\ UNCHANGED <<way, server, observed, failed, tardy>>

\* onError: the data of the snapshot is put back if it had any.
RolledBack(c, e) ==
    IF (way.edits \/ way.rewrites) /\ snapshot[c].known
    THEN [snapshot[c] EXCEPT !.invalid = FALSE]
    ELSE e

\* Mutant: invalidates only after success.
MutFail(c) ==
    /\ \/ call[c] = "sent"
       \/ call[c] = "applied" /\ "lost_reply" \in Faults
    /\ call' = [call EXCEPT ![c] = "failed"]
    /\ entry' = RolledBack(c, entry)
    /\ NoFetch
    /\ snapshot' = [snapshot EXCEPT ![c] = Empty]
    /\ MayLinger(c)
    /\ UNCHANGED <<way, server, observed, failed, tardy>>

\* The call is refused, or its last attempt is given up, applied or not.
Fail(c) ==
    /\ \/ call[c] = "sent"
       \/ call[c] = "applied" /\ "lost_reply" \in Faults
    /\ call' = [call EXCEPT ![c] = "failed"]
    /\ IF way.settled
       THEN Invalidate(RolledBack(c, entry))
       ELSE entry' = RolledBack(c, entry) /\ NoFetch
    /\ snapshot' = [snapshot EXCEPT ![c] = Empty]
    /\ MayLinger(c)
    /\ UNCHANGED <<way, server, observed, failed, tardy>>

CacheNext ==
    \/ Open \/ Turn \/ Leave \/ Forget \/ Prefetch \/ Refetch
    \/ Answer \/ Receive \/ FetchFails
    \/ \E c \in Calls : Mutate(c) \/ Apply(c) \/ ApplyLate(c) \/ Succeed(c) \/ Fail(c)

CacheSpec == CacheInit /\ [][CacheNext]_qvars

\* Requests end: a fetch is answered or fails, and so is a call.
CacheFairness ==
    /\ WF_qvars(Answer) /\ WF_qvars(Receive)
    /\ \A c \in Calls : WF_qvars(Apply(c) \/ Fail(c)) /\ WF_qvars(Succeed(c) \/ Fail(c))

CacheFairSpec == CacheSpec /\ CacheFairness

-----------------------------------------------------------------------------
(* Properties, of the pairs in which the mutation invalidates the query.   *)

Quiet == fetch.at = "idle" /\ InFlight = {}

\* Calls that the page takes for failed and that were applied.
Lost == {c \in Calls : call[c] = "failed" /\ c \in server}

\* Promised: nothing this mutation leaves out of its handlers.
Promised == way.covers /\ ~overlooked /\ (way.settled \/ Lost = {})

\* The entry shows what the API has, but for calls applied after their end.
UpToDate == entry.shows \ tardy = server \ tardy

\* When nothing is under way, an entry that counts as valid shows exactly what
\* the API has, except for writes that came after their call was given up: after
\* optimistic edits, rollbacks, cancelled and restarted fetches, lost answers and
\* two overlapping calls of the mutation.
ValidIsCurrent == Quiet /\ Promised /\ entry.known /\ ~entry.invalid => UpToDate

\* A screen that stays open over a call ends up showing what the API has, but
\* for late writes, or an error.
ScreenCatchesUp ==
    \A c \in Calls :
        c \in InFlight /\ observed /\ way.covers
            ~> \/ ~observed \/ failed \/ ~Promised \/ (~way.settled /\ call[c] = "failed")
               \/ entry.known /\ UpToDate

\* "show the previous data, update it in the background": a screen at rest
\* shows what the API has.
ScreenIsCurrent == Quiet /\ Promised /\ observed /\ entry.known /\ ~failed => UpToDate

\* A screen shows data that came from the API.
ScreenIsWhole == observed /\ entry.known => entry.whole

\* An open screen is never left without data that nothing is fetching.
NeverBlank == observed /\ ~entry.known => fetch.at # "idle" \/ failed \/ InFlight # {}

\* A mutation invalidates what it changes.
EveryWriteSeen == Quiet /\ Lost = {} /\ ~overlooked /\ entry.known /\ ~entry.invalid => UpToDate

\* "Request timed out. Please try again." (api.ts): a call that is given up has
\* written nothing the entry does not show.
GivenUpIsOver == Quiet /\ Promised /\ entry.known /\ ~entry.invalid => entry.shows = server
=============================================================================
