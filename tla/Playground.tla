------------------------------ MODULE Playground ------------------------------
(***************************************************************************)
(* The public webhook catcher: the two pages that hand out a capture URL   *)
(* and poll what was sent to it (app/[locale]/playground/page.tsx and      *)
(* app/[locale]/(dashboard)/sandbox/content.tsx), the routes behind them   *)
(* (app/playground-api) and the history per token and the request counter  *)
(* they keep in Redis (lib/redis.ts).                                      *)
(*                                                                         *)
(* Redis keys have a type.  The token route SETs a string, so LPUSH and    *)
(* LRANGE on a fresh token fail with WRONGTYPE and the functions of        *)
(* lib/redis.ts fall back on GET and SET of the whole history; after a     *)
(* deletion the next LPUSH makes a list.  The same fallback serves a Redis *)
(* that fails, and behind it is a map in the memory of the server: what it *)
(* answers is the stored array itself, which a capture changes in place.   *)
(*                                                                         *)
(* The client sends a command again when its reply is lost (the retries of *)
(* @upstash/redis, left at their default), so one call of the library may  *)
(* apply it several times; a call that fails in the end may have been      *)
(* applied or not.                                                         *)
(***************************************************************************)
EXTENDS Naturals, Sequences, FiniteSets

CONSTANTS
    Tokens,         \* bound: the tokens issued
    Requests,       \* bound: the requests captured, each with its record
    Polls,          \* bound: polls of the page in flight at the same time
    MaxHistory,     \* MAX_HISTORY
    RateMax,        \* requests of one address in a window
    MaxResends,     \* how often the client sends an LPUSH or an INCR again
    MaxTime,        \* bound: the clock, shared by page and server
    Faults,         \* "error": a Redis command fails; "crash": the server dies
    MaxCalls,       \* bound, for each page: the requests that come
    MaxTroubled     \* bound, for each page: how many have come when faults end

None == "none"
Pages == {"public", "sandbox"}

ASSUME PlaygroundAssumption ==
    /\ None \notin Tokens /\ None \notin Requests /\ Tokens \cap Requests = {}
    /\ IsFiniteSet(Requests)
    /\ MaxHistory \in Nat \ {0} /\ RateMax \in Nat \ {0} /\ MaxTime \in Nat \ {0}
    /\ MaxResends \in Nat
    /\ Faults \subseteq {"error", "crash"}
    /\ MaxCalls \in [Pages -> Nat] /\ MaxTroubled \in [Pages -> Nat]

VARIABLES
    now,
    kind, data,     \* the history of a token in Redis: type of the key, value
    memory,         \* memoryStore: the array of the same key, if any
    array,          \* what is in the arrays
    rate, rate_ttl, \* rl:request:<ip>: the counter, and whether it expires
    pc,             \* pc[r]: how far the handler of r has come
    to,             \* to[r]: the token r was sent to
    stamp,          \* stamp[r]: the timestamp of its record
    long,           \* long[r]: existing.length >= MAX_HISTORY
    held,           \* held[r]: the array the fallback of r has in hand
    arr,            \* arr[r]: what was in it when its SET was sent
    resent,         \* resent[r]: how often its LPUSH was sent again
    issued,         \* tokens the route has made
    page,           \* which of the two pages is open
    state, token,   \* the page's session
    saved,          \* the token in localStorage
    offered,        \* the token in an answer on its way
    shown,          \* shown[r]: how often the record is in the page's list
    lastPoll,
    poll,           \* the polls in flight
    sending,        \* the request the page has sent and waits for
    clean, kept     \* history: captures that nothing disturbed, below

storeVars   == <<kind, data, memory, array>>
rateVars    == <<rate, rate_ttl>>
captureVars == <<pc, to, stamp, long, held, arr, resent>>
sessionVars == <<state, token, saved, offered>>
screenVars  == <<shown, lastPoll, poll, sending>>
pageVars    == <<page, sessionVars, screenVars>>
ghostVars   == <<clean, kept>>
pvars       == <<now, storeVars, rateVars, captureVars, issued, pageVars, ghostVars>>

Time == 0..MaxTime
Histories == Seq(Requests)

\* The arrays of the server, each named for what made it: a token or a capture.
Arrays == Tokens \cup Requests

Ended == {"idle", "done", "refused", "dead"}
FreePoll == [phase |-> "free", token |-> None, since |-> 0, requests |-> <<>>]

PlaygroundTypeOK ==
    /\ now \in Time
    /\ kind \in [Tokens -> {"none", "string", "list"}]
    /\ data \in [Tokens -> Histories]
    /\ memory \in [Tokens -> Arrays \cup {None}]
    /\ array \in [Arrays -> Histories]
    /\ rate \in 0..RateMax+1 /\ rate_ttl \in BOOLEAN
    /\ pc \in [Requests -> Ended \cup {"first", "admitted", "read", "fallback", "got", "trim"}]
    /\ to \in [Requests -> Tokens \cup {None}]
    /\ stamp \in [Requests -> Time]
    /\ long \in [Requests -> BOOLEAN]
    /\ held \in [Requests -> Arrays \cup {None}]
    /\ arr \in [Requests -> Histories]
    /\ resent \in [Requests -> 0..MaxResends]
    /\ issued \subseteq Tokens
    /\ page \in Pages
    /\ state \in {"idle", "generating", "ready", "error"}
    /\ token \in issued \cup {None}
    /\ (state = "ready") <=> (token # None)
    /\ saved \in {token, None}
    /\ offered \in issued \cup {None}
    /\ shown \in [Requests -> Nat]
    /\ lastPoll \in Time
    /\ poll \in [Polls -> [phase : {"free", "asked", "answered"}, token : issued \cup {None},
                           since : Time, requests : Histories]]
    /\ sending \in Requests \cup {None}
    /\ clean \in [Requests -> BOOLEAN]
    /\ kept \subseteq Requests

PlaygroundInit ==
    /\ now = 1
    /\ kind = [t \in Tokens |-> "none"]
    /\ data = [t \in Tokens |-> <<>>]
    /\ memory = [t \in Tokens |-> None]
    /\ array = [o \in Arrays |-> <<>>]
    /\ rate = 0 /\ rate_ttl = FALSE
    /\ pc = [r \in Requests |-> "idle"]
    /\ to = [r \in Requests |-> None]
    /\ stamp = [r \in Requests |-> 0]
    /\ long = [r \in Requests |-> FALSE]
    /\ held = [r \in Requests |-> None]
    /\ arr = [r \in Requests |-> <<>>]
    /\ resent = [r \in Requests |-> 0]
    /\ issued = {}
    /\ page \in Pages
    /\ state = "idle" /\ token = None /\ saved = None /\ offered = None
    /\ shown = [r \in Requests |-> 0]
    /\ lastPoll = 0
    /\ poll = [p \in Polls |-> FreePoll]
    /\ sending = None
    /\ clean = [r \in Requests |-> FALSE]
    /\ kept = {}

\* The clock of the public page; nothing the sandbox does depends on one.
Tick ==
    /\ page = "public" /\ now < MaxTime
    /\ now' = now + 1
    /\ UNCHANGED <<storeVars, rateVars, captureVars, issued, pageVars, ghostVars>>

-----------------------------------------------------------------------------
(* History variables.  A capture is clean while no other one of its token, *)
(* no deletion and no Redis error has come in between; it is in kept once  *)
(* it is done, until one of the last two.                                  *)

Running(t) == {q \in Requests : to[q] = t /\ pc[q] \notin Ended}

Overlap(r, t) ==
    /\ clean' = [q \in Requests |-> IF q = r THEN Running(t) = {}
                                    ELSE clean[q] /\ q \notin Running(t)]
    /\ UNCHANGED kept

Disturb(t) ==
    /\ clean' = [q \in Requests |-> clean[q] /\ q \notin Running(t)]
    /\ kept' = {q \in kept : to[q] # t}

Completed(r) ==
    /\ kept' = IF clean[r] THEN kept \cup {r} ELSE kept
    /\ clean' = [clean EXCEPT ![r] = FALSE]

-----------------------------------------------------------------------------
(* lib/redis.ts, each call of the library one step.                        *)

Come == Cardinality({r \in Requests : pc[r] # "idle"})
Trouble(fault) == fault \in Faults /\ Come <= MaxTroubled[page]

Fails == Trouble("error")

\* Mutant: the history is cut one record short.
MutNewest(s) == SubSeq(s, 1, IF Len(s) < MaxHistory THEN Len(s) ELSE MaxHistory - 1)

Newest(s) == SubSeq(s, 1, IF Len(s) < MaxHistory THEN Len(s) ELSE MaxHistory)

SetKey(t, k, v) == kind' = [kind EXCEPT ![t] = k] /\ data' = [data EXCEPT ![t] = v]

\* The entry of memoryStore.
Remembered(t) == IF memory[t] = None THEN <<>> ELSE array[memory[t]]

\* An array that nothing refers to any more is gone.
Collect(contents) ==
    array' = [o \in Arrays |->
                IF (\E t \in Tokens : memory'[t] = o) \/ (\E r \in Requests : held'[r] = o)
                THEN contents[o] ELSE <<>>]

\* playgroundLrange: LRANGE; when it fails, playgroundGet, and GET of a list is
\* an error too.
Ranged(t) ==
    {Newest(s) : s \in {data[t]} \cup (IF Fails THEN {Remembered(t)} ELSE {})}

\* playgroundSet: SET; when it fails, applied or not, the array itself is kept.
Set(t, v) == SetKey(t, "string", v) /\ UNCHANGED memory
SetFails(t, v, o) ==
    /\ Fails
    /\ SetKey(t, "string", v) \/ UNCHANGED <<kind, data>>
    /\ memory' = [memory EXCEPT ![t] = o]

-----------------------------------------------------------------------------
(* Tokens: generateToken of the pages and POST /playground-api/token.  Its *)
(* own counter (10 an hour) is left open: the route may refuse.            *)

GenerateToken ==
    /\ state \in {"idle", "error"}
    /\ state' = "generating"
    /\ UNCHANGED <<now, storeVars, rateVars, captureVars, issued, page, token, saved, offered,
                   screenVars, ghostVars>>

IssueToken(t) ==
    /\ state = "generating" /\ offered = None /\ t \notin issued
    /\ Set(t, <<>>) \/ SetFails(t, <<>>, t)
    /\ issued' = issued \cup {t}
    /\ offered' = t
    /\ UNCHANGED <<now, array, rateVars, captureVars, page, state, token, saved, screenVars, ghostVars>>

TokenArrives ==
    /\ offered # None
    /\ token' = offered /\ state' = "ready" /\ offered' = None
    /\ saved' = IF page = "sandbox" THEN offered ELSE None
    /\ UNCHANGED <<now, storeVars, rateVars, captureVars, issued, page, screenVars, ghostVars>>

\* Refused, a network error, or no answer in 15 seconds.
TokenFails ==
    /\ state = "generating"
    /\ state' = "error" /\ offered' = None
    /\ UNCHANGED <<now, storeVars, rateVars, captureVars, issued, page, token, saved,
                   screenVars, ghostVars>>

\* Mutant: the token is not cleared.
MutNewSession ==
    /\ state = "ready"
    /\ state' = "idle" /\ saved' = None /\ UNCHANGED token
    /\ shown' = [r \in Requests |-> 0] /\ lastPoll' = 0
    /\ UNCHANGED <<now, storeVars, rateVars, captureVars, issued, page, offered, poll, sending,
                   ghostVars>>

\* handleNewSession; polls and a request in flight go on.
NewSession ==
    /\ state = "ready"
    /\ state' = "idle" /\ token' = None /\ saved' = None
    /\ shown' = [r \in Requests |-> 0] /\ lastPoll' = 0
    /\ UNCHANGED <<now, storeVars, rateVars, captureVars, issued, page, offered, poll, sending,
                   ghostVars>>

\* The page is loaded again; the sandbox restores its token.
Reload ==
    /\ token' = saved /\ UNCHANGED saved
    /\ state' = IF saved = None THEN "idle" ELSE "ready"
    /\ offered' = None
    /\ shown' = [r \in Requests |-> 0] /\ lastPoll' = 0
    /\ poll' = [p \in Polls |-> FreePoll] /\ sending' = None
    /\ UNCHANGED <<now, storeVars, rateVars, captureVars, issued, page, ghostVars>>

-----------------------------------------------------------------------------
(* Capturing: handleRequest of /playground-api/in/[id].                    *)

At(r, from, dest) == pc[r] = from /\ pc' = [pc EXCEPT ![r] = dest]

\* The counter after n more; over the limit they are all the same.
Raised(n) == IF rate + n <= RateMax THEN rate + n ELSE RateMax + 1

\* checkRateLimit: INCR, and TTL unless the counter is new.  An INCR whose reply
\* is lost counts again; an error in the end lets the request pass.
Counted(r) ==
    \/ \E n \in IF Fails THEN 1..MaxResends+1 ELSE {1} :
          /\ rate' = Raised(n)
          /\ pc' = [pc EXCEPT ![r] = IF rate' = 1 THEN "first"
                                     ELSE IF rate' <= RateMax THEN "admitted" ELSE "refused"]
    \/ /\ Fails
       /\ \E n \in 0..MaxResends+1 : rate' = Raised(n)
       /\ pc' = [pc EXCEPT ![r] = "admitted"]

Call(r, t) ==
    /\ pc[r] = "idle" /\ t \in issued /\ Come < MaxCalls[page]
    /\ Counted(r)
    /\ to' = [to EXCEPT ![r] = t]
    /\ Overlap(r, t)
    /\ UNCHANGED <<now, storeVars, rate_ttl, stamp, long, held, arr, resent, issued, page, sessionVars,
                   shown, lastPoll, poll>>

\* A request of anyone who has the URL, or handleSend of the page.
Receive(r, t) == Call(r, t) /\ UNCHANGED sending
Send(r) == /\ state = "ready" /\ sending = None
           /\ Call(r, token) /\ sending' = r

\* EXPIRE of a new counter.
SetWindow(r) ==
    /\ At(r, "first", "admitted")
    /\ rate_ttl' \in IF Fails THEN {TRUE, rate_ttl} ELSE {TRUE}
    /\ UNCHANGED <<now, storeVars, rate, to, stamp, long, held, arr, resent, issued, pageVars,
                   ghostVars>>

\* The record is built and the length of the history read.
BuildRecord(r) ==
    /\ At(r, "admitted", "read")
    /\ stamp' = [stamp EXCEPT ![r] = now]
    /\ \E s \in Ranged(to[r]) : long' = [long EXCEPT ![r] = Len(s) >= MaxHistory]
    /\ UNCHANGED <<now, storeVars, rateVars, to, held, arr, resent, issued, pageVars, ghostVars>>

After(r) == IF long[r] THEN "trim" ELSE "done"

Push(r) == kind[to[r]] # "string" /\ SetKey(to[r], "list", <<r>> \o data[to[r]])

\* LPUSH and EXPIRE, on a list or a new key.
PushList(r) ==
    /\ At(r, "read", After(r))
    /\ Push(r)
    /\ IF long[r] THEN UNCHANGED ghostVars ELSE Completed(r)
    /\ UNCHANGED <<now, memory, array, rateVars, to, stamp, long, held, arr, resent, issued,
                   pageVars>>

\* The reply of an LPUSH is lost and the client sends it again.
PushAgain(r) ==
    /\ pc[r] = "read" /\ Fails /\ resent[r] < MaxResends
    /\ Push(r)
    /\ resent' = [resent EXCEPT ![r] = @ + 1]
    /\ Disturb(to[r])
    /\ UNCHANGED <<now, memory, array, rateVars, pc, to, stamp, long, held, arr, issued, pageVars>>

\* LPUSH on a string.
PushString(r) ==
    /\ At(r, "read", "fallback")
    /\ kind[to[r]] = "string"
    /\ UNCHANGED <<now, storeVars, rateVars, to, stamp, long, held, arr, resent, issued, pageVars,
                   ghostVars>>

\* LPUSH fails, applied or not, or EXPIRE does.
PushFails(r) ==
    /\ At(r, "read", "fallback")
    /\ Fails
    /\ Push(r) \/ UNCHANGED <<kind, data>>
    /\ Disturb(to[r])
    /\ UNCHANGED <<now, memory, array, rateVars, to, stamp, long, held, arr, resent, issued,
                   pageVars>>

\* The record is put in front of array o, which holds s, and the last one dropped.
Unshift(r, o, s) ==
    LET v == Newest(<<r>> \o s) IN
    /\ array' = [array EXCEPT ![o] = v]
    /\ arr' = [arr EXCEPT ![r] = v]
    /\ held' = [held EXCEPT ![r] = o]

\* The fallback reads the history, a new array, or finds that of the memory
\* (GET of a list is an error too), and changes it at once ...
ReadHistory(r) ==
    LET t == to[r] IN
    /\ At(r, "fallback", "got")
    /\ \/ kind[t] # "list" /\ Unshift(r, r, data[t]) /\ UNCHANGED ghostVars
       \/ /\ \/ kind[t] = "list" /\ UNCHANGED ghostVars
             \/ Fails /\ Disturb(t)
          /\ Unshift(r, IF memory[t] = None THEN r ELSE memory[t], Remembered(t))
    /\ UNCHANGED <<now, kind, data, memory, rateVars, to, stamp, long, resent, issued, pageVars>>

\* ... and writes it back.
WriteHistory(r) ==
    LET t == to[r] IN
    /\ At(r, "got", After(r))
    /\ \/ Set(t, arr[r]) /\ IF long[r] THEN UNCHANGED ghostVars ELSE Completed(r)
       \/ SetFails(t, arr[r], held[r]) /\ Disturb(t)
    /\ arr' = [arr EXCEPT ![r] = <<>>] /\ held' = [held EXCEPT ![r] = None]
    /\ Collect(array)
    /\ UNCHANGED <<now, rateVars, to, stamp, long, resent, issued, pageVars>>

\* The reply of a SET is lost and the client sends it again.
WriteAgain(r) ==
    /\ pc[r] = "got" /\ Fails
    /\ Set(to[r], arr[r])
    /\ Disturb(to[r])
    /\ UNCHANGED <<now, array, rateVars, captureVars, issued, pageVars>>

\* LTRIM, an error on a string; every error is ignored.  One that is sent again
\* has cut before what no reader sees and the last one cuts.
Trim(r) ==
    LET t == to[r] IN
    /\ At(r, "trim", "done")
    /\ \/ kind[t] = "list" /\ data' = [data EXCEPT ![t] = Newest(@)]
       \/ (kind[t] # "list" \/ Fails) /\ UNCHANGED data
    /\ Completed(r)
    /\ long' = [long EXCEPT ![r] = FALSE]
    /\ UNCHANGED <<now, kind, memory, array, rateVars, to, stamp, held, arr, resent, issued,
                   pageVars>>

\* A handler is cut off at the time limit of the platform.
Crash(r) ==
    /\ Trouble("crash")
    /\ pc[r] \notin Ended
    /\ pc' = [pc EXCEPT ![r] = "dead"]
    /\ long' = [long EXCEPT ![r] = FALSE]
    /\ arr' = [arr EXCEPT ![r] = <<>>] /\ held' = [held EXCEPT ![r] = None]
    /\ clean' = [clean EXCEPT ![r] = FALSE]
    /\ UNCHANGED memory /\ Collect(array)
    /\ UNCHANGED <<now, kind, data, rateVars, to, stamp, resent, issued, pageVars, kept>>

\* The process of the server ends, with every handler and its memory.
Restart ==
    /\ Trouble("crash")
    /\ memory' = [t \in Tokens |-> None] /\ array' = [o \in Arrays |-> <<>>]
    /\ pc' = [r \in Requests |-> IF pc[r] \in Ended THEN pc[r] ELSE "dead"]
    /\ long' = [r \in Requests |-> FALSE]
    /\ arr' = [r \in Requests |-> <<>>] /\ held' = [r \in Requests |-> None]
    /\ clean' = [r \in Requests |-> FALSE]
    /\ UNCHANGED <<now, kind, data, rateVars, to, stamp, resent, issued, pageVars, kept>>

-----------------------------------------------------------------------------
(* DELETE /playground-api/history/[id], and what expires.                  *)

Delete(t) ==
    /\ t \in issued
    /\ \/ SetKey(t, "none", <<>>) /\ UNCHANGED <<memory, array>>
       \/ /\ Fails
          /\ SetKey(t, "none", <<>>) \/ UNCHANGED <<kind, data>>
          /\ memory' = [memory EXCEPT ![t] = None]
          /\ held' = held /\ Collect(array)
    /\ Disturb(t)
    /\ UNCHANGED <<now, rateVars, captureVars, issued, pageVars>>

\* 24 hours without a capture, in Redis or in the memory.
Expires(t) ==
    /\ \/ kind[t] # "none" /\ SetKey(t, "none", <<>>) /\ UNCHANGED <<memory, array>>
       \/ /\ memory[t] # None /\ memory' = [memory EXCEPT ![t] = None]
          /\ held' = held /\ Collect(array)
          /\ UNCHANGED <<kind, data>>
    /\ Disturb(t)
    /\ UNCHANGED <<now, rateVars, captureVars, issued, pageVars>>

WindowOver ==
    /\ rate_ttl
    /\ rate' = 0 /\ rate_ttl' = FALSE
    /\ UNCHANGED <<now, storeVars, captureVars, issued, pageVars, ghostVars>>

-----------------------------------------------------------------------------
(* The screen: pollHistory every two seconds, and handleSend.              *)

Poll(p) ==
    /\ state = "ready" /\ poll[p].phase = "free"
    /\ poll' = [poll EXCEPT ![p] = [phase |-> "asked", token |-> token, since |-> lastPoll,
                                    requests |-> <<>>]]
    /\ UNCHANGED <<now, storeVars, rateVars, captureVars, issued, page, sessionVars,
                   shown, lastPoll, sending, ghostVars>>

\* GET /playground-api/history/[id]; since is applied to what it reads.  The
\* sandbox finds nothing in the answer: it reads data.data, the route answers
\* requests.
AnswerPoll(p) ==
    /\ poll[p].phase = "asked"
    /\ \E s \in Ranged(poll[p].token) :
          poll' = [poll EXCEPT ![p] = [phase |-> "answered", token |-> @.token, since |-> @.since,
                                       requests |-> IF page = "public" THEN s ELSE <<>>]]
    /\ UNCHANGED <<now, storeVars, rateVars, captureVars, issued, page, sessionVars,
                   shown, lastPoll, sending, ghostVars>>

\* How often r is in a history.
Times(s, r) == Cardinality({i \in 1..Len(s) : s[i] = r})

\* How often r is in the answer of poll p: recMs > sinceMs.
Copies(p, r) ==
    IF poll[p].since > 0 /\ stamp[r] <= poll[p].since THEN 0 ELSE Times(poll[p].requests, r)

\* Mutant: what is in the list already comes again.
MutMerged(copies) == [r \in Requests |-> shown[r] + copies[r]]

\* setHistory in front of the records that are there already.
Merged(copies) == [r \in Requests |-> IF shown[r] > 0 THEN shown[r] ELSE copies[r]]

\* Public page: new records in front, and the clock when the answer arrives.
PollArrives(p) ==
    LET copies == [r \in Requests |-> Copies(p, r)] IN
    /\ page = "public" /\ poll[p].phase = "answered"
    /\ poll' = [poll EXCEPT ![p] = FreePoll]
    /\ shown' = Merged(copies)
    /\ lastPoll' = IF \E r \in Requests : copies[r] > 0 THEN now ELSE lastPoll
    /\ UNCHANGED <<now, storeVars, rateVars, captureVars, issued, page, sessionVars,
                   sending, ghostVars>>

\* No answer, or the TypeError of the sandbox, which is caught.
PollFails(p) ==
    /\ poll[p].phase # "free"
    /\ poll' = [poll EXCEPT ![p] = FreePoll]
    /\ UNCHANGED <<now, storeVars, rateVars, captureVars, issued, page, sessionVars,
                   shown, lastPoll, sending, ghostVars>>

\* The answer of handleSend has the record; the sandbox ignores it.
SendAnswered ==
    /\ sending # None
    /\ pc[sending] = "done"
    /\ sending' = None
    /\ shown' = IF page = "public" THEN Merged([r \in Requests |-> IF r = sending THEN 1 ELSE 0])
                ELSE shown
    /\ UNCHANGED <<now, storeVars, rateVars, captureVars, issued, page, sessionVars,
                   lastPoll, poll, ghostVars>>

SendFails ==
    /\ sending # None
    /\ sending' = None
    /\ UNCHANGED <<now, storeVars, rateVars, captureVars, issued, page, sessionVars,
                   shown, lastPoll, poll, ghostVars>>

\* "Clear all" of the public page.  That of the sandbox is drawn only with
\* records in its list, which it never has.
ClearAll ==
    /\ page = "public"
    /\ \E r \in Requests : shown[r] > 0
    /\ shown' = [r \in Requests |-> 0] /\ lastPoll' = 0
    /\ UNCHANGED <<now, storeVars, rateVars, captureVars, issued, page, sessionVars,
                   poll, sending, ghostVars>>

-----------------------------------------------------------------------------
CaptureStep(r) ==
    \/ \E t \in Tokens : Receive(r, t)
    \/ Send(r) \/ SetWindow(r) \/ BuildRecord(r)
    \/ PushList(r) \/ PushAgain(r) \/ PushString(r) \/ PushFails(r)
    \/ ReadHistory(r) \/ WriteHistory(r) \/ WriteAgain(r)
    \/ Trim(r) \/ Crash(r)

PageStep ==
    \/ GenerateToken \/ TokenArrives \/ TokenFails \/ NewSession \/ Reload
    \/ \E p \in Polls : Poll(p) \/ AnswerPoll(p) \/ PollArrives(p) \/ PollFails(p)
    \/ SendAnswered \/ SendFails \/ ClearAll

PlaygroundNext ==
    \/ Tick \/ WindowOver \/ PageStep \/ Restart
    \/ \E t \in Tokens : IssueToken(t) \/ Delete(t) \/ Expires(t)
    \/ \E r \in Requests : CaptureStep(r)

PlaygroundSpec == PlaygroundInit /\ [][PlaygroundNext]_pvars

-----------------------------------------------------------------------------
(* Properties.                                                             *)

Has(s, r) == \E i \in 1..Len(s) : s[i] = r

\* Only the client's own re-sending makes copies: a record is in a list of Redis
\* at most as often as its LPUSH was sent, and once where the whole history is
\* written, in a string and in the memory of the server, although the fallback
\* writes what LPUSH may have stored and captures change the same array.  In the
\* page's list it is no more often than in one answer, although a request of the
\* page comes to it twice, with its answer and with a poll ("const newOnes =
\* data.requests.filter(r => !existing.has(r.id))").
OnlyResendsCopy ==
    \A r \in Requests :
       /\ \A t \in Tokens : Times(data[t], r) <= 1 + (IF kind[t] = "list" THEN resent[r] ELSE 0)
       /\ \A o \in Arrays : Times(array[o], r) <= 1
       /\ shown[r] <= 1 + resent[r]

\* A capture that nothing overlapped and no error met stays in the history
\* until it is deleted or pushed out by newer ones: the captures that race
\* each other afterwards overwrite each other, never it.
LoneCaptureKept ==
    \A r \in kept : Has(data[to[r]], r) \/ Len(data[to[r]]) >= MaxHistory

\* The server and the page run on, answers come or the page gives up waiting,
\* and a counter that expires does so.
PlaygroundFairness ==
    /\ WF_pvars(WindowOver) /\ WF_pvars(SendAnswered \/ SendFails)
    /\ \A p \in Polls :
          /\ WF_pvars(Poll(p))
          /\ SF_pvars(AnswerPoll(p))
          /\ SF_pvars(PollArrives(p) \/ (page = "sandbox" /\ poll[p].phase = "answered" /\ PollFails(p)))
    /\ \A r \in Requests :
          WF_pvars(SetWindow(r) \/ BuildRecord(r) \/ PushList(r) \/ PushString(r)
                   \/ ReadHistory(r) \/ WriteHistory(r) \/ Trim(r))

PlaygroundFairSpec == PlaygroundSpec /\ PlaygroundFairness

\* A record in the history of the page's token comes to its list: "Polls every
\* 2 seconds. New requests appear instantly in the list."
\* (dashboard/src/messages/en.json).
Appears(r) ==
    (state = "ready" /\ Has(data[token], r)) ~> (state # "ready" \/ ~Has(data[token], r) \/ shown[r] > 0)
SandboxShows == (page = "sandbox") => \A r \in Requests : Appears(r)
PublicShows  == (page = "public")  => \A r \in Requests : Appears(r)

\* The list holds only what was sent to the page's own URL, "Get a unique URL
\* that captures any HTTP request" (dashboard/src/messages/en.json).
ScreenIsOwn == \A r \in Requests : shown[r] > 0 => to[r] = token

\* A capture stays in the history until that is full, deleted or expired, "if it
\* sends HTTP requests, this captures it" (dashboard/src/messages/en.json).
NoneOverwritten ==
    [][\A r \in Requests :
          pc[r] = "done" /\ Has(data[to[r]], r) /\ Len(data'[to[r]]) < MaxHistory
            => Has(data'[to[r]], r) \/ kind'[to[r]] = "none"]_pvars

\* The page lists a request once: "if (existing.has(data.request.id)) return
\* prev;" (dashboard/src/app/[locale]/playground/page.tsx).
ListedOnce == \A r \in Requests : shown[r] <= 1

\* A full counter is reset some time: the window of checkRateLimit is a minute.
WindowEnds == (rate > RateMax) ~> (rate = 0)
=============================================================================
