------------------------------ MODULE LiveSocket ------------------------------
(***************************************************************************)
(* The dashboard's WebSocket (dashboard/src/hooks/useWebSocket.ts): module *)
(* globals shared by every component, browser sockets whose close event    *)
(* comes later than close(), one reconnect timer, and the React effects    *)
(* that react to the token, the shell and the network.  The gateway        *)
(* (api/src/ws/mod.rs) registers at most Limit sockets of a customer and   *)
(* closes the ones above it after the handshake.                           *)
(*                                                                         *)
(* Access tokens are numbered in the order they are issued, 0 is none.     *)
(***************************************************************************)
EXTENDS Naturals, FiniteSets

CONSTANTS
    Sockets,        \* bound: sockets that exist at the same time
    MaxTokens,      \* bound: access tokens issued
    MaxPokes,       \* bound: online events and visits of the dashboard
    maxAttempts,    \* maxReconnectAttempts
    Limit           \* max_connections_per_customer

NoSocket == "no socket"

ASSUME LiveSocketAssumption ==
    /\ IsFiniteSet(Sockets) /\ NoSocket \notin Sockets
    /\ MaxTokens \in Nat /\ MaxPokes \in Nat /\ maxAttempts \in Nat /\ Limit \in Nat

VARIABLES
    issued,         \* tokens issued so far
    token,          \* the token of AuthProvider
    shell,          \* DashboardShell is mounted and with it the hook
    getter,         \* what globalTokenGetter returns
    sock,           \* the browser's sockets
    globalWs, globalState, globalReconnectAttempts,
    timer,          \* globalReconnectTimer: the token it connects with, or 0
    fallbackActive,
    pokes

lvars == <<issued, token, shell, getter, sock, globalWs, globalState,
           globalReconnectAttempts, timer, fallbackActive, pokes>>
page == <<issued, token, shell, getter, pokes>>

Token == 0..MaxTokens

\* A socket is being opened, open and registered with the gateway, open but
\* refused by it, or closed by the page and waiting for its close event.
Phase == {"none", "opening", "open", "refused", "closing"}
Gone == [phase |-> "none", token |-> 0]

LiveTypeOK ==
    /\ issued \in Token
    /\ token \in Token
    /\ shell \in BOOLEAN
    /\ getter \in Token
    /\ sock \in [Sockets -> [phase : Phase, token : Token]]
    /\ globalWs \in Sockets \cup {NoSocket}
    /\ globalState \in {"connecting", "connected", "disconnected", "fallback"}
    /\ globalReconnectAttempts \in 0..(maxAttempts + Cardinality(Sockets) + 1)
    /\ timer \in Token
    /\ fallbackActive \in BOOLEAN
    /\ pokes \in 0..MaxPokes

LiveInit ==
    /\ issued = 0 /\ token = 0 /\ shell = FALSE /\ getter = 0
    /\ sock = [s \in Sockets |-> Gone]
    /\ globalWs = NoSocket
    /\ globalState = "disconnected"
    /\ globalReconnectAttempts = 0
    /\ timer = 0
    /\ fallbackActive = FALSE
    /\ pokes = 0

Delivering == {s \in Sockets : sock[s].phase \in {"open", "refused"}}
Registered == {s \in Sockets : sock[s].phase = "open"}

-----------------------------------------------------------------------------
(* The module's functions.                                                 *)

\* connectGlobal: close the current socket, whose close event comes later, and
\* open another.  live is the sockets as they are when it is called, ws what
\* globalWs is then.
connectGlobal(k, live, ws) ==
    \E s \in Sockets :
       /\ live[s] = Gone
       /\ sock' = [u \in Sockets |-> CASE u = s -> [phase |-> "opening", token |-> k]
                                       [] u = ws /\ u # s -> [live[u] EXCEPT !.phase = "closing"]
                                       [] OTHER -> live[u]]
       /\ globalWs' = s
       /\ globalState' = "connecting"

\* Mutant: the attempts are not counted.
MutscheduleReconnect(k, attempts) ==
    IF attempts >= maxAttempts
    THEN /\ globalState' = "fallback"
         /\ fallbackActive' = TRUE
         /\ timer' = 0
         /\ globalReconnectAttempts' = attempts
    ELSE /\ globalState' = "disconnected"
         /\ timer' = k
         /\ globalReconnectAttempts' = attempts
         /\ UNCHANGED fallbackActive

\* Mutant: there is no last attempt.
MutUnlimited(k, attempts) ==
    /\ globalState' = "disconnected"
    /\ timer' = k
    /\ globalReconnectAttempts' = attempts + 1
    /\ UNCHANGED fallbackActive

\* scheduleReconnect: the timer in force is cleared in both branches.
scheduleReconnect(k, attempts) ==
    IF attempts >= maxAttempts
    THEN /\ globalState' = "fallback"
         /\ fallbackActive' = TRUE
         /\ timer' = 0
         /\ globalReconnectAttempts' = attempts
    ELSE /\ globalState' = "disconnected"
         /\ timer' = k
         /\ globalReconnectAttempts' = attempts + 1
         /\ UNCHANGED fallbackActive

-----------------------------------------------------------------------------
(* What the browser does.                                                  *)

\* onopen.  The gateway admits the socket or is about to close it with 1013;
\* the page cannot tell the difference.
Opened(s) ==
    /\ sock[s].phase = "opening"
    /\ sock' = [sock EXCEPT ![s].phase = IF Cardinality(Registered) < Limit THEN "open" ELSE "refused"]
    /\ globalReconnectAttempts' = 0
    /\ fallbackActive' = FALSE
    /\ globalState' = "connected"
    /\ UNCHANGED <<page, globalWs, timer>>

\* Mutant: a socket that is no longer the global one closes unnoticed, and the
\* global one is taken for closed.
MutClosed(s) ==
    /\ sock[s].phase # "none"
    /\ sock' = [sock EXCEPT ![s] = Gone]
    /\ globalWs' = NoSocket
    /\ IF globalWs = s
       THEN scheduleReconnect(sock[s].token, globalReconnectAttempts)
       ELSE UNCHANGED <<globalState, globalReconnectAttempts, timer, fallbackActive>>
    /\ UNCHANGED page

\* onclose, of any socket the page ever opened: it failed, the network or the
\* server ended it, or close() has.  globalWs is cleared whichever socket it
\* points to.  A socket that lasted ten seconds reconnects at once when the
\* token has changed since; one that failed within three counts twice.
Closed(s) ==
    /\ sock[s].phase # "none"
    /\ LET rest == [sock EXCEPT ![s] = Gone]
           reconnect == getter # 0 /\ getter # sock[s].token
       IN \/ /\ reconnect
             /\ globalReconnectAttempts' = 0
             /\ connectGlobal(getter, rest, NoSocket)
             /\ UNCHANGED <<timer, fallbackActive>>
          \/ /\ sock' = rest
             /\ globalWs' = NoSocket
             /\ \E quick \in IF sock[s].phase = "refused" THEN {0} ELSE {0, 1} :
                   scheduleReconnect(sock[s].token, globalReconnectAttempts + quick)
    /\ UNCHANGED page

\* The reconnect timer fires.
Retry ==
    /\ timer # 0
    /\ timer' = 0
    /\ connectGlobal(timer, sock, globalWs)
    /\ UNCHANGED <<page, globalReconnectAttempts, fallbackActive>>

-----------------------------------------------------------------------------
(* The hook's effects.                                                     *)

\* The page as it is after a step of the user or of AuthProvider.
Commit(n, k, mounted) ==
    /\ issued' = n /\ token' = k /\ shell' = mounted
    /\ getter' = IF mounted THEN k ELSE getter

\* The effect that starts the connection.
Start(k) ==
    IF k # 0 /\ (globalState = "disconnected" \/ (globalState = "fallback" /\ ~fallbackActive))
    THEN /\ globalReconnectAttempts' = 0
         /\ fallbackActive' = FALSE
         /\ connectGlobal(k, sock, globalWs)
         /\ UNCHANGED timer
    ELSE UNCHANGED <<sock, globalWs, globalState, globalReconnectAttempts, timer, fallbackActive>>

\* A new token, of a sign-in or of the proactive refresh: with the shell on the
\* page the token effect reconnects when there is a socket, otherwise the start
\* effect may.
TokenChanges ==
    /\ issued < MaxTokens
    /\ Commit(issued + 1, issued + 1, shell)
    /\ IF ~shell
       THEN UNCHANGED <<sock, globalWs, globalState, globalReconnectAttempts, timer, fallbackActive>>
       ELSE IF token # 0 /\ globalWs # NoSocket
       THEN /\ globalReconnectAttempts' = 0
            /\ connectGlobal(issued + 1, sock, globalWs)
            /\ UNCHANGED <<timer, fallbackActive>>
       ELSE Start(issued + 1)
    /\ UNCHANGED pokes

\* Signing out leaves the socket and its timer alone.
TokenGone ==
    /\ token # 0
    /\ Commit(issued, 0, shell)
    /\ UNCHANGED <<sock, globalWs, globalState, globalReconnectAttempts, timer, fallbackActive, pokes>>

\* The user comes to the dashboard: the shell is mounted and its effects run.
Visit ==
    /\ ~shell /\ pokes < MaxPokes
    /\ pokes' = pokes + 1
    /\ Commit(issued, token, TRUE)
    /\ Start(token)

\* Leaving it does not disconnect.
Leave ==
    /\ shell
    /\ Commit(issued, token, FALSE)
    /\ UNCHANGED <<sock, globalWs, globalState, globalReconnectAttempts, timer, fallbackActive, pokes>>

\* The browser is back online.
Online ==
    /\ shell /\ pokes < MaxPokes
    /\ globalState \in {"disconnected", "fallback"}
    /\ pokes' = pokes + 1
    /\ globalReconnectAttempts' = 0
    /\ fallbackActive' = FALSE
    /\ IF token # 0 THEN connectGlobal(token, sock, globalWs) ELSE UNCHANGED <<sock, globalWs, globalState>>
    /\ UNCHANGED <<issued, token, shell, getter, timer>>

-----------------------------------------------------------------------------
LiveNext ==
    \/ \E s \in Sockets : Opened(s) \/ Closed(s)
    \/ Retry
    \/ TokenChanges \/ TokenGone \/ Visit \/ Leave \/ Online

LiveSpec == LiveInit /\ [][LiveNext]_lvars

\* A socket that is opening opens or fails, one that was closed gets its close
\* event, one the gateway refused is closed, and the timer fires.
LiveFairness ==
    /\ \A s \in Sockets : WF_lvars(sock[s].phase = "opening" /\ (Opened(s) \/ Closed(s)))
    /\ \A s \in Sockets : WF_lvars(sock[s].phase \in {"closing", "refused"} /\ Closed(s))
    /\ WF_lvars(Retry)

LiveFairSpec == LiveSpec /\ LiveFairness

-----------------------------------------------------------------------------
(* Properties.                                                             *)

\* "connected" stops the polling of useRealtime, so it must not outlive the
\* socket: while the state is "connected" some socket really is open.
ConnectedIsOpen == globalState = "connected" => Delivering # {}

\* The hook never stays between two states: whatever the sockets, the tokens
\* and the user do, it is connected in the end or has fallen back to polling.
Settles ==
    globalState = "connecting" \/ timer # 0 ~> globalState \in {"connected", "fallback"}

\* "Global singleton - prevent multiple WS connections across components".
Singleton == Cardinality(Delivering) <= 1
=============================================================================
