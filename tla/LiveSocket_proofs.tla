--------------------------- MODULE LiveSocket_proofs ---------------------------
(***************************************************************************)
(* Proofs about LiveSocket, for any number of sockets, tokens and          *)
(* attempts: the counter of attempts is bounded although stale sockets     *)
(* count too, and the page never believes in a connection nobody has.      *)
(***************************************************************************)
EXTENDS LiveSocket, FiniteSetTheorems, TLAPS

GoneSockets == {s \in Sockets : sock[s] = Gone}

\* While a retry is pending the attempts are within the limit; beyond it each
\* close event of a socket left over counts one, and no socket is opened
\* without a reset.
AttemptsBounded ==
    /\ globalReconnectAttempts \in Nat
    /\ timer # 0 => globalReconnectAttempts <= maxAttempts
    /\ globalReconnectAttempts <= maxAttempts + Cardinality(GoneSockets) + 1

Typed ==
    /\ issued \in Token /\ token \in Token /\ shell \in BOOLEAN /\ getter \in Token
    /\ sock \in [Sockets -> [phase : Phase, token : Token]]
    /\ globalWs \in Sockets \cup {NoSocket}
    /\ globalState \in {"connecting", "connected", "disconnected", "fallback"}
    /\ timer \in Token
    /\ fallbackActive \in BOOLEAN
    /\ pokes \in 0..MaxPokes

LiveInv == Typed /\ AttemptsBounded /\ ConnectedIsOpen

-----------------------------------------------------------------------------
\* Some of the sockets are finitely many, and no more than all.
LEMMA SocketsCounted ==
    ASSUME NEW S \in SUBSET Sockets
    PROVE  /\ Cardinality(S) \in Nat
           /\ Cardinality(Sockets) \in Nat
           /\ Cardinality(S) <= Cardinality(Sockets)
<1>1. IsFiniteSet(Sockets)
  BY LiveSocketAssumption DEF LiveSocketAssumption
<1>2. IsFiniteSet(S) /\ Cardinality(S) <= Cardinality(Sockets)
  BY <1>1, FS_Subset
<1> QED
  BY <1>1, <1>2, FS_CardinalityType

LEMMA GoneType == Gone \in [phase : Phase, token : Token]
BY LiveSocketAssumption DEF LiveSocketAssumption, Gone, Phase, Token

\* Opening a socket: the page is connecting, and types are kept.
LEMMA ConnectTyped ==
    ASSUME NEW k \in Token, NEW live \in [Sockets -> [phase : Phase, token : Token]], NEW ws,
           connectGlobal(k, live, ws)
    PROVE  /\ sock' \in [Sockets -> [phase : Phase, token : Token]]
           /\ globalWs' \in Sockets
           /\ globalState' = "connecting"
<1>1. PICK s \in Sockets :
         /\ sock' = [u \in Sockets |-> CASE u = s -> [phase |-> "opening", token |-> k]
                                         [] u = ws /\ u # s -> [live[u] EXCEPT !.phase = "closing"]
                                         [] OTHER -> live[u]]
         /\ globalWs' = s
         /\ globalState' = "connecting"
  BY DEF connectGlobal
<1>2. ASSUME NEW u \in Sockets
      PROVE  sock'[u] \in [phase : Phase, token : Token]
  <2>1. CASE u = s
    BY <1>1, <2>1 DEF Phase
  <2>2. CASE u # s /\ u = ws
    BY <1>1, <2>2 DEF Phase
  <2>3. CASE u # s /\ u # ws
    BY <1>1, <2>3
  <2> QED
    BY <2>1, <2>2, <2>3
<1> QED
  BY <1>1, <1>2

\* Scheduling a retry: the attempts stay within the limit or stop growing.
LEMMA ScheduleTyped ==
    ASSUME NEW k \in Token, NEW n \in Nat, scheduleReconnect(k, n), fallbackActive \in BOOLEAN
    PROVE  /\ globalState' \in {"disconnected", "fallback"}
           /\ timer' \in Token
           /\ fallbackActive' \in BOOLEAN
           /\ globalReconnectAttempts' \in Nat
           /\ timer' # 0 => globalReconnectAttempts' <= maxAttempts
           /\ globalReconnectAttempts' <= maxAttempts \/ globalReconnectAttempts' = n
<1> USE LiveSocketAssumption DEF LiveSocketAssumption, Token
<1>1. CASE n >= maxAttempts
  BY <1>1 DEF scheduleReconnect
<1>2. CASE ~(n >= maxAttempts)
  BY <1>2 DEF scheduleReconnect
<1> QED
  BY <1>1, <1>2

\* A socket that goes adds one to those that are gone.
LEMMA OneMoreGone ==
    ASSUME NEW s \in Sockets, sock \in [Sockets -> [phase : Phase, token : Token]],
           sock[s].phase # "none", sock' = [sock EXCEPT ![s] = Gone]
    PROVE  Cardinality(GoneSockets') = Cardinality(GoneSockets) + 1
<1>1. s \notin GoneSockets /\ GoneSockets' = GoneSockets \cup {s}
  BY DEF GoneSockets, Gone
<1>2. IsFiniteSet(GoneSockets)
  BY FS_Subset, LiveSocketAssumption DEF LiveSocketAssumption, GoneSockets
<1> QED
  BY <1>1, <1>2, FS_AddElement

\* Few attempts are within every bound.
LEMMA FewAttempts ==
    ASSUME globalReconnectAttempts \in Nat, globalReconnectAttempts <= maxAttempts
    PROVE  AttemptsBounded
<1>1. Cardinality(GoneSockets) \in Nat
  BY SocketsCounted DEF GoneSockets
<1> QED
  BY <1>1, LiveSocketAssumption DEF LiveSocketAssumption, AttemptsBounded

-----------------------------------------------------------------------------
(* The steps.                                                              *)

\* A step that connects leaves few attempts and no connection to believe in.
LEMMA Connects ==
    ASSUME NEW k \in Token, NEW live \in [Sockets -> [phase : Phase, token : Token]], NEW ws,
           connectGlobal(k, live, ws),
           globalReconnectAttempts' \in Nat, globalReconnectAttempts' <= maxAttempts,
           Typed,
           issued' \in Token, token' \in Token, shell' \in BOOLEAN, getter' \in Token,
           timer' \in Token, fallbackActive' \in BOOLEAN, pokes' \in 0..MaxPokes
    PROVE  LiveInv'
<1>1. /\ sock' \in [Sockets -> [phase : Phase, token : Token]]
      /\ globalWs' \in Sockets
      /\ globalState' = "connecting"
  BY ConnectTyped
<1>2. Typed'
  BY <1>1 DEF Typed, Token
<1>3. AttemptsBounded'
  <2>1. Cardinality(GoneSockets') \in Nat
    BY SocketsCounted DEF GoneSockets
  <2> QED
    BY <2>1, LiveSocketAssumption DEF LiveSocketAssumption, AttemptsBounded
<1>4. ConnectedIsOpen'
  BY <1>1 DEF ConnectedIsOpen
<1> QED
  BY <1>2, <1>3, <1>4 DEF LiveInv

\* A step that leaves the connection alone.
LEMMA Leaves ==
    ASSUME LiveInv,
           UNCHANGED <<sock, globalWs, globalState, globalReconnectAttempts, timer, fallbackActive>>,
           issued' \in Token, token' \in Token, shell' \in BOOLEAN, getter' \in Token, pokes' \in 0..MaxPokes
    PROVE  LiveInv'
<1>1. Typed'
  BY DEF LiveInv, Typed
<1>2. AttemptsBounded' /\ ConnectedIsOpen'
  BY DEF LiveInv, AttemptsBounded, GoneSockets, ConnectedIsOpen, Delivering
<1> QED
  BY <1>1, <1>2 DEF LiveInv

LEMMA LiveStart == LiveInit => LiveInv
<1> SUFFICES ASSUME LiveInit PROVE LiveInv
  OBVIOUS
<1> USE LiveSocketAssumption DEF LiveSocketAssumption, LiveInit
<1>1. Typed
  <2>1. sock \in [Sockets -> [phase : Phase, token : Token]]
    BY GoneType
  <2>2. shell \in BOOLEAN /\ fallbackActive \in BOOLEAN
    BY Zenon
  <2>3. 0 \in Token /\ pokes \in 0..MaxPokes
    BY DEF Token
  <2> QED
    BY <2>1, <2>2, <2>3 DEF Typed
<1>2. AttemptsBounded
  BY FewAttempts
<1>3. ConnectedIsOpen
  BY DEF ConnectedIsOpen
<1> QED
  BY <1>1, <1>2, <1>3 DEF LiveInv
\* The user's and AuthProvider's steps on the page.
LEMMA CommitTyped ==
    ASSUME Typed, NEW n \in Token, NEW k \in Token, NEW mounted \in BOOLEAN, Commit(n, k, mounted)
    PROVE  issued' \in Token /\ token' \in Token /\ shell' \in BOOLEAN /\ getter' \in Token
BY DEF Typed, Commit

LEMMA StartSafe ==
    ASSUME LiveInv, NEW k \in Token, Start(k),
           issued' \in Token, token' \in Token, shell' \in BOOLEAN, getter' \in Token, pokes' \in 0..MaxPokes
    PROVE  LiveInv'
<1> USE DEF LiveInv
<1>1. CASE k # 0 /\ (globalState = "disconnected" \/ (globalState = "fallback" /\ ~fallbackActive))
  <2>1. connectGlobal(k, sock, globalWs) /\ globalReconnectAttempts' = 0 /\ fallbackActive' = FALSE /\ timer' = timer
    BY <1>1 DEF Start
  <2>2. fallbackActive' \in BOOLEAN
    BY <2>1, Zenon
  <2>3. globalReconnectAttempts' \in Nat /\ globalReconnectAttempts' <= maxAttempts
    BY <2>1, LiveSocketAssumption DEF LiveSocketAssumption
  <2> QED
    BY <2>1, <2>2, <2>3, Connects DEF Typed
<1>2. CASE ~(k # 0 /\ (globalState = "disconnected" \/ (globalState = "fallback" /\ ~fallbackActive)))
  <2>1. UNCHANGED <<sock, globalWs, globalState, globalReconnectAttempts, timer, fallbackActive>>
    BY <1>2 DEF Start
  <2> QED
    BY <2>1, Leaves
<1> QED
  BY <1>1, <1>2

LEMMA OpenedSafe ==
    ASSUME LiveInv, NEW s \in Sockets, Opened(s)
    PROVE  LiveInv'
<1> USE LiveSocketAssumption DEF LiveSocketAssumption, LiveInv
<1>1. PICK p \in {"open", "refused"} : sock' = [sock EXCEPT ![s].phase = p]
  BY DEF Opened
<1>2. Typed'
  <2>1. sock' \in [Sockets -> [phase : Phase, token : Token]]
    BY <1>1 DEF Typed, Phase
  <2> QED
    BY <2>1 DEF Opened, Typed, page
<1>3. AttemptsBounded'
  <2>1. Cardinality(GoneSockets') \in Nat
    BY SocketsCounted DEF GoneSockets
  <2>2. globalReconnectAttempts' = 0
    BY DEF Opened
  <2> QED
    BY <2>1, <2>2 DEF AttemptsBounded
<1>4. s \in Delivering'
  BY <1>1 DEF Typed, Delivering
<1> QED
  BY <1>2, <1>3, <1>4 DEF ConnectedIsOpen

LEMMA ClosedSafe ==
    ASSUME LiveInv, NEW s \in Sockets, Closed(s)
    PROVE  LiveInv'
<1> USE LiveSocketAssumption DEF LiveSocketAssumption, LiveInv
<1> DEFINE rest == [sock EXCEPT ![s] = Gone]
<1>1. rest \in [Sockets -> [phase : Phase, token : Token]]
  BY GoneType DEF Typed
<1>2. UNCHANGED page /\ sock[s].phase # "none"
  BY DEF Closed
<1>3. CASE getter # 0 /\ globalReconnectAttempts' = 0 /\ connectGlobal(getter, rest, NoSocket)
           /\ UNCHANGED <<timer, fallbackActive>>
  <2> HIDE DEF rest
  <2> QED
    BY <1>1, <1>2, <1>3, Connects DEF Typed, page
<1>4. ASSUME NEW quick \in {0, 1}, sock' = rest, globalWs' = NoSocket,
             scheduleReconnect(sock[s].token, globalReconnectAttempts + quick)
      PROVE  LiveInv'
  <2>1. sock[s].token \in Token /\ globalReconnectAttempts + quick \in Nat /\ fallbackActive \in BOOLEAN
    BY DEF Typed, AttemptsBounded
  <2>2. /\ globalState' \in {"disconnected", "fallback"}
        /\ timer' \in Token
        /\ fallbackActive' \in BOOLEAN
        /\ globalReconnectAttempts' \in Nat
        /\ timer' # 0 => globalReconnectAttempts' <= maxAttempts
        /\ \/ globalReconnectAttempts' <= maxAttempts
           \/ globalReconnectAttempts' = globalReconnectAttempts + quick
    BY <2>1, <1>4, ScheduleTyped
  <2>3. Typed'
    BY <1>1, <1>2, <1>4, <2>2 DEF Typed, page
  <2>4. AttemptsBounded'
    <3>1. Cardinality(GoneSockets') = Cardinality(GoneSockets) + 1
      BY <1>2, <1>4, OneMoreGone DEF Typed
    <3>2. Cardinality(GoneSockets) \in Nat
      BY SocketsCounted DEF GoneSockets
    <3>3. Cardinality(GoneSockets)' = Cardinality(GoneSockets')
      OBVIOUS
    <3> QED
      BY <3>1, <3>2, <3>3, <2>2 DEF AttemptsBounded
  <2> QED
    BY <2>2, <2>3, <2>4 DEF ConnectedIsOpen
<1> QED
  BY <1>3, <1>4 DEF Closed

LEMMA RetrySafe ==
    ASSUME LiveInv, Retry
    PROVE  LiveInv'
<1> USE LiveSocketAssumption DEF LiveSocketAssumption, LiveInv
<1>1. /\ timer # 0 /\ timer' = 0 /\ connectGlobal(timer, sock, globalWs)
      /\ UNCHANGED page /\ UNCHANGED <<globalReconnectAttempts, fallbackActive>>
  BY DEF Retry
<1>2. timer' \in Token
  BY <1>1 DEF Token
<1>3. globalReconnectAttempts' \in Nat /\ globalReconnectAttempts' <= maxAttempts
  BY <1>1 DEF AttemptsBounded
<1> QED
  BY <1>1, <1>2, <1>3, Connects DEF Typed, page

LEMMA TokenChangesSafe ==
    ASSUME LiveInv, TokenChanges
    PROVE  LiveInv'
<1> USE LiveSocketAssumption DEF LiveSocketAssumption, LiveInv
<1>1. issued + 1 \in Token /\ pokes' \in 0..MaxPokes
  BY DEF TokenChanges, Typed, Token
<1>2. issued' \in Token /\ token' \in Token /\ shell' \in BOOLEAN /\ getter' \in Token
  BY <1>1, CommitTyped DEF TokenChanges, Typed
<1>3. CASE ~shell
  BY <1>1, <1>2, <1>3, Leaves DEF TokenChanges
<1>4. CASE shell /\ token # 0 /\ globalWs # NoSocket
  <2>1. /\ globalReconnectAttempts' = 0 /\ connectGlobal(issued + 1, sock, globalWs)
        /\ UNCHANGED <<timer, fallbackActive>>
    BY <1>4 DEF TokenChanges
  <2> QED
    BY <1>1, <1>2, <2>1, Connects DEF Typed
<1>5. CASE shell /\ ~(token # 0 /\ globalWs # NoSocket)
  BY <1>1, <1>2, <1>5, StartSafe DEF TokenChanges
<1> QED
  BY <1>3, <1>4, <1>5

LEMMA PageSafe ==
    ASSUME LiveInv, TokenGone \/ Visit \/ Leave \/ Online
    PROVE  LiveInv'
<1> USE LiveSocketAssumption DEF LiveSocketAssumption, LiveInv
<1>1. 0 \in Token
  BY DEF Token
<1>2. CASE TokenGone
  <2>1. issued' \in Token /\ token' \in Token /\ shell' \in BOOLEAN /\ getter' \in Token
    BY <1>1, <1>2, CommitTyped DEF TokenGone, Typed
  <2> QED
    BY <1>2, <2>1, Leaves DEF TokenGone, Typed
<1>3. CASE Visit
  <2>1. issued' \in Token /\ token' \in Token /\ shell' \in BOOLEAN /\ getter' \in Token
    BY <1>3, CommitTyped DEF Visit, Typed
  <2>2. pokes' \in 0..MaxPokes /\ token \in Token /\ Start(token)
    BY <1>3 DEF Visit, Typed
  <2> QED
    BY <2>1, <2>2, StartSafe
<1>4. CASE Leave
  <2>1. issued' \in Token /\ token' \in Token /\ shell' \in BOOLEAN /\ getter' \in Token
    BY <1>4, CommitTyped DEF Leave, Typed
  <2> QED
    BY <1>4, <2>1, Leaves DEF Leave, Typed
<1>5. CASE Online
  <2>1. /\ UNCHANGED <<issued, token, shell, getter, timer>>
        /\ globalReconnectAttempts' = 0 /\ fallbackActive' = FALSE /\ pokes' \in 0..MaxPokes
        /\ globalState \in {"disconnected", "fallback"}
    BY <1>5 DEF Online, Typed
  <2>2. CASE token # 0
    <3>1. connectGlobal(token, sock, globalWs)
      BY <1>5, <2>2 DEF Online
    <3>2. fallbackActive' \in BOOLEAN
      BY <2>1, Zenon
    <3>3. globalReconnectAttempts' \in Nat /\ globalReconnectAttempts' <= maxAttempts
      BY <2>1
    <3> QED
      BY <2>1, <3>1, <3>2, <3>3, Connects DEF Typed
  <2>3. CASE token = 0
    <3>1. UNCHANGED <<sock, globalWs, globalState>>
      BY <1>5, <2>3 DEF Online
    <3>2. Typed'
      BY <2>1, <3>1 DEF Typed
    <3>3. AttemptsBounded'
      <4>1. Cardinality(GoneSockets') \in Nat
        BY SocketsCounted DEF GoneSockets
      <4> QED
        BY <4>1, <2>1 DEF AttemptsBounded
    <3> QED
      BY <2>1, <3>1, <3>2, <3>3 DEF ConnectedIsOpen
  <2> QED
    BY <2>2, <2>3
<1> QED
  BY <1>2, <1>3, <1>4, <1>5

LEMMA LiveStep == LiveInv /\ [LiveNext]_lvars => LiveInv'
<1> SUFFICES ASSUME LiveInv, [LiveNext]_lvars PROVE LiveInv'
  OBVIOUS
<1>1. CASE LiveNext
  BY <1>1, OpenedSafe, ClosedSafe, RetrySafe, TokenChangesSafe, PageSafe DEF LiveNext
<1>2. CASE UNCHANGED lvars
  BY <1>2, Leaves DEF LiveInv, Typed, lvars
<1> QED
  BY <1>1, <1>2

-----------------------------------------------------------------------------
(* The theorems.                                                           *)

LEMMA LiveInvariant == LiveSpec => []LiveInv
BY LiveStart, LiveStep, PTL DEF LiveSpec

\* Whatever sockets close late and however often the token changes, the
\* attempts never exceed the limit by more than one and the sockets left over
\* (useWebSocket.ts, scheduleReconnect and onclose).
THEOREM LiveTypeCorrect == LiveSpec => []LiveTypeOK
<1>1. LiveInv => LiveTypeOK
  <2> SUFFICES ASSUME LiveInv PROVE LiveTypeOK
    OBVIOUS
  <2>1. /\ Cardinality(GoneSockets) \in Nat /\ Cardinality(Sockets) \in Nat
        /\ Cardinality(GoneSockets) <= Cardinality(Sockets)
    BY SocketsCounted DEF GoneSockets
  <2>2. globalReconnectAttempts \in 0..(maxAttempts + Cardinality(Sockets) + 1)
    BY <2>1, LiveSocketAssumption DEF LiveSocketAssumption, LiveInv, AttemptsBounded
  <2> QED
    BY <2>2 DEF LiveInv, Typed, LiveTypeOK
<1> QED
  BY <1>1, LiveInvariant, PTL

\* While the page says "connected", which stops its polling, some socket of it
\* is open: no order of close events, retries and token changes leaves the
\* state behind (useWebSocket.ts, onopen and onclose; useRealtime.ts).
THEOREM ConnectedIsOpenCorrect == LiveSpec => []ConnectedIsOpen
<1>1. LiveInv => ConnectedIsOpen
  BY DEF LiveInv
<1> QED
  BY <1>1, LiveInvariant, PTL
=============================================================================
