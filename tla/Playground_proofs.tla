--------------------------- MODULE Playground_proofs ---------------------------
(***************************************************************************)
(* Proofs about Playground, for any number of tokens, requests and polls,  *)
(* any limits and any faults: a record is stored and listed at most as     *)
(* often as it was sent, and a capture nobody disturbed is not lost.       *)
(***************************************************************************)
EXTENDS Playground, FiniteSetTheorems, TLAPS

-----------------------------------------------------------------------------
(* Histories.                                                              *)

\* Cutting a history keeps its newest records in their places.
LEMMA NewestCut ==
    ASSUME NEW s \in Histories
    PROVE  /\ Newest(s) \in Histories
           /\ Len(Newest(s)) = IF Len(s) < MaxHistory THEN Len(s) ELSE MaxHistory
           /\ \A i \in 1..Len(Newest(s)) : Newest(s)[i] = s[i]
BY PlaygroundAssumption DEF PlaygroundAssumption, Newest, Histories

\* Putting a record in front moves the others back by one.
LEMMA InFront ==
    ASSUME NEW s \in Histories, NEW r \in Requests
    PROVE  /\ <<r>> \o s \in Histories
           /\ Len(<<r>> \o s) = Len(s) + 1
           /\ (<<r>> \o s)[1] = r
           /\ \A i \in 1..Len(s) : (<<r>> \o s)[i+1] = s[i]
           /\ \A i \in 2..(Len(s)+1) : (<<r>> \o s)[i] = s[i-1]
BY DEF Histories

\* What a cut history and one with a new record in front hold.
LEMMA CutHolds ==
    ASSUME NEW s \in Histories, NEW x
    PROVE  Has(Newest(s), x) => Has(s, x)
BY NewestCut DEF Has, Histories

LEMMA FrontHolds ==
    ASSUME NEW s \in Histories, NEW r \in Requests, NEW x
    PROVE  Has(<<r>> \o s, x) <=> (x = r \/ Has(s, x))
<1>1. Len(s) \in Nat
  BY DEF Histories
<1>2. ASSUME Has(<<r>> \o s, x), x # r PROVE Has(s, x)
  <2>1. PICK i \in 1..(Len(s)+1) : (<<r>> \o s)[i] = x
    BY <1>2, InFront DEF Has
  <2>2. i \in 2..(Len(s)+1) /\ i - 1 \in 1..Len(s)
    BY <2>1, <1>1, <1>2, InFront
  <2> QED
    BY <2>1, <2>2, InFront DEF Has
<1>3. ASSUME Has(s, x) PROVE Has(<<r>> \o s, x)
  <2>1. PICK i \in 1..Len(s) : s[i] = x
    BY <1>3 DEF Has
  <2>2. i + 1 \in 1..Len(<<r>> \o s)
    BY <1>1, InFront
  <2> QED
    BY <2>1, <2>2, InFront DEF Has
<1>4. Has(<<r>> \o s, r)
  BY <1>1, InFront DEF Has
<1> QED
  BY <1>2, <1>3, <1>4

\* How often a record is in a history, in a cut one and in one with a new
\* record in front.
LEMMA TimesType ==
    ASSUME NEW s \in Histories, NEW x
    PROVE  /\ IsFiniteSet({i \in 1..Len(s) : s[i] = x})
           /\ Times(s, x) \in Nat
<1>1. Len(s) \in Nat
  BY DEF Histories
<1>2. IsFiniteSet(1..Len(s))
  BY <1>1, FS_Interval
<1>3. IsFiniteSet({i \in 1..Len(s) : s[i] = x})
  BY <1>2, FS_Subset
<1> QED
  BY <1>3, FS_CardinalityType DEF Times

LEMMA TimesCut ==
    ASSUME NEW s \in Histories, NEW x
    PROVE  Times(Newest(s), x) <= Times(s, x)
<1>1. Len(s) \in Nat /\ MaxHistory \in Nat
  BY PlaygroundAssumption DEF Histories, PlaygroundAssumption
<1>2. {i \in 1..Len(Newest(s)) : Newest(s)[i] = x} \subseteq {i \in 1..Len(s) : s[i] = x}
  BY <1>1, NewestCut
<1> QED
  BY <1>2, TimesType, FS_Subset DEF Times

LEMMA TimesFront ==
    ASSUME NEW s \in Histories, NEW r \in Requests, NEW x
    PROVE  /\ Times(<<r>> \o s, x) <= Times(s, x) + 1
           /\ x # r => Times(<<r>> \o s, x) <= Times(s, x)
<1> DEFINE f == <<r>> \o s
           places == {i \in 1..Len(s) : s[i] = x}
           moved == {i + 1 : i \in places}
           all == {i \in 1..Len(f) : f[i] = x}
<1>1. Len(s) \in Nat /\ IsFiniteSet(places)
  <2>1. Len(s) \in Nat
    BY DEF Histories
  <2>2. IsFiniteSet({i \in 1..Len(s) : s[i] = x})
    BY TimesType, Zenon
  <2> QED
    BY <2>1, <2>2
<1>2. IsFiniteSet(moved) /\ Cardinality(moved) <= Cardinality(places)
  <2> DEFINE g == [i \in places |-> i + 1]
  <2>1. g \in Surjection(places, moved)
    BY DEF Surjection
  <2> HIDE DEF g, places, moved
  <2> QED
    BY <1>1, <2>1, FS_Surjection
<1>3. IsFiniteSet(moved \cup {1}) /\ Cardinality(moved \cup {1}) <= Cardinality(moved) + 1
  <2>1. Cardinality(moved) \in Nat
    BY <1>2, FS_CardinalityType
  <2> HIDE DEF moved
  <2>2. IsFiniteSet(moved \cup {1})
        /\ Cardinality(moved \cup {1}) = IF 1 \in moved THEN Cardinality(moved) ELSE Cardinality(moved) + 1
    BY <1>2, FS_AddElement, Zenon
  <2> QED
    BY <2>1, <2>2
<1>4. all \subseteq moved \cup {1} /\ (x # r => all \subseteq moved)
  <2> SUFFICES ASSUME NEW i \in all
               PROVE  (i = 1 /\ x = r) \/ i \in moved
    OBVIOUS
  <2>1. i \in 1..(Len(s)+1) /\ f[i] = x
    BY InFront
  <2>2. CASE i = 1
    BY <2>1, <2>2, InFront
  <2>3. CASE i # 1
    <3>1. i \in 2..(Len(s)+1) /\ i - 1 \in 1..Len(s)
      BY <1>1, <2>1, <2>3
    <3>2. s[i-1] = x /\ (i - 1) + 1 = i
      BY <1>1, <2>1, <3>1, InFront
    <3> QED
      BY <3>1, <3>2
  <2> QED
    BY <2>2, <2>3
<1>5. Cardinality(all) \in Nat /\ Cardinality(places) \in Nat /\ Cardinality(moved) \in Nat
      /\ Cardinality(moved \cup {1}) \in Nat
  <2>1. IsFiniteSet(all)
    BY <1>3, <1>4, FS_Subset
  <2> QED
    BY <1>1, <1>2, <1>3, <2>1, FS_CardinalityType
<1>6. Cardinality(all) <= Cardinality(moved \cup {1})
  BY <1>3, <1>4, FS_Subset
<1>7. x # r => Cardinality(all) <= Cardinality(moved)
  BY <1>2, <1>4, FS_Subset
<1>8. Times(s, x) = Cardinality(places) /\ Times(f, x) = Cardinality(all)
  BY DEF Times
<1> HIDE DEF f, places, moved, all
<1> QED
  <2>1. Times(f, x) <= Times(s, x) + 1 /\ (x # r => Times(f, x) <= Times(s, x))
    BY <1>2, <1>3, <1>5, <1>6, <1>7, <1>8
  <2> QED
    BY <2>1 DEF f

LEMMA EmptyHistory ==
    /\ <<>> \in Histories /\ Newest(<<>>) \in Histories
    /\ \A x : ~Has(<<>>, x) /\ Times(<<>>, x) = 0
<1>1. <<>> \in Histories /\ Len(<<>>) = 0
  BY DEF Histories
<1>2. ASSUME NEW x PROVE ~Has(<<>>, x) /\ Times(<<>>, x) = 0
  <2>1. {i \in 1..Len(<<>>) : <<>>[i] = x} = {}
    BY <1>1
  <2> QED
    BY <1>1, <2>1, FS_EmptySet DEF Has, Times
<1> QED
  BY <1>1, <1>2, NewestCut

\* A record is among the first MaxHistory, or they are all others.
InOrFull(s, r) == Has(s, r) \/ Len(s) >= MaxHistory

LEMMA FrontInOrFull ==
    ASSUME NEW s \in Histories, NEW r \in Requests, NEW x
    PROVE  /\ InOrFull(s, x) => InOrFull(<<r>> \o s, x)
           /\ InOrFull(<<r>> \o s, r)
<1>1. Len(s) \in Nat /\ Len(<<r>> \o s) = Len(s) + 1
  BY InFront DEF Histories
<1> QED
  BY <1>1, FrontHolds, PlaygroundAssumption DEF InOrFull, PlaygroundAssumption

LEMMA CutInOrFull ==
    ASSUME NEW s \in Histories, NEW x, InOrFull(s, x)
    PROVE  InOrFull(Newest(s), x)
<1>1. Len(s) \in Nat /\ MaxHistory \in Nat
  BY PlaygroundAssumption DEF Histories, PlaygroundAssumption
<1>2. CASE Len(s) >= MaxHistory
  BY <1>1, <1>2, NewestCut DEF InOrFull
<1>3. CASE Len(s) < MaxHistory
  <2>1. PICK i \in 1..Len(s) : s[i] = x
    BY <1>1, <1>3 DEF InOrFull, Has
  <2>2. i \in 1..Len(Newest(s)) /\ Newest(s)[i] = x
    BY <1>1, <1>3, <2>1, NewestCut
  <2> QED
    BY <2>2 DEF InOrFull, Has
<1> QED
  BY <1>1, <1>2, <1>3

\* What the library returns.
LEMMA ReadsHistories ==
    ASSUME PlaygroundTypeOK, NEW t \in Tokens
    PROVE  /\ Remembered(t) \in Histories
           /\ \A s \in Ranged(t) : s \in Histories
<1>1. Remembered(t) \in Histories
  BY EmptyHistory DEF PlaygroundTypeOK, Remembered
<1> QED
  BY <1>1, NewestCut DEF PlaygroundTypeOK, Ranged

-----------------------------------------------------------------------------
(* Types.                                                                  *)

LEMMA FreePollType ==
    ASSUME NEW S
    PROVE  FreePoll \in [phase : {"free", "asked", "answered"}, token : S \cup {None},
                         since : Time, requests : Histories]
BY PlaygroundAssumption DEF FreePoll, Time, Histories, PlaygroundAssumption

\* A key of the store is written.
LEMMA StoreType ==
    ASSUME PlaygroundTypeOK, NEW t, NEW v \in Histories
    PROVE  /\ \A k \in {"none", "string", "list"} :
                 SetKey(t, k, v) => /\ kind' \in [Tokens -> {"none", "string", "list"}]
                                    /\ data' \in [Tokens -> Histories]
           /\ \A o \in Arrays : Set(t, v) \/ SetFails(t, v, o) =>
                 /\ kind' \in [Tokens -> {"none", "string", "list"}]
                 /\ data' \in [Tokens -> Histories]
                 /\ memory' \in [Tokens -> Arrays \cup {None}]
<1>1. /\ kind \in [Tokens -> {"none", "string", "list"}]
      /\ data \in [Tokens -> Histories] /\ memory \in [Tokens -> Arrays \cup {None}]
  BY DEF PlaygroundTypeOK
<1>2. ASSUME NEW k \in {"none", "string", "list"}, SetKey(t, k, v)
      PROVE  /\ kind' \in [Tokens -> {"none", "string", "list"}]
             /\ data' \in [Tokens -> Histories]
  BY <1>1, <1>2 DEF SetKey
<1>3. ASSUME NEW o \in Arrays, Set(t, v) \/ SetFails(t, v, o)
      PROVE  /\ kind' \in [Tokens -> {"none", "string", "list"}]
             /\ data' \in [Tokens -> Histories]
             /\ memory' \in [Tokens -> Arrays \cup {None}]
  <2>1. SetKey(t, "string", v) \/ UNCHANGED <<kind, data>>
    BY <1>3 DEF Set, SetFails
  <2>2. memory' = memory \/ memory' = [memory EXCEPT ![t] = o]
    BY <1>3 DEF Set, SetFails
  <2> QED
    BY <1>1, <1>2, <2>1, <2>2
<1> QED
  BY <1>2, <1>3

\* What is collected leaves histories.
LEMMA CollectType ==
    ASSUME PlaygroundTypeOK, Collect(array)
    PROVE  /\ array' \in [Arrays -> Histories]
           /\ \A o \in Arrays : array'[o] \in {array[o], <<>>}
BY EmptyHistory DEF PlaygroundTypeOK, Collect

\* LPUSH of a record.
LEMMA PushType ==
    ASSUME PlaygroundTypeOK, NEW r \in Requests, to[r] \in Tokens, Push(r)
    PROVE  /\ kind' \in [Tokens -> {"none", "string", "list"}]
           /\ data' \in [Tokens -> Histories]
<1>1. <<r>> \o data[to[r]] \in Histories
  BY InFront DEF PlaygroundTypeOK
<1> QED
  BY <1>1, StoreType DEF Push

\* A request starts: what Receive and Send share.
LEMMA CallType ==
    ASSUME PlaygroundTypeOK, NEW r \in Requests, NEW t \in Tokens, Call(r, t)
    PROVE  /\ rate' \in 0..RateMax+1
           /\ pc' \in [Requests -> Ended \cup {"first", "admitted", "read", "fallback", "got", "trim"}]
           /\ to' \in [Requests -> Tokens \cup {None}]
           /\ clean' \in [Requests -> BOOLEAN]
           /\ kept' = kept
<1>1. rate' \in 0..RateMax+1
  <2>1. rate \in 0..RateMax+1 /\ RateMax \in Nat /\ MaxResends \in Nat
    BY PlaygroundAssumption DEF PlaygroundTypeOK, PlaygroundAssumption
  <2>2. \A n \in 0..MaxResends+1 : Raised(n) \in 0..RateMax+1
    BY <2>1 DEF Raised
  <2>3. \E n \in 0..MaxResends+1 : rate' = Raised(n)
    <3>1. CASE \E n \in IF Fails THEN 1..MaxResends+1 ELSE {1} : rate' = Raised(n)
      BY <2>1, <3>1
    <3> QED
      BY <3>1 DEF Call, Counted
  <2> QED
    BY <2>2, <2>3
<1>2. pc' \in [Requests -> Ended \cup {"first", "admitted", "read", "fallback", "got", "trim"}]
  <2>1. \E d \in {"first", "admitted", "refused"} : pc' = [pc EXCEPT ![r] = d]
    BY DEF Call, Counted
  <2> QED
    BY <2>1 DEF PlaygroundTypeOK, Ended
<1>3. to' \in [Requests -> Tokens \cup {None}]
  BY DEF PlaygroundTypeOK, Call
<1>4. clean' \in [Requests -> BOOLEAN] /\ kept' = kept
  <2> DEFINE old(q) == clean[q] /\ q \notin Running(t)
             new(q) == IF q = r THEN Running(t) = {} ELSE old(q)
  <2>1. clean' = [q \in Requests |-> new(q)] /\ kept' = kept
    BY DEF Call, Overlap
  <2>2. ASSUME NEW q \in Requests PROVE new(q) \in BOOLEAN
    OBVIOUS
  <2> HIDE DEF new
  <2> QED
    BY <2>1, <2>2
<1> QED
  BY <1>1, <1>2, <1>3, <1>4

\* The history variables keep their type.
LEMMA GhostType ==
    ASSUME PlaygroundTypeOK
    PROVE  /\ \A t : Disturb(t) => clean' \in [Requests -> BOOLEAN] /\ kept' \subseteq Requests
           /\ \A r \in Requests : Completed(r) => clean' \in [Requests -> BOOLEAN] /\ kept' \subseteq Requests
<1>1. ASSUME NEW t, Disturb(t) PROVE clean' \in [Requests -> BOOLEAN] /\ kept' \subseteq Requests
  <2> DEFINE new(q) == clean[q] /\ q \notin Running(t)
  <2>1. clean' = [q \in Requests |-> new(q)] /\ kept' \subseteq kept
    BY <1>1 DEF Disturb
  <2>2. ASSUME NEW q \in Requests PROVE new(q) \in BOOLEAN
    OBVIOUS
  <2> HIDE DEF new
  <2> QED
    BY <2>1, <2>2 DEF PlaygroundTypeOK
<1>2. ASSUME NEW r \in Requests, Completed(r)
      PROVE  clean' \in [Requests -> BOOLEAN] /\ kept' \subseteq Requests
  BY <1>2 DEF Completed, PlaygroundTypeOK
<1> QED
  BY <1>1, <1>2

\* A record is put in front of an array.
LEMMA UnshiftType ==
    ASSUME PlaygroundTypeOK, NEW r \in Requests, NEW t \in Tokens,
           \/ Unshift(r, r, data[t])
           \/ Unshift(r, IF memory[t] = None THEN r ELSE memory[t], Remembered(t))
    PROVE  /\ arr' \in [Requests -> Histories] /\ array' \in [Arrays -> Histories]
           /\ held' \in [Requests -> Arrays \cup {None}]
<1>1. PICK o \in Arrays, s \in Histories : Unshift(r, o, s)
  <2>1. r \in Arrays /\ (memory[t] # None => memory[t] \in Arrays)
    BY DEF Arrays, PlaygroundTypeOK
  <2>2. data[t] \in Histories /\ Remembered(t) \in Histories
    BY ReadsHistories DEF PlaygroundTypeOK
  <2> QED
    BY <2>1, <2>2
<1>2. Newest(<<r>> \o s) \in Histories
  BY InFront, NewestCut
<1> QED
  BY <1>1, <1>2 DEF Unshift, PlaygroundTypeOK

\* A request that has started was sent to a token, the fallback has an array in
\* hand, and a poll asks for a token: what the types of the steps need.
PlaygroundAddressed ==
    /\ \A r \in Requests : pc[r] # "idle" => to[r] \in issued
    /\ \A r \in Requests : pc[r] = "got" <=> held[r] # None
    /\ \A p \in Polls : poll[p].phase # "free" => poll[p].token \in issued

TypeInv == PlaygroundTypeOK /\ PlaygroundAddressed

LEMMA TypeStep == TypeInv /\ [PlaygroundNext]_pvars => PlaygroundTypeOK'
<1> SUFFICES ASSUME PlaygroundTypeOK, PlaygroundAddressed, [PlaygroundNext]_pvars
             PROVE  PlaygroundTypeOK'
  BY DEF TypeInv
<1> USE PlaygroundAssumption DEF PlaygroundAssumption, storeVars, rateVars, captureVars, sessionVars,
        screenVars, pageVars, ghostVars
<1> DEFINE Phases == Ended \cup {"first", "admitted", "read", "fallback", "got", "trim"}
<1>tick. CASE Tick
  BY <1>tick DEF Tick, PlaygroundTypeOK, Time
<1>window. CASE WindowOver
  <2>1. 0 \in 0..RateMax+1
    OBVIOUS
  <2> QED
    BY <1>window, <2>1 DEF WindowOver, PlaygroundTypeOK
<1>generate. CASE GenerateToken
  BY <1>generate DEF GenerateToken, PlaygroundTypeOK
<1>issue. ASSUME NEW t \in Tokens, IssueToken(t) PROVE PlaygroundTypeOK'
  <2>1. /\ kind' \in [Tokens -> {"none", "string", "list"}]
        /\ data' \in [Tokens -> Histories] /\ memory' \in [Tokens -> Arrays \cup {None}]
    BY <1>issue, EmptyHistory, StoreType DEF IssueToken, Arrays
  <2>2. issued' = issued \cup {t} /\ offered' = t
    BY <1>issue DEF IssueToken
  <2>3. poll' \in [Polls -> [phase : {"free", "asked", "answered"}, token : issued' \cup {None},
                             since : Time, requests : Histories]]
    BY <1>issue, <2>2 DEF IssueToken, PlaygroundTypeOK
  <2> QED
    BY <1>issue, <2>1, <2>2, <2>3 DEF IssueToken, PlaygroundTypeOK
<1>arrives. CASE TokenArrives
  BY <1>arrives DEF TokenArrives, PlaygroundTypeOK
<1>fails. CASE TokenFails
  BY <1>fails DEF TokenFails, PlaygroundTypeOK
<1>new. CASE NewSession
  BY <1>new DEF NewSession, PlaygroundTypeOK, Time
<1>reload. CASE Reload
  <2>1. poll' \in [Polls -> [phase : {"free", "asked", "answered"}, token : issued \cup {None},
                             since : Time, requests : Histories]]
    BY <1>reload, FreePollType DEF Reload
  <2> QED
    BY <1>reload, <2>1 DEF Reload, PlaygroundTypeOK, Time
<1>receive. ASSUME NEW r \in Requests, NEW t \in Tokens, Receive(r, t) PROVE PlaygroundTypeOK'
  <2>1. Call(r, t) /\ sending' = sending
    BY <1>receive DEF Receive
  <2> QED
    BY <2>1, CallType DEF Call, PlaygroundTypeOK
<1>send. ASSUME NEW r \in Requests, Send(r) PROVE PlaygroundTypeOK'
  <2>1. token \in Tokens /\ Call(r, token) /\ sending' = r
    BY <1>send DEF Send, PlaygroundTypeOK
  <2> QED
    BY <2>1, CallType DEF Call, PlaygroundTypeOK
<1>setwindow. ASSUME NEW r \in Requests, SetWindow(r) PROVE PlaygroundTypeOK'
  BY <1>setwindow DEF SetWindow, At, PlaygroundTypeOK
<1>build. ASSUME NEW r \in Requests, BuildRecord(r) PROVE PlaygroundTypeOK'
  <2>1. pc' \in [Requests -> Phases]
    BY <1>build DEF BuildRecord, At, PlaygroundTypeOK
  <2>2. long' \in [Requests -> BOOLEAN]
    <3>1. PICK s \in Ranged(to[r]) : long' = [long EXCEPT ![r] = Len(s) >= MaxHistory]
      BY <1>build DEF BuildRecord
    <3> DEFINE b == Len(s) >= MaxHistory
    <3>2. b \in BOOLEAN
      OBVIOUS
    <3> HIDE DEF b
    <3> QED
      BY <3>1, <3>2 DEF PlaygroundTypeOK, b
  <2>3. stamp' \in [Requests -> Time]
    BY <1>build DEF BuildRecord, PlaygroundTypeOK
  <2> QED
    BY <1>build, <2>1, <2>2, <2>3 DEF BuildRecord, PlaygroundTypeOK
<1>addressed. \A r \in Requests : pc[r] # "idle" => to[r] \in Tokens
  BY DEF PlaygroundAddressed, PlaygroundTypeOK
<1>pushlist. ASSUME NEW r \in Requests, PushList(r) PROVE PlaygroundTypeOK'
  <2>1. pc' \in [Requests -> Phases]
    BY <1>pushlist DEF PushList, At, After, PlaygroundTypeOK, Ended
  <2>2. kind' \in [Tokens -> {"none", "string", "list"}] /\ data' \in [Tokens -> Histories]
    BY <1>pushlist, <1>addressed, PushType DEF PushList, At
  <2>3. clean' \in [Requests -> BOOLEAN] /\ kept' \subseteq Requests
    BY <1>pushlist, GhostType DEF PushList, PlaygroundTypeOK
  <2> QED
    BY <1>pushlist, <2>1, <2>2, <2>3 DEF PushList, PlaygroundTypeOK
<1>pushagain. ASSUME NEW r \in Requests, PushAgain(r) PROVE PlaygroundTypeOK'
  <2>1. resent' \in [Requests -> 0..MaxResends]
    BY <1>pushagain DEF PushAgain, PlaygroundTypeOK
  <2>2. kind' \in [Tokens -> {"none", "string", "list"}] /\ data' \in [Tokens -> Histories]
    BY <1>pushagain, <1>addressed, PushType DEF PushAgain
  <2>3. clean' \in [Requests -> BOOLEAN] /\ kept' \subseteq Requests
    BY <1>pushagain, GhostType DEF PushAgain
  <2> QED
    BY <1>pushagain, <2>1, <2>2, <2>3 DEF PushAgain, PlaygroundTypeOK
<1>pushstring. ASSUME NEW r \in Requests, PushString(r) PROVE PlaygroundTypeOK'
  BY <1>pushstring DEF PushString, At, PlaygroundTypeOK
<1>pushfails. ASSUME NEW r \in Requests, PushFails(r) PROVE PlaygroundTypeOK'
  <2>1. pc' \in [Requests -> Phases]
    BY <1>pushfails DEF PushFails, At, PlaygroundTypeOK
  <2>2. kind' \in [Tokens -> {"none", "string", "list"}] /\ data' \in [Tokens -> Histories]
    <3>1. CASE Push(r)
      BY <1>pushfails, <1>addressed, <3>1, PushType DEF PushFails, At
    <3>2. CASE UNCHANGED <<kind, data>>
      BY <3>2 DEF PlaygroundTypeOK
    <3> QED
      BY <1>pushfails, <3>1, <3>2 DEF PushFails
  <2>3. clean' \in [Requests -> BOOLEAN] /\ kept' \subseteq Requests
    BY <1>pushfails, GhostType DEF PushFails
  <2> QED
    BY <1>pushfails, <2>1, <2>2, <2>3 DEF PushFails, PlaygroundTypeOK
<1>read. ASSUME NEW r \in Requests, ReadHistory(r) PROVE PlaygroundTypeOK'
  <2>0. to[r] \in Tokens
    BY <1>read, <1>addressed DEF ReadHistory, At
  <2>1. pc' \in [Requests -> Phases]
    BY <1>read DEF ReadHistory, At, PlaygroundTypeOK
  <2>2. /\ arr' \in [Requests -> Histories] /\ array' \in [Arrays -> Histories]
        /\ held' \in [Requests -> Arrays \cup {None}]
    BY <1>read, <2>0, UnshiftType DEF ReadHistory
  <2>3. clean' \in [Requests -> BOOLEAN] /\ kept' \subseteq Requests
    <3>1. UNCHANGED ghostVars \/ Disturb(to[r])
      BY <1>read DEF ReadHistory
    <3> QED
      BY <3>1, GhostType DEF PlaygroundTypeOK
  <2> QED
    BY <1>read, <2>1, <2>2, <2>3 DEF ReadHistory, PlaygroundTypeOK
<1>write. ASSUME NEW r \in Requests, WriteHistory(r) PROVE PlaygroundTypeOK'
  <2>1. /\ At(r, "got", After(r))
        /\ \/ Set(to[r], arr[r]) /\ IF long[r] THEN UNCHANGED ghostVars ELSE Completed(r)
           \/ SetFails(to[r], arr[r], held[r]) /\ Disturb(to[r])
        /\ arr' = [arr EXCEPT ![r] = <<>>] /\ held' = [held EXCEPT ![r] = None]
        /\ Collect(array)
        /\ UNCHANGED <<now, rateVars, to, stamp, long, resent, issued, pageVars>>
    BY <1>write DEF WriteHistory
  <2>2. pc' \in [Requests -> Phases]
    BY <2>1 DEF At, After, PlaygroundTypeOK, Ended
  <2>3. arr[r] \in Histories /\ held[r] \in Arrays
    BY <2>1 DEF At, PlaygroundAddressed, PlaygroundTypeOK
  <2>4. /\ kind' \in [Tokens -> {"none", "string", "list"}]
        /\ data' \in [Tokens -> Histories] /\ memory' \in [Tokens -> Arrays \cup {None}]
    BY <2>1, <2>3, StoreType
  <2>5. clean' \in [Requests -> BOOLEAN] /\ kept' \subseteq Requests
    BY <2>1, GhostType DEF PlaygroundTypeOK
  <2>6. /\ arr' \in [Requests -> Histories] /\ held' \in [Requests -> Arrays \cup {None}]
        /\ array' \in [Arrays -> Histories]
    BY <2>1, EmptyHistory, CollectType DEF PlaygroundTypeOK
  <2> QED
    BY <2>1, <2>2, <2>4, <2>5, <2>6 DEF PlaygroundTypeOK
<1>again. ASSUME NEW r \in Requests, WriteAgain(r) PROVE PlaygroundTypeOK'
  <2>1. arr[r] \in Histories /\ held[r] \in Arrays
    BY <1>again DEF WriteAgain, PlaygroundAddressed, PlaygroundTypeOK
  <2>2. /\ kind' \in [Tokens -> {"none", "string", "list"}]
        /\ data' \in [Tokens -> Histories] /\ memory' \in [Tokens -> Arrays \cup {None}]
    BY <1>again, <2>1, StoreType DEF WriteAgain
  <2>3. clean' \in [Requests -> BOOLEAN] /\ kept' \subseteq Requests
    BY <1>again, GhostType DEF WriteAgain
  <2> QED
    BY <1>again, <2>2, <2>3 DEF WriteAgain, PlaygroundTypeOK
<1>trim. ASSUME NEW r \in Requests, Trim(r) PROVE PlaygroundTypeOK'
  <2>0. to[r] \in Tokens
    BY <1>trim, <1>addressed DEF Trim, At
  <2>1. pc' \in [Requests -> Phases]
    BY <1>trim DEF Trim, At, PlaygroundTypeOK, Ended
  <2>2. data' \in [Tokens -> Histories]
    <3>1. Newest(data[to[r]]) \in Histories
      BY <2>0, NewestCut DEF PlaygroundTypeOK
    <3>2. data' = [data EXCEPT ![to[r]] = Newest(data[to[r]])] \/ data' = data
      BY <1>trim DEF Trim
    <3> QED
      BY <3>1, <3>2 DEF PlaygroundTypeOK
  <2>3. clean' \in [Requests -> BOOLEAN] /\ kept' \subseteq Requests
    BY <1>trim, <2>0, GhostType DEF Trim
  <2> QED
    BY <1>trim, <2>0, <2>1, <2>2, <2>3 DEF Trim, PlaygroundTypeOK
<1>crash. ASSUME NEW r \in Requests, Crash(r) PROVE PlaygroundTypeOK'
  BY <1>crash, EmptyHistory, CollectType DEF Crash, PlaygroundTypeOK, Ended
<1>restart. CASE Restart
  BY <1>restart, EmptyHistory DEF Restart, PlaygroundTypeOK, Ended
<1>delete. ASSUME NEW t \in Tokens, Delete(t) PROVE PlaygroundTypeOK'
  <2>1. kind' \in [Tokens -> {"none", "string", "list"}] /\ data' \in [Tokens -> Histories]
    <3>1. SetKey(t, "none", <<>>) \/ UNCHANGED <<kind, data>>
      BY <1>delete DEF Delete
    <3> QED
      BY <3>1, EmptyHistory, StoreType DEF PlaygroundTypeOK
  <2>2. memory' \in [Tokens -> Arrays \cup {None}] /\ array' \in [Arrays -> Histories]
    BY <1>delete, CollectType DEF Delete, PlaygroundTypeOK
  <2>3. clean' \in [Requests -> BOOLEAN] /\ kept' \subseteq Requests
    BY <1>delete, GhostType DEF Delete
  <2> QED
    BY <1>delete, <2>1, <2>2, <2>3 DEF Delete, PlaygroundTypeOK
<1>expires. ASSUME NEW t \in Tokens, Expires(t) PROVE PlaygroundTypeOK'
  <2>1. kind' \in [Tokens -> {"none", "string", "list"}] /\ data' \in [Tokens -> Histories]
    <3>1. SetKey(t, "none", <<>>) \/ UNCHANGED <<kind, data>>
      BY <1>expires DEF Expires
    <3> QED
      BY <3>1, EmptyHistory, StoreType DEF PlaygroundTypeOK
  <2>2. memory' \in [Tokens -> Arrays \cup {None}] /\ array' \in [Arrays -> Histories]
    BY <1>expires, CollectType DEF Expires, PlaygroundTypeOK
  <2>3. clean' \in [Requests -> BOOLEAN] /\ kept' \subseteq Requests
    BY <1>expires, GhostType DEF Expires
  <2> QED
    BY <1>expires, <2>1, <2>2, <2>3 DEF Expires, PlaygroundTypeOK
<1>poll. ASSUME NEW p \in Polls, Poll(p) PROVE PlaygroundTypeOK'
  BY <1>poll, EmptyHistory DEF Poll, PlaygroundTypeOK
<1>answer. ASSUME NEW p \in Polls, AnswerPoll(p) PROVE PlaygroundTypeOK'
  <2>1. poll[p].token \in Tokens
    BY <1>answer DEF AnswerPoll, PlaygroundAddressed, PlaygroundTypeOK
  <2>2. PICK s \in Histories :
           poll' = [poll EXCEPT ![p] = [phase |-> "answered", token |-> @.token, since |-> @.since,
                                        requests |-> s]]
    BY <1>answer, <2>1, ReadsHistories, EmptyHistory DEF AnswerPoll
  <2>3. poll' \in [Polls -> [phase : {"free", "asked", "answered"}, token : issued \cup {None},
                             since : Time, requests : Histories]]
    BY <2>2 DEF PlaygroundTypeOK
  <2> QED
    BY <1>answer, <2>3 DEF AnswerPoll, PlaygroundTypeOK
<1>pollarrives. ASSUME NEW p \in Polls, PollArrives(p) PROVE PlaygroundTypeOK'
  <2> DEFINE copies == [r \in Requests |-> Copies(p, r)]
  <2>1. copies \in [Requests -> Nat]
    BY TimesType DEF Copies, PlaygroundTypeOK
  <2>2. poll' = [poll EXCEPT ![p] = FreePoll] /\ shown' = Merged(copies) /\ lastPoll' \in {now, lastPoll}
    BY <1>pollarrives DEF PollArrives
  <2> HIDE DEF copies
  <2>3. shown' \in [Requests -> Nat]
    BY <2>1, <2>2 DEF Merged, PlaygroundTypeOK
  <2>4. poll' \in [Polls -> [phase : {"free", "asked", "answered"}, token : issued \cup {None},
                             since : Time, requests : Histories]]
    BY <2>2, FreePollType DEF PlaygroundTypeOK
  <2> QED
    BY <1>pollarrives, <2>2, <2>3, <2>4 DEF PollArrives, PlaygroundTypeOK
<1>pollfails. ASSUME NEW p \in Polls, PollFails(p) PROVE PlaygroundTypeOK'
  <2>1. poll' \in [Polls -> [phase : {"free", "asked", "answered"}, token : issued \cup {None},
                             since : Time, requests : Histories]]
    BY <1>pollfails, FreePollType DEF PollFails, PlaygroundTypeOK
  <2> QED
    BY <1>pollfails, <2>1 DEF PollFails, PlaygroundTypeOK
<1>sent. CASE SendAnswered
  BY <1>sent DEF SendAnswered, Merged, PlaygroundTypeOK
<1>sendfails. CASE SendFails
  BY <1>sendfails DEF SendFails, PlaygroundTypeOK
<1>clear. CASE ClearAll
  BY <1>clear DEF ClearAll, PlaygroundTypeOK, Time
<1>same. CASE UNCHANGED pvars
  BY <1>same DEF pvars, PlaygroundTypeOK
<1>capture. ASSUME NEW r \in Requests, CaptureStep(r) PROVE PlaygroundTypeOK'
  BY <1>capture, <1>receive, <1>send, <1>setwindow, <1>build, <1>pushlist, <1>pushstring,
     <1>pushagain, <1>pushfails, <1>read, <1>write, <1>again, <1>trim, <1>crash DEF CaptureStep
<1>page. CASE PageStep
  BY <1>page, <1>generate, <1>arrives, <1>fails, <1>new, <1>reload, <1>poll, <1>answer,
     <1>pollarrives, <1>pollfails, <1>sent, <1>sendfails, <1>clear DEF PageStep
<1> QED
  BY <1>tick, <1>window, <1>page, <1>capture, <1>restart, <1>issue, <1>delete, <1>expires, <1>same
     DEF PlaygroundNext

LEMMA AddressedStep == TypeInv /\ [PlaygroundNext]_pvars => PlaygroundAddressed'
<1> SUFFICES ASSUME PlaygroundTypeOK, PlaygroundAddressed, [PlaygroundNext]_pvars
             PROVE  PlaygroundAddressed'
  BY DEF TypeInv
<1> USE DEF captureVars, sessionVars, screenVars, pageVars, PlaygroundAddressed
<1>call. ASSUME NEW r \in Requests, NEW t, Call(r, t), t \in issued PROVE PlaygroundAddressed'
  <2>1. PICK d \in {"first", "admitted", "refused"} : pc' = [pc EXCEPT ![r] = d]
    BY <1>call DEF Call, Counted
  <2>2. \A q \in Requests : pc'[q] = (IF q = r THEN d ELSE pc[q]) /\ to'[q] = (IF q = r THEN t ELSE to[q])
    BY <1>call, <2>1 DEF Call, PlaygroundTypeOK
  <2>3. pc[r] = "idle" /\ UNCHANGED <<issued, held, poll>>
    BY <1>call DEF Call
  <2> QED
    BY <1>call, <2>2, <2>3
<1>receive. ASSUME NEW r \in Requests, NEW t \in Tokens, Receive(r, t) PROVE PlaygroundAddressed'
  BY <1>receive, <1>call DEF Receive, Call
<1>send. ASSUME NEW r \in Requests, Send(r) PROVE PlaygroundAddressed'
  BY <1>send, <1>call DEF Send, Call
<1>on. ASSUME NEW r \in Requests, NEW d, pc[r] # "idle", pc' = [pc EXCEPT ![r] = d],
              d = "got" <=> held'[r] # None,
              \A q \in Requests \ {r} : held'[q] = held[q], UNCHANGED <<to, issued, poll>>
       PROVE  PlaygroundAddressed'
  BY <1>on DEF PlaygroundTypeOK
<1>read. ASSUME NEW r \in Requests, ReadHistory(r) PROVE PlaygroundAddressed'
  <2>1. to[r] \in Tokens
    BY <1>read DEF ReadHistory, At, PlaygroundTypeOK
  <2>2. \E o \in Arrays : held' = [held EXCEPT ![r] = o]
    <3>1. r \in Arrays /\ (memory[to[r]] # None => memory[to[r]] \in Arrays)
      BY <2>1 DEF Arrays, PlaygroundTypeOK
    <3> QED
      BY <1>read, <3>1 DEF ReadHistory, Unshift
  <2>3. None \notin Arrays
    BY PlaygroundAssumption DEF PlaygroundAssumption, Arrays
  <2> QED
    BY <1>read, <1>on, <2>2, <2>3 DEF ReadHistory, At, PlaygroundTypeOK
<1>write. ASSUME NEW r \in Requests, WriteHistory(r) \/ Crash(r) PROVE PlaygroundAddressed'
  <2>1. PICK d \in {"done", "trim", "dead"} : pc' = [pc EXCEPT ![r] = d]
    BY <1>write DEF WriteHistory, Crash, At, After
  <2>2. pc[r] # "idle" /\ held' = [held EXCEPT ![r] = None] /\ UNCHANGED <<to, issued, poll>>
    BY <1>write DEF WriteHistory, Crash, At, Ended
  <2> QED
    BY <1>on, <2>1, <2>2 DEF PlaygroundTypeOK
<1>stay. ASSUME UNCHANGED <<pc, to, held, issued, poll>> PROVE PlaygroundAddressed'
  BY <1>stay
<1>capture. ASSUME NEW r \in Requests, CaptureStep(r) PROVE PlaygroundAddressed'
  <2>1. ASSUME SetWindow(r) \/ BuildRecord(r) \/ PushString(r) \/ PushList(r) \/ PushFails(r) \/ Trim(r)
        PROVE  PlaygroundAddressed'
    <3>1. PICK d \in {"admitted", "read", "fallback", "trim", "done"} : pc' = [pc EXCEPT ![r] = d]
      BY <2>1 DEF SetWindow, BuildRecord, PushString, PushList, PushFails, Trim, At, After
    <3>2. pc[r] \notin {"idle", "got"} /\ UNCHANGED <<to, held, issued, poll>>
      BY <2>1 DEF SetWindow, BuildRecord, PushString, PushList, PushFails, Trim, At
    <3> QED
      BY <1>on, <3>1, <3>2
  <2>2. CASE PushAgain(r) \/ WriteAgain(r)
    BY <2>2, <1>stay DEF PushAgain, WriteAgain
  <2> QED
    BY <1>capture, <1>receive, <1>send, <1>read, <1>write, <2>1, <2>2 DEF CaptureStep
<1>restart. CASE Restart
  BY <1>restart DEF Restart, Ended, PlaygroundTypeOK
<1>poll. ASSUME NEW p \in Polls, Poll(p) PROVE PlaygroundAddressed'
  BY <1>poll DEF Poll, PlaygroundTypeOK
<1>answer. ASSUME NEW p \in Polls, AnswerPoll(p) PROVE PlaygroundAddressed'
  BY <1>answer DEF AnswerPoll, PlaygroundTypeOK
<1>free. ASSUME NEW p \in Polls, PollArrives(p) \/ PollFails(p) PROVE PlaygroundAddressed'
  <2>1. poll' = [poll EXCEPT ![p] = FreePoll] /\ UNCHANGED <<pc, to, held, issued>>
    BY <1>free DEF PollArrives, PollFails
  <2>2. FreePoll.phase = "free"
    BY DEF FreePoll
  <2> QED
    BY <2>1, <2>2 DEF PlaygroundTypeOK
<1>reload. CASE Reload
  BY <1>reload DEF Reload, FreePoll
<1>page. CASE PageStep
  <2>1. CASE GenerateToken \/ TokenArrives \/ TokenFails \/ NewSession \/ SendAnswered
             \/ SendFails \/ ClearAll
    BY <2>1, <1>stay DEF GenerateToken, TokenArrives, TokenFails, NewSession, SendAnswered, SendFails,
       ClearAll
  <2> QED
    BY <1>page, <1>poll, <1>answer, <1>free, <1>reload, <2>1 DEF PageStep
<1>issue. ASSUME NEW t \in Tokens, IssueToken(t) \/ Delete(t) \/ Expires(t) PROVE PlaygroundAddressed'
  BY <1>issue DEF IssueToken, Delete, Expires
<1>rest. CASE Tick \/ WindowOver \/ UNCHANGED pvars
  BY <1>rest, <1>stay DEF Tick, WindowOver, pvars
<1> QED
  BY <1>page, <1>capture, <1>restart, <1>issue, <1>rest DEF PlaygroundNext

LEMMA TypeInit == PlaygroundInit => TypeInv
<1> SUFFICES ASSUME PlaygroundInit PROVE PlaygroundTypeOK /\ PlaygroundAddressed
  BY DEF TypeInv
<1>1. poll \in [Polls -> [phase : {"free", "asked", "answered"}, token : issued \cup {None},
                          since : Time, requests : Histories]]
  BY FreePollType DEF PlaygroundInit
<1>2. FreePoll.phase = "free"
  BY DEF FreePoll
<1>3. /\ now \in Time /\ lastPoll \in Time
      /\ stamp \in [Requests -> Time] /\ shown \in [Requests -> Nat]
      /\ kind \in [Tokens -> {"none", "string", "list"}]
      /\ pc \in [Requests -> Ended \cup {"first", "admitted", "read", "fallback", "got", "trim"}]
  BY PlaygroundAssumption DEF PlaygroundInit, PlaygroundAssumption, Time, Ended
<1>4. /\ data \in [Tokens -> Histories] /\ memory \in [Tokens -> Arrays \cup {None}]
      /\ array \in [Arrays -> Histories]
      /\ arr \in [Requests -> Histories] /\ held \in [Requests -> Arrays \cup {None}]
      /\ resent \in [Requests -> 0..MaxResends]
  BY EmptyHistory, PlaygroundAssumption DEF PlaygroundInit, PlaygroundAssumption
<1>5. /\ rate \in 0..RateMax+1 /\ rate_ttl \in BOOLEAN
      /\ to \in [Requests -> Tokens \cup {None}]
      /\ long \in [Requests -> BOOLEAN] /\ clean \in [Requests -> BOOLEAN]
      /\ page \in Pages
  <2>1. 0 \in 0..RateMax+1
    BY PlaygroundAssumption DEF PlaygroundAssumption
  <2> QED
    BY <2>1 DEF PlaygroundInit
<1>6. PlaygroundTypeOK
  BY <1>1, <1>3, <1>4, <1>5 DEF PlaygroundInit, PlaygroundTypeOK
<1> QED
  BY <1>2, <1>6 DEF PlaygroundInit, PlaygroundAddressed

\* The state has its type in every reachable state.
THEOREM TypeInvariant == PlaygroundSpec => []PlaygroundTypeOK
<1>1. PlaygroundInit => TypeInv
  BY TypeInit
<1>2. TypeInv /\ [PlaygroundNext]_pvars => TypeInv'
  BY TypeStep, AddressedStep DEF TypeInv
<1>3. TypeInv => PlaygroundTypeOK
  BY DEF TypeInv
<1> QED
  BY <1>1, <1>2, <1>3, PTL DEF PlaygroundSpec

-----------------------------------------------------------------------------
(* A record is stored at most as often as it was sent.  It comes into a    *)
(* list by LPUSH, and into an array of the server, and from there into a   *)
(* string, by the fallback: so it must not be in what the fallback reads,  *)
(* and it is not, because a history that LPUSH has written is a list and   *)
(* GET of a list is an error.                                              *)

Unsent == {"idle", "first", "admitted", "read", "refused"}
Unread == Unsent \cup {"fallback"}

\* How often the LPUSH of a record was sent, and whether the fallback has put it
\* in front of a history.
Sent == [q \in Requests |-> resent[q] + IF pc[q] \in Unsent THEN 0 ELSE 1]
Written == [q \in Requests |-> IF pc[q] \in Unread THEN 0 ELSE 1]

\* k, d, a and h are kind, data, array and arr; S and W are Sent and Written.
Bounded(k, d, a, h, S, W) ==
    /\ \A t \in Tokens, q \in Requests :
          /\ k[t] = "list" => Times(d[t], q) <= S[q]
          /\ k[t] # "list" => Times(d[t], q) <= W[q]
    /\ \A o \in Arrays, q \in Requests : Times(a[o], q) <= W[q]
    /\ \A r, q \in Requests : Times(h[r], q) <= W[q]
    /\ \A t \in Tokens : k[t] = "none" => d[t] = <<>>

StoreBound == Bounded(kind, data, array, arr, Sent, Written)

Typed(d, a, h, S, W) ==
    /\ d \in [Tokens -> Histories] /\ a \in [Arrays -> Histories] /\ h \in [Requests -> Histories]
    /\ S \in [Requests -> Nat] /\ W \in [Requests -> Nat]

\* What a step may do to the histories.
Unshifts(k, d, a, W, V, v) ==
    \E r \in Requests, s \in Histories :
       /\ v = Newest(<<r>> \o s) /\ V[r] = W[r] + 1
       /\ \/ s = <<>>
          \/ \E t \in Tokens : k[t] # "list" /\ s = d[t]
          \/ \E o \in Arrays : s = a[o]

DataMove(k, d, h, S, kk, dd, T) ==
    \A t \in Tokens :
       \/ dd[t] = d[t] /\ kk[t] = k[t]
       \/ dd[t] = <<>>
       \/ k[t] = "list" /\ kk[t] = "list" /\ dd[t] = Newest(d[t])
       \/ \E r \in Requests : /\ k[t] # "string" /\ kk[t] = "list"
                              /\ dd[t] = <<r>> \o d[t] /\ T[r] = S[r] + 1
       \/ kk[t] = "string" /\ \E r \in Requests : dd[t] = h[r]

ArrayMove(k, d, a, h, W, aa, hh, V) ==
    /\ \A o \in Arrays : aa[o] \in {a[o], <<>>} \/ Unshifts(k, d, a, W, V, aa[o])
    /\ \A p \in Requests : hh[p] \in {h[p], <<>>} \/ Unshifts(k, d, a, W, V, hh[p])

Grows(S, T) == \A q \in Requests : T[q] \in {S[q], S[q] + 1}

LEMMA UnshiftBound ==
    ASSUME NEW k, NEW d, NEW a, NEW h, NEW S, NEW W, NEW V, NEW v,
           Bounded(k, d, a, h, S, W), Typed(d, a, h, S, W), V \in [Requests -> Nat],
           Grows(W, V), Unshifts(k, d, a, W, V, v), NEW q \in Requests
    PROVE  Times(v, q) <= V[q]
<1>1. PICK r \in Requests, s \in Histories :
         /\ v = Newest(<<r>> \o s) /\ V[r] = W[r] + 1
         /\ \/ s = <<>>
            \/ \E t \in Tokens : k[t] # "list" /\ s = d[t]
            \/ \E o \in Arrays : s = a[o]
  BY DEF Unshifts
<1>2. W[q] \in Nat /\ V[q] \in {W[q], W[q] + 1}
  BY DEF Typed, Grows
<1>3. Times(s, q) <= W[q]
  BY <1>1, <1>2, EmptyHistory DEF Bounded
<1>4. <<r>> \o s \in Histories
  BY InFront
<1>5. Times(s, q) \in Nat /\ Times(<<r>> \o s, q) \in Nat /\ Times(v, q) \in Nat
  BY <1>1, <1>4, NewestCut, TimesType
<1>6. Times(v, q) <= Times(<<r>> \o s, q)
  BY <1>1, <1>4, TimesCut
<1>7. /\ Times(<<r>> \o s, q) <= Times(s, q) + 1
      /\ q # r => Times(<<r>> \o s, q) <= Times(s, q)
  BY TimesFront
<1> QED
  BY <1>1, <1>2, <1>3, <1>5, <1>6, <1>7

LEMMA DataBound ==
    ASSUME NEW k, NEW d, NEW a, NEW h, NEW S, NEW W, NEW kk, NEW dd, NEW T, NEW V,
           Bounded(k, d, a, h, S, W), Typed(d, a, h, S, W),
           T \in [Requests -> Nat], V \in [Requests -> Nat], Grows(S, T), Grows(W, V),
           \A r \in Requests : W[r] <= S[r] /\ V[r] <= T[r],
           DataMove(k, d, h, S, kk, dd, T), NEW t \in Tokens, NEW q \in Requests
    PROVE  /\ kk[t] = "list" => Times(dd[t], q) <= T[q]
           /\ kk[t] # "list" => Times(dd[t], q) <= V[q]
<1>1. /\ S[q] \in Nat /\ T[q] \in {S[q], S[q] + 1} /\ W[q] \in Nat /\ V[q] \in {W[q], W[q] + 1}
      /\ V[q] <= T[q] /\ W[q] <= S[q]
  BY DEF Typed, Grows
<1>2. d[t] \in Histories /\ Times(d[t], q) \in Nat
  BY TimesType DEF Typed
<1>3. /\ k[t] = "list" => Times(d[t], q) <= S[q]
      /\ k[t] # "list" => Times(d[t], q) <= W[q]
      /\ k[t] = "none" => d[t] = <<>>
  BY DEF Bounded
<1>4. CASE dd[t] = d[t] /\ kk[t] = k[t]
  BY <1>1, <1>2, <1>3, <1>4
<1>5. CASE dd[t] = <<>>
  <2>1. Times(dd[t], q) = 0
    BY <1>5, EmptyHistory
  <2> QED
    BY <1>1, <2>1
<1>6. CASE k[t] = "list" /\ kk[t] = "list" /\ dd[t] = Newest(d[t])
  <2>1. Times(dd[t], q) \in Nat /\ Times(dd[t], q) <= Times(d[t], q)
    BY <1>2, <1>6, NewestCut, TimesCut, TimesType
  <2> QED
    BY <1>1, <1>2, <1>3, <1>6, <2>1
<1>7. CASE \E r \in Requests : /\ k[t] # "string" /\ kk[t] = "list"
                               /\ dd[t] = <<r>> \o d[t] /\ T[r] = S[r] + 1
  <2>1. PICK r \in Requests : k[t] # "string" /\ kk[t] = "list" /\ dd[t] = <<r>> \o d[t] /\ T[r] = S[r] + 1
    BY <1>7
  <2>2. /\ Times(dd[t], q) <= Times(d[t], q) + 1
        /\ q # r => Times(dd[t], q) <= Times(d[t], q)
    BY <1>2, <2>1, TimesFront
  <2>3. Times(dd[t], q) \in Nat
    BY <1>2, <2>1, InFront, TimesType
  <2>4. Times(d[t], q) <= S[q]
    BY <1>1, <1>2, <1>3
  <2> QED
    BY <1>1, <1>2, <2>1, <2>2, <2>3, <2>4
<1>8. CASE kk[t] = "string" /\ \E r \in Requests : dd[t] = h[r]
  <2>1. PICK r \in Requests : dd[t] = h[r]
    BY <1>8
  <2>2. Times(h[r], q) \in Nat /\ Times(h[r], q) <= W[q]
    BY TimesType DEF Bounded, Typed
  <2> QED
    BY <1>1, <1>8, <2>1, <2>2
<1> QED
  BY <1>4, <1>5, <1>6, <1>7, <1>8 DEF DataMove

LEMMA BoundedMove ==
    ASSUME NEW k, NEW d, NEW a, NEW h, NEW S, NEW W,
           NEW kk, NEW dd, NEW aa, NEW hh, NEW T, NEW V,
           Bounded(k, d, a, h, S, W), Typed(d, a, h, S, W), Typed(dd, aa, hh, T, V),
           Grows(S, T), Grows(W, V), \A r \in Requests : W[r] <= S[r] /\ V[r] <= T[r],
           DataMove(k, d, h, S, kk, dd, T), ArrayMove(k, d, a, h, W, aa, hh, V),
           \A t \in Tokens : kk[t] = "none" => dd[t] = <<>>
    PROVE  Bounded(kk, dd, aa, hh, T, V)
<1>1. T \in [Requests -> Nat] /\ V \in [Requests -> Nat]
  BY DEF Typed
<1>2. ASSUME NEW t \in Tokens, NEW q \in Requests
      PROVE  /\ kk[t] = "list" => Times(dd[t], q) <= T[q]
             /\ kk[t] # "list" => Times(dd[t], q) <= V[q]
  BY <1>1, DataBound
<1>3. ASSUME NEW v, NEW old \in Histories, NEW q \in Requests, Times(old, q) <= W[q],
             v \in {old, <<>>} \/ Unshifts(k, d, a, W, V, v)
      PROVE  Times(v, q) <= V[q]
  <2>1. W[q] \in Nat /\ V[q] \in {W[q], W[q] + 1} /\ Times(old, q) \in Nat /\ Times(<<>>, q) = 0
    BY TimesType, EmptyHistory DEF Typed, Grows
  <2>2. CASE v \in {old, <<>>}
    BY <1>3, <2>1, <2>2
  <2>3. CASE Unshifts(k, d, a, W, V, v)
    BY <1>1, <2>3, UnshiftBound
  <2> QED
    BY <1>3, <2>2, <2>3
<1>4. \A o \in Arrays, q \in Requests : Times(aa[o], q) <= V[q]
  BY <1>3 DEF ArrayMove, Bounded, Typed
<1>5. \A r, q \in Requests : Times(hh[r], q) <= V[q]
  BY <1>3 DEF ArrayMove, Bounded, Typed
<1> QED
  BY <1>2, <1>4, <1>5 DEF Bounded

CountsOK ==
    /\ Sent \in [Requests -> Nat] /\ Written \in [Requests -> Nat]
    /\ \A r \in Requests : Written[r] <= Sent[r] /\ Sent[r] <= 1 + resent[r]

LEMMA CountsType == PlaygroundTypeOK => CountsOK
<1> SUFFICES ASSUME PlaygroundTypeOK PROVE CountsOK
  OBVIOUS
<1>1. \A r \in Requests : resent[r] \in Nat
  BY PlaygroundAssumption DEF PlaygroundTypeOK, PlaygroundAssumption
<1>2. \A r \in Requests : /\ Written[r] \in {0, 1}
                          /\ Written[r] = 1 => pc[r] \notin Unsent
                          /\ Sent[r] = resent[r] + IF pc[r] \in Unsent THEN 0 ELSE 1
  BY DEF Sent, Written, Unread
<1> QED
  BY <1>1, <1>2 DEF Sent, Written, CountsOK

LEMMA CountsTypeNext == PlaygroundTypeOK' => CountsOK'
BY CountsType, PTL

\* A step that moves the histories in these ways keeps the bound.
LEMMA StoreMove ==
    ASSUME PlaygroundTypeOK, PlaygroundTypeOK', StoreBound,
           Grows(Sent, Sent'), Grows(Written, Written'),
           DataMove(kind, data, arr, Sent, kind', data', Sent'),
           ArrayMove(kind, data, array, arr, Written, array', arr', Written'),
           \A t \in Tokens : kind'[t] = "none" => data'[t] = <<>>
    PROVE  StoreBound'
<1>1. Typed(data, array, arr, Sent, Written) /\ Typed(data', array', arr', Sent', Written')
  BY CountsType, CountsTypeNext DEF Typed, CountsOK, PlaygroundTypeOK
<1>2. \A r \in Requests : Written[r] <= Sent[r] /\ Written'[r] <= Sent'[r]
  BY CountsType, CountsTypeNext DEF CountsOK
<1> QED
  BY <1>1, <1>2, BoundedMove DEF StoreBound

\* A handler goes on; no handler goes back.
LEMMA Counting ==
    ASSUME PlaygroundTypeOK, NEW r \in Requests, NEW d, pc' = [pc EXCEPT ![r] = d], UNCHANGED resent,
           pc[r] \in Unsent \/ d \notin Unsent, pc[r] \in Unread \/ d \notin Unread
    PROVE  /\ Grows(Sent, Sent') /\ Grows(Written, Written')
           /\ pc[r] \in Unsent /\ d \notin Unsent => Sent'[r] = Sent[r] + 1
           /\ pc[r] \in Unread /\ d \notin Unread => Written'[r] = Written[r] + 1
<1>1. \A q \in Requests : resent[q] \in Nat
  BY PlaygroundAssumption DEF PlaygroundTypeOK, PlaygroundAssumption
<1>2. \A q \in Requests : /\ Sent[q] = resent[q] + IF pc[q] \in Unsent THEN 0 ELSE 1
                          /\ Written[q] = IF pc[q] \in Unread THEN 0 ELSE 1
  BY DEF Sent, Written
<1>3. \A q \in Requests : /\ Sent'[q] = resent[q] + IF pc'[q] \in Unsent THEN 0 ELSE 1
                          /\ Written'[q] = IF pc'[q] \in Unread THEN 0 ELSE 1
  BY DEF Sent, Written
<1>4. \A q \in Requests : pc'[q] = IF q = r THEN d ELSE pc[q]
  BY DEF PlaygroundTypeOK
<1>5. \A q \in Requests : Sent'[q] \in {Sent[q], Sent[q] + 1}
  BY <1>1, <1>2, <1>3, <1>4
<1>6. \A q \in Requests : Written'[q] \in {Written[q], Written[q] + 1}
  BY <1>2, <1>3, <1>4
<1>7. /\ pc[r] \in Unsent /\ d \notin Unsent => Sent'[r] = Sent[r] + 1
      /\ pc[r] \in Unread /\ d \notin Unread => Written'[r] = Written[r] + 1
  BY <1>1, <1>2, <1>3, <1>4
<1> QED
  BY <1>5, <1>6, <1>7 DEF Grows

LEMMA StoreBoundStep ==
    TypeInv /\ PlaygroundTypeOK' /\ StoreBound /\ [PlaygroundNext]_pvars => StoreBound'
<1> SUFFICES ASSUME PlaygroundTypeOK, PlaygroundAddressed, PlaygroundTypeOK', StoreBound,
                    [PlaygroundNext]_pvars
             PROVE  StoreBound'
  BY DEF TypeInv
<1>none. \A t \in Tokens : kind[t] = "none" => data[t] = <<>>
  BY DEF StoreBound, Bounded
<1>frame. ASSUME UNCHANGED <<storeVars, pc, arr, resent>> PROVE StoreBound'
  BY <1>frame DEF StoreBound, Sent, Written, storeVars
<1>data. ASSUME UNCHANGED <<kind, data>>
         PROVE  /\ DataMove(kind, data, arr, Sent, kind', data', Sent')
                /\ \A t \in Tokens : kind'[t] = "none" => data'[t] = <<>>
  BY <1>data, <1>none DEF DataMove
<1>arrays. ASSUME \A o \in Arrays : array'[o] \in {array[o], <<>>},
                  \A p \in Requests : arr'[p] \in {arr[p], <<>>}
           PROVE  ArrayMove(kind, data, array, arr, Written, array', arr', Written')
  BY <1>arrays DEF ArrayMove
<1>same. ASSUME UNCHANGED <<pc, resent>> PROVE Grows(Sent, Sent') /\ Grows(Written, Written')
  BY <1>same DEF Grows, Sent, Written
<1>on. ASSUME NEW r \in Requests, NEW d, pc' = [pc EXCEPT ![r] = d],
              pc[r] \in Unsent \/ d \notin Unsent, pc[r] \in Unread \/ d \notin Unread,
              UNCHANGED <<storeVars, arr, resent>>
       PROVE  StoreBound'
  BY <1>on, <1>data, <1>arrays, Counting, StoreMove DEF storeVars
<1>push. ASSUME NEW r \in Requests, pc[r] # "idle", Push(r), UNCHANGED <<array, arr>>,
                Grows(Sent, Sent'), Grows(Written, Written'), Sent'[r] = Sent[r] + 1
         PROVE  StoreBound'
  <2>1. to[r] \in Tokens
    BY <1>push DEF PlaygroundAddressed, PlaygroundTypeOK
  <2>2. /\ kind[to[r]] # "string" /\ kind' = [kind EXCEPT ![to[r]] = "list"]
        /\ data' = [data EXCEPT ![to[r]] = <<r>> \o data[to[r]]]
    BY <1>push DEF Push, SetKey
  <2>3. /\ kind'[to[r]] = "list" /\ data'[to[r]] = <<r>> \o data[to[r]]
        /\ \A t \in Tokens \ {to[r]} : kind'[t] = kind[t] /\ data'[t] = data[t]
    BY <2>1, <2>2 DEF PlaygroundTypeOK
  <2>4. DataMove(kind, data, arr, Sent, kind', data', Sent')
    <3> SUFFICES ASSUME NEW t \in Tokens
                 PROVE  \/ data'[t] = data[t] /\ kind'[t] = kind[t]
                        \/ \E q \in Requests : /\ kind[t] # "string" /\ kind'[t] = "list"
                                               /\ data'[t] = <<q>> \o data[t] /\ Sent'[q] = Sent[q] + 1
      BY Zenon DEF DataMove
    <3> QED
      BY <1>push, <2>2, <2>3
  <2>5. \A t \in Tokens : kind'[t] = "none" => data'[t] = <<>>
    BY <1>none, <2>3
  <2> QED
    BY <1>push, <1>arrays, <2>4, <2>5, StoreMove
<1>pushlist. ASSUME NEW r \in Requests, PushList(r) PROVE StoreBound'
  <2>1. /\ pc[r] = "read" /\ pc' = [pc EXCEPT ![r] = After(r)] /\ Push(r)
        /\ UNCHANGED <<array, arr, resent>>
    BY <1>pushlist DEF PushList, At
  <2>2. After(r) \notin Unsent /\ After(r) \notin Unread /\ pc[r] \in Unsent
    BY <2>1 DEF After, Unsent, Unread
  <2> QED
    BY <1>push, <2>1, <2>2, Counting
<1>pushfails. ASSUME NEW r \in Requests, PushFails(r) PROVE StoreBound'
  <2>1. /\ pc[r] = "read" /\ pc' = [pc EXCEPT ![r] = "fallback"] /\ UNCHANGED <<memory, array, arr, resent>>
        /\ Push(r) \/ UNCHANGED <<kind, data>>
    BY <1>pushfails DEF PushFails, At
  <2>2. pc[r] \in Unsent /\ pc[r] \in Unread /\ "fallback" \notin Unsent
    BY <2>1 DEF Unsent, Unread
  <2>3. CASE Push(r)
    BY <1>push, <2>1, <2>2, <2>3, Counting
  <2>4. CASE UNCHANGED <<kind, data>>
    BY <1>on, <2>1, <2>2, <2>4 DEF storeVars
  <2> QED
    BY <2>1, <2>3, <2>4
<1>pushagain. ASSUME NEW r \in Requests, PushAgain(r) PROVE StoreBound'
  <2>1. /\ pc[r] = "read" /\ Push(r) /\ UNCHANGED <<pc, array, arr>>
        /\ resent' = [resent EXCEPT ![r] = @ + 1]
    BY <1>pushagain DEF PushAgain
  <2>2. \A q \in Requests : resent[q] \in Nat
    BY PlaygroundAssumption DEF PlaygroundTypeOK, PlaygroundAssumption
  <2>3. \A q \in Requests : resent'[q] = IF q = r THEN resent[q] + 1 ELSE resent[q]
    BY <2>1 DEF PlaygroundTypeOK
  <2>4. \A q \in Requests : Sent[q] = resent[q] + IF pc[q] \in Unsent THEN 0 ELSE 1
    BY DEF Sent
  <2>5. \A q \in Requests : Sent'[q] = resent'[q] + IF pc[q] \in Unsent THEN 0 ELSE 1
    BY <2>1 DEF Sent
  <2>6. Grows(Sent, Sent') /\ Sent'[r] = Sent[r] + 1
    BY <2>2, <2>3, <2>4, <2>5 DEF Grows
  <2>7. Grows(Written, Written')
    BY <2>1 DEF Grows, Written
  <2> QED
    BY <1>push, <2>1, <2>6, <2>7
<1>read. ASSUME NEW r \in Requests, ReadHistory(r) PROVE StoreBound'
  <2>1. /\ pc[r] = "fallback" /\ pc' = [pc EXCEPT ![r] = "got"] /\ UNCHANGED <<kind, data, memory, resent>>
        /\ to[r] \in Tokens
    BY <1>read DEF ReadHistory, At, PlaygroundAddressed, PlaygroundTypeOK
  <2>2. PICK o \in Arrays, s \in Histories :
           /\ Unshift(r, o, s)
           /\ \/ s = <<>>
              \/ \E t \in Tokens : kind[t] # "list" /\ s = data[t]
              \/ \E b \in Arrays : s = array[b]
    <3>1. r \in Arrays /\ (memory[to[r]] # None => memory[to[r]] \in Arrays)
      BY <2>1 DEF Arrays, PlaygroundTypeOK
    <3>2. data[to[r]] \in Histories /\ Remembered(to[r]) \in Histories
      BY <2>1, ReadsHistories DEF PlaygroundTypeOK
    <3>3. CASE kind[to[r]] # "list" /\ Unshift(r, r, data[to[r]])
      BY <2>1, <3>1, <3>2, <3>3
    <3>4. CASE Unshift(r, IF memory[to[r]] = None THEN r ELSE memory[to[r]], Remembered(to[r]))
      BY <2>1, <3>1, <3>2, <3>4 DEF Remembered
    <3> QED
      BY <1>read, <3>3, <3>4 DEF ReadHistory
  <2> DEFINE v == Newest(<<r>> \o s)
  <2>3. /\ Grows(Sent, Sent') /\ Grows(Written, Written') /\ Written'[r] = Written[r] + 1
    <3>1. "fallback" \in Unread /\ "fallback" \notin Unsent /\ "got" \notin Unread /\ "got" \notin Unsent
      BY DEF Unread, Unsent
    <3> QED
      BY <2>1, <3>1, Counting
  <2>4. Unshifts(kind, data, array, Written, Written', v)
    BY <2>2, <2>3 DEF Unshifts
  <2>5. /\ \A b \in Arrays : array'[b] \in {array[b], v}
        /\ \A p \in Requests : arr'[p] \in {arr[p], v}
    BY <2>2 DEF Unshift, PlaygroundTypeOK
  <2> HIDE DEF v
  <2>6. ArrayMove(kind, data, array, arr, Written, array', arr', Written')
    BY <2>4, <2>5 DEF ArrayMove
  <2> QED
    BY <1>data, <2>1, <2>3, <2>6, StoreMove
<1>set. ASSUME NEW r \in Requests, NEW t \in Tokens,
               SetKey(t, "string", arr[r]) \/ UNCHANGED <<kind, data>>
        PROVE  /\ DataMove(kind, data, arr, Sent, kind', data', Sent')
               /\ \A u \in Tokens : kind'[u] = "none" => data'[u] = <<>>
  <2>1. \A u \in Tokens : \/ kind'[u] = kind[u] /\ data'[u] = data[u]
                          \/ kind'[u] = "string" /\ data'[u] = arr[r]
    BY <1>set DEF SetKey, PlaygroundTypeOK
  <2>2. DataMove(kind, data, arr, Sent, kind', data', Sent')
    BY <2>1, Zenon DEF DataMove
  <2> QED
    BY <1>none, <2>1, <2>2
<1>write. ASSUME NEW r \in Requests, WriteHistory(r) PROVE StoreBound'
  <2>1. /\ to[r] \in Tokens /\ pc[r] = "got" /\ pc' = [pc EXCEPT ![r] = After(r)]
        /\ arr' = [arr EXCEPT ![r] = <<>>] /\ Collect(array) /\ UNCHANGED resent
        /\ SetKey(to[r], "string", arr[r]) \/ UNCHANGED <<kind, data>>
    BY <1>write DEF WriteHistory, At, PlaygroundAddressed, PlaygroundTypeOK, Set, SetFails
  <2>2. After(r) \notin Unsent /\ After(r) \notin Unread
    BY DEF After, Unsent, Unread
  <2>3. ArrayMove(kind, data, array, arr, Written, array', arr', Written')
    BY <1>arrays, <2>1, CollectType DEF PlaygroundTypeOK
  <2>4. Grows(Sent, Sent') /\ Grows(Written, Written')
    BY <2>1, <2>2, Counting
  <2> QED
    BY <1>set, <2>1, <2>3, <2>4, StoreMove
<1>again. ASSUME NEW r \in Requests, WriteAgain(r) PROVE StoreBound'
  <2>1. /\ to[r] \in Tokens /\ SetKey(to[r], "string", arr[r]) /\ UNCHANGED <<pc, resent, array, arr>>
    BY <1>again DEF WriteAgain, captureVars, PlaygroundAddressed, PlaygroundTypeOK, Set
  <2>2. ArrayMove(kind, data, array, arr, Written, array', arr', Written')
    BY <1>arrays, <2>1
  <2> QED
    BY <1>set, <1>same, <2>1, <2>2, StoreMove
<1>trim. ASSUME NEW r \in Requests, Trim(r) PROVE StoreBound'
  <2>1. /\ pc[r] = "trim" /\ pc' = [pc EXCEPT ![r] = "done"] /\ UNCHANGED <<kind, array, arr, resent>>
        /\ \/ kind[to[r]] = "list" /\ data' = [data EXCEPT ![to[r]] = Newest(@)]
           \/ UNCHANGED data
    BY <1>trim DEF Trim, At
  <2>2. \A t \in Tokens : \/ data'[t] = data[t]
                          \/ kind[t] = "list" /\ data'[t] = Newest(data[t])
    BY <2>1 DEF PlaygroundTypeOK
  <2>3. DataMove(kind, data, arr, Sent, kind', data', Sent')
    BY <2>1, <2>2 DEF DataMove
  <2>4. \A t \in Tokens : kind'[t] = "none" => data'[t] = <<>>
    BY <1>none, <2>1, <2>2
  <2>5. ArrayMove(kind, data, array, arr, Written, array', arr', Written')
    BY <1>arrays, <2>1
  <2>6. "done" \notin Unsent /\ "done" \notin Unread
    BY DEF Unsent, Unread
  <2>7. Grows(Sent, Sent') /\ Grows(Written, Written')
    BY <2>1, <2>6, Counting
  <2> QED
    BY <2>3, <2>4, <2>5, <2>7, StoreMove
<1>crash. ASSUME NEW r \in Requests, Crash(r) PROVE StoreBound'
  <2>1. /\ pc' = [pc EXCEPT ![r] = "dead"] /\ UNCHANGED <<kind, data, resent>>
        /\ arr' = [arr EXCEPT ![r] = <<>>] /\ Collect(array)
    BY <1>crash DEF Crash
  <2>2. "dead" \notin Unsent /\ "dead" \notin Unread
    BY DEF Unsent, Unread
  <2>3. ArrayMove(kind, data, array, arr, Written, array', arr', Written')
    BY <1>arrays, <2>1, CollectType DEF PlaygroundTypeOK
  <2>4. Grows(Sent, Sent') /\ Grows(Written, Written')
    BY <2>1, <2>2, Counting
  <2> QED
    BY <1>data, <2>1, <2>3, <2>4, StoreMove
<1>restart. CASE Restart
  <2>1. /\ \A q \in Requests : pc'[q] = IF pc[q] \in Ended THEN pc[q] ELSE "dead"
        /\ UNCHANGED <<kind, data, resent>>
        /\ array' = [o \in Arrays |-> <<>>] /\ arr' = [q \in Requests |-> <<>>]
    BY <1>restart DEF Restart
  <2>2. ArrayMove(kind, data, array, arr, Written, array', arr', Written')
    BY <1>arrays, <2>1
  <2>3. "dead" \notin Unsent /\ "dead" \notin Unread
    BY DEF Unsent, Unread
  <2>4. \A q \in Requests : resent[q] \in Nat
    BY PlaygroundAssumption DEF PlaygroundTypeOK, PlaygroundAssumption
  <2>5. \A q \in Requests : /\ Sent[q] = resent[q] + IF pc[q] \in Unsent THEN 0 ELSE 1
                            /\ Sent'[q] = resent[q] + IF pc'[q] \in Unsent THEN 0 ELSE 1
    BY <2>1 DEF Sent
  <2>6. Grows(Sent, Sent')
    BY <2>1, <2>3, <2>4, <2>5 DEF Grows
  <2>7. Grows(Written, Written')
    BY <2>1, <2>3 DEF Grows, Written
  <2> QED
    BY <1>data, <2>1, <2>2, <2>6, <2>7, StoreMove
<1>early. ASSUME NEW r \in Requests,
                 (\E t \in Tokens : Receive(r, t)) \/ Send(r) \/ SetWindow(r) \/ BuildRecord(r)
                   \/ PushString(r)
          PROVE  StoreBound'
  <2>1. \E d \in Unread : pc' = [pc EXCEPT ![r] = d] /\ (pc[r] \in Unsent \/ d \notin Unsent)
    <3>1. pc[r] \in Unsent
      BY <1>early DEF Receive, Send, Call, SetWindow, BuildRecord, PushString, At, Unsent
    <3>2. \E d \in {"first", "admitted", "refused", "read", "fallback"} : pc' = [pc EXCEPT ![r] = d]
      <4>1. CASE (\E t \in Tokens : Receive(r, t)) \/ Send(r)
        BY <4>1 DEF Receive, Send, Call, Counted
      <4>2. CASE SetWindow(r) \/ BuildRecord(r) \/ PushString(r)
        BY <4>2 DEF SetWindow, BuildRecord, PushString, At
      <4> QED
        BY <1>early, <4>1, <4>2
    <3>3. {"first", "admitted", "refused", "read", "fallback"} \subseteq Unread
      BY DEF Unread, Unsent
    <3> QED
      BY <3>1, <3>2, <3>3
  <2>2. pc[r] \in Unread /\ UNCHANGED <<storeVars, arr, resent>>
    BY <1>early DEF Receive, Send, Call, SetWindow, BuildRecord, PushString, At, Unsent, Unread
  <2> QED
    BY <1>on, <2>1, <2>2
<1>capture. ASSUME NEW r \in Requests, CaptureStep(r) PROVE StoreBound'
  BY <1>capture, <1>early, <1>pushlist, <1>pushagain, <1>pushfails, <1>read, <1>write, <1>again,
     <1>trim, <1>crash DEF CaptureStep
<1>empty. ASSUME NEW t \in Tokens, IssueToken(t) \/ Delete(t) \/ Expires(t) PROVE StoreBound'
  <2>1. \A u \in Tokens : (data'[u] = data[u] /\ kind'[u] = kind[u]) \/ data'[u] = <<>>
    BY <1>empty DEF IssueToken, Delete, Expires, Set, SetFails, SetKey, PlaygroundTypeOK
  <2>2. UNCHANGED <<pc, arr, resent>> /\ (UNCHANGED array \/ Collect(array))
    BY <1>empty DEF IssueToken, Delete, Expires, captureVars
  <2>3. ArrayMove(kind, data, array, arr, Written, array', arr', Written')
    BY <1>arrays, <2>2, CollectType
  <2>4. DataMove(kind, data, arr, Sent, kind', data', Sent')
    BY <2>1, Zenon DEF DataMove
  <2>5. \A u \in Tokens : kind'[u] = "none" => data'[u] = <<>>
    BY <1>none, <2>1
  <2> QED
    BY <1>same, <2>2, <2>3, <2>4, <2>5, StoreMove
<1>page. CASE PageStep
  <2>1. UNCHANGED <<storeVars, pc, arr, resent>>
    BY <1>page DEF PageStep, GenerateToken, TokenArrives, TokenFails, NewSession, Reload, Poll,
       AnswerPoll, PollArrives, PollFails, SendAnswered, SendFails, ClearAll, captureVars
  <2> QED
    BY <1>frame, <2>1
<1>rest. CASE Tick \/ WindowOver \/ UNCHANGED pvars
  BY <1>rest, <1>frame DEF Tick, WindowOver, pvars, captureVars
<1> QED
  BY <1>capture, <1>restart, <1>empty, <1>page, <1>rest DEF PlaygroundNext

-----------------------------------------------------------------------------
(* A record is listed at most as often as it was sent: an answer holds it  *)
(* no more often than the history, and one that is in the list already is  *)
(* left out.                                                               *)

Listed(sh, po, re) ==
    /\ \A p \in Polls, r \in Requests : Times(po[p].requests, r) <= 1 + re[r]
    /\ \A r \in Requests : sh[r] <= 1 + re[r]

ScreenBound == Listed(shown, poll, resent)

\* What is read of a history holds a record at most once for each time it was sent.
LEMMA AnswerBound ==
    ASSUME PlaygroundTypeOK, StoreBound, NEW t \in Tokens, NEW s \in Ranged(t), NEW q \in Requests
    PROVE  Times(s, q) <= 1 + resent[q]
<1>1. PICK h \in {data[t], Remembered(t)} : s = Newest(h)
  BY DEF Ranged
<1>2. h \in Histories
  BY <1>1, ReadsHistories DEF PlaygroundTypeOK
<1>3. resent[q] \in Nat /\ Sent[q] \in Nat /\ Written[q] \in Nat
      /\ Written[q] <= Sent[q] /\ Sent[q] <= 1 + resent[q]
  BY CountsType, PlaygroundAssumption DEF CountsOK, PlaygroundTypeOK, PlaygroundAssumption
<1>4. Times(h, q) <= Sent[q]
  <2>1. Times(data[t], q) <= Sent[q]
    <3>1. Times(data[t], q) \in Nat
      BY TimesType DEF PlaygroundTypeOK
    <3>2. Times(data[t], q) <= Sent[q] \/ Times(data[t], q) <= Written[q]
      BY DEF StoreBound, Bounded
    <3> QED
      BY <1>3, <3>1, <3>2
  <2>2. Times(Remembered(t), q) <= Sent[q]
    <3>1. CASE memory[t] = None
      BY <1>3, <3>1, EmptyHistory DEF Remembered
    <3>2. CASE memory[t] # None
      <4>1. memory[t] \in Arrays /\ Remembered(t) = array[memory[t]]
        BY <3>2 DEF PlaygroundTypeOK, Remembered
      <4>2. Times(array[memory[t]], q) <= Written[q] /\ Times(array[memory[t]], q) \in Nat
        BY <4>1, TimesType DEF StoreBound, Bounded, PlaygroundTypeOK
      <4> QED
        BY <1>3, <4>1, <4>2
    <3> QED
      BY <3>1, <3>2
  <2> QED
    BY <1>1, <2>1, <2>2
<1>5. Times(s, q) <= Times(h, q) /\ Times(s, q) \in Nat /\ Times(h, q) \in Nat
  BY <1>1, <1>2, NewestCut, TimesCut, TimesType
<1> QED
  BY <1>3, <1>4, <1>5

LEMMA ScreenBoundStep ==
    TypeInv /\ PlaygroundTypeOK' /\ StoreBound /\ ScreenBound /\ [PlaygroundNext]_pvars => ScreenBound'
<1> SUFFICES ASSUME PlaygroundTypeOK, PlaygroundAddressed, PlaygroundTypeOK', StoreBound, ScreenBound,
                    [PlaygroundNext]_pvars
             PROVE  ScreenBound'
  BY DEF TypeInv
<1>nat. \A r \in Requests : resent[r] \in Nat /\ shown[r] \in Nat
  BY PlaygroundAssumption DEF PlaygroundTypeOK, PlaygroundAssumption
<1>frame. ASSUME UNCHANGED <<shown, poll, resent>> PROVE ScreenBound'
  BY <1>frame DEF ScreenBound, Listed
<1>to. ASSUME Listed(shown', poll', resent), UNCHANGED resent PROVE ScreenBound'
  BY <1>to DEF ScreenBound
<1>polls. ASSUME \A p \in Polls : poll'[p].requests \in {poll[p].requests, <<>>},
                 \A r \in Requests : shown'[r] = shown[r] \/ shown'[r] \in {0, 1},
                 UNCHANGED resent
          PROVE  ScreenBound'
  <2>1. \A p \in Polls, r \in Requests : Times(poll'[p].requests, r) <= 1 + resent[r]
    BY <1>polls, <1>nat, EmptyHistory DEF ScreenBound, Listed
  <2>2. \A r \in Requests : shown'[r] <= 1 + resent[r]
    BY <1>polls, <1>nat DEF ScreenBound, Listed
  <2> QED
    BY <1>polls, <1>to, <2>1, <2>2 DEF Listed
<1>free. FreePoll.requests = <<>>
  BY DEF FreePoll
<1>reload. CASE Reload
  BY <1>reload, <1>polls, <1>free DEF Reload, captureVars
<1>poll. ASSUME NEW p \in Polls, Poll(p) PROVE ScreenBound'
  <2>1. \A q \in Polls : poll'[q].requests \in {poll[q].requests, <<>>}
    BY <1>poll DEF Poll, PlaygroundTypeOK
  <2> QED
    BY <1>poll, <1>polls, <2>1 DEF Poll, captureVars
<1>answer. ASSUME NEW p \in Polls, AnswerPoll(p) PROVE ScreenBound'
  <2>1. poll[p].token \in Tokens
    BY <1>answer DEF AnswerPoll, PlaygroundAddressed, PlaygroundTypeOK
  <2>2. PICK s \in Ranged(poll[p].token) :
           poll' = [poll EXCEPT ![p] = [phase |-> "answered", token |-> @.token, since |-> @.since,
                                        requests |-> IF page = "public" THEN s ELSE <<>>]]
    BY <1>answer DEF AnswerPoll
  <2>3. \A r \in Requests : Times(s, r) <= 1 + resent[r] /\ Times(<<>>, r) <= 1 + resent[r]
    BY <1>nat, <2>1, AnswerBound, EmptyHistory
  <2>4. \A q \in Polls : poll'[q].requests \in {poll[q].requests, s, <<>>}
    BY <2>2 DEF PlaygroundTypeOK
  <2>5. UNCHANGED <<shown, resent>>
    BY <1>answer DEF AnswerPoll, captureVars
  <2>6. Listed(shown', poll', resent)
    BY <2>3, <2>4, <2>5 DEF ScreenBound, Listed
  <2> QED
    BY <1>to, <2>5, <2>6
<1>arrives. ASSUME NEW p \in Polls, PollArrives(p) PROVE ScreenBound'
  <2> DEFINE copies == [r \in Requests |-> Copies(p, r)]
  <2>1. \A r \in Requests : copies[r] <= 1 + resent[r]
    BY <1>nat DEF ScreenBound, Listed, Copies
  <2>2. poll' = [poll EXCEPT ![p] = FreePoll] /\ shown' = Merged(copies) /\ UNCHANGED resent
    BY <1>arrives DEF PollArrives, captureVars
  <2> HIDE DEF copies
  <2>3. \A r \in Requests : shown'[r] \in {shown[r], copies[r]}
    BY <2>2 DEF Merged
  <2>4. \A q \in Polls : poll'[q].requests \in {poll[q].requests, <<>>}
    BY <1>free, <2>2 DEF PlaygroundTypeOK
  <2>5. \A r \in Requests : shown'[r] <= 1 + resent[r]
    BY <2>1, <2>3 DEF ScreenBound, Listed
  <2>6. \A q \in Polls, r \in Requests : Times(poll'[q].requests, r) <= 1 + resent[r]
    BY <1>nat, <2>4, EmptyHistory DEF ScreenBound, Listed
  <2> QED
    BY <1>to, <2>2, <2>5, <2>6 DEF Listed
<1>fails. ASSUME NEW p \in Polls, PollFails(p) PROVE ScreenBound'
  <2>1. \A q \in Polls : poll'[q].requests \in {poll[q].requests, <<>>}
    BY <1>fails, <1>free DEF PollFails, PlaygroundTypeOK
  <2> QED
    BY <1>fails, <1>polls, <2>1 DEF PollFails, captureVars
<1>sent. CASE SendAnswered
  <2>1. \A r \in Requests : shown'[r] = shown[r] \/ shown'[r] \in {0, 1}
    BY <1>sent DEF SendAnswered, Merged
  <2> QED
    BY <1>sent, <1>polls, <2>1 DEF SendAnswered, captureVars
<1>page. CASE PageStep
  <2>1. CASE GenerateToken \/ TokenArrives \/ TokenFails \/ SendFails
    BY <2>1, <1>frame DEF GenerateToken, TokenArrives, TokenFails, SendFails, screenVars, captureVars
  <2>2. CASE NewSession \/ ClearAll
    BY <2>2, <1>polls DEF NewSession, ClearAll, captureVars
  <2> QED
    BY <1>page, <1>reload, <1>poll, <1>answer, <1>arrives, <1>fails, <1>sent, <2>1, <2>2 DEF PageStep
<1>again. ASSUME NEW r \in Requests, PushAgain(r) PROVE ScreenBound'
  <2>1. resent' = [resent EXCEPT ![r] = resent[r] + 1] /\ UNCHANGED <<shown, poll>>
    BY <1>again DEF PushAgain, pageVars, screenVars
  <2>2. \A q \in Requests : resent'[q] \in {resent[q], resent[q] + 1}
    BY <2>1 DEF PlaygroundTypeOK
  <2>3. \A q \in Requests : shown[q] <= 1 + resent'[q]
    BY <1>nat, <2>2 DEF ScreenBound, Listed
  <2>4. ASSUME NEW p \in Polls, NEW q \in Requests PROVE Times(poll[p].requests, q) <= 1 + resent'[q]
    <3>1. Times(poll[p].requests, q) <= 1 + resent[q] /\ Times(poll[p].requests, q) \in Nat
      BY TimesType DEF ScreenBound, Listed, PlaygroundTypeOK
    <3> QED
      BY <1>nat, <2>2, <3>1
  <2>5. Listed(shown, poll, resent')
    BY <2>3, <2>4 DEF Listed
  <2> QED
    BY <2>1, <2>5 DEF ScreenBound
<1>capture. ASSUME NEW r \in Requests, CaptureStep(r) PROVE ScreenBound'
  <2>1. CASE \/ \E t \in Tokens : Receive(r, t)
             \/ Send(r)
    BY <2>1, <1>frame DEF Receive, Send, Call
  <2>2. CASE SetWindow(r) \/ BuildRecord(r) \/ PushList(r) \/ PushString(r) \/ PushFails(r)
    BY <2>2, <1>frame DEF SetWindow, BuildRecord, PushList, PushString, PushFails, pageVars, screenVars
  <2>3. CASE ReadHistory(r) \/ WriteHistory(r) \/ WriteAgain(r) \/ Trim(r) \/ Crash(r)
    BY <2>3, <1>frame DEF ReadHistory, WriteHistory, WriteAgain, Trim, Crash, captureVars, pageVars,
       screenVars
  <2> QED
    BY <1>capture, <1>again, <2>1, <2>2, <2>3 DEF CaptureStep
<1>rest. CASE \/ Tick \/ WindowOver \/ Restart \/ UNCHANGED pvars
              \/ \E t \in Tokens : IssueToken(t) \/ Delete(t) \/ Expires(t)
  BY <1>rest, <1>frame DEF Tick, WindowOver, Restart, pvars, IssueToken, Delete, Expires, captureVars,
     pageVars, screenVars
<1> QED
  BY <1>capture, <1>page, <1>rest DEF PlaygroundNext

\* OnlyResendsCopy holds in every reachable state: what copies a record is the
\* client's sending its LPUSH again and nothing else, whatever fails.
THEOREM CopiesAreResends == PlaygroundSpec => []OnlyResendsCopy
<1> DEFINE Inv == TypeInv /\ StoreBound /\ ScreenBound
<1>1. PlaygroundInit => Inv
  <2> SUFFICES ASSUME PlaygroundInit PROVE StoreBound /\ ScreenBound
    BY TypeInit
  <2>1. PlaygroundTypeOK
    BY TypeInit DEF TypeInv
  <2>2. CountsOK /\ \A r \in Requests : resent[r] \in Nat
    BY <2>1, CountsType, PlaygroundAssumption DEF PlaygroundTypeOK, PlaygroundAssumption
  <2>3. /\ \A t \in Tokens : kind[t] = "none" /\ data[t] = <<>>
        /\ \A o \in Arrays : array[o] = <<>>
        /\ \A r \in Requests : arr[r] = <<>> /\ shown[r] = 0
        /\ \A p \in Polls : poll[p].requests = <<>>
    BY DEF PlaygroundInit, FreePoll
  <2>4. \A r \in Requests : Written[r] \in Nat
    BY <2>2 DEF CountsOK
  <2>5. StoreBound
    BY <2>3, <2>4, EmptyHistory DEF StoreBound, Bounded
  <2>6. ScreenBound
    BY <2>2, <2>3, EmptyHistory DEF ScreenBound, Listed
  <2> QED
    BY <2>5, <2>6
<1>2. Inv /\ [PlaygroundNext]_pvars => Inv'
  BY TypeStep, AddressedStep, StoreBoundStep, ScreenBoundStep DEF TypeInv
<1>3. Inv => OnlyResendsCopy
  <2> SUFFICES ASSUME Inv, NEW r \in Requests
               PROVE  /\ \A t \in Tokens : Times(data[t], r) <= 1 + (IF kind[t] = "list" THEN resent[r] ELSE 0)
                      /\ \A o \in Arrays : Times(array[o], r) <= 1
                      /\ shown[r] <= 1 + resent[r]
    BY DEF OnlyResendsCopy
  <2>1. PlaygroundTypeOK /\ CountsOK /\ Written[r] \in {0, 1}
    BY CountsType DEF TypeInv, Written
  <2>2. resent[r] \in Nat /\ Sent[r] \in Nat /\ Sent[r] <= 1 + resent[r]
    BY <2>1, PlaygroundAssumption DEF CountsOK, PlaygroundTypeOK, PlaygroundAssumption
  <2>3. ASSUME NEW t \in Tokens
        PROVE  Times(data[t], r) <= 1 + (IF kind[t] = "list" THEN resent[r] ELSE 0)
    <3>1. Times(data[t], r) \in Nat
      BY <2>1, TimesType DEF PlaygroundTypeOK
    <3>2. /\ kind[t] = "list" => Times(data[t], r) <= Sent[r]
          /\ kind[t] # "list" => Times(data[t], r) <= Written[r]
      BY DEF StoreBound, Bounded
    <3> QED
      BY <2>1, <2>2, <3>1, <3>2
  <2>4. ASSUME NEW o \in Arrays PROVE Times(array[o], r) <= 1
    <3>1. Times(array[o], r) \in Nat /\ Times(array[o], r) <= Written[r]
      BY <2>1, TimesType DEF StoreBound, Bounded, PlaygroundTypeOK
    <3> QED
      BY <2>1, <3>1
  <2> QED
    BY <2>3, <2>4 DEF ScreenBound, Listed
<1> HIDE DEF Inv
<1> QED
  BY <1>1, <1>2, <1>3, PTL DEF PlaygroundSpec

-----------------------------------------------------------------------------
(* A lone capture is kept.  What the fallback of another one writes back   *)
(* it has read after the capture was done, or it would have overlapped it; *)
(* and it reads the history itself, not the memory behind it, because a    *)
(* capture that falls back without an error met a string, which stays one  *)
(* until the token is deleted.  What another one changes in the memory     *)
(* does not reach the history in Redis without an error.                   *)

KeptStored ==
    \A r \in kept :
       /\ pc[r] = "done" /\ to[r] \in issued
       /\ InOrFull(data[to[r]], r)
       /\ \A q \in Requests : to[q] = to[r] =>
             /\ pc[q] = "got" => InOrFull(arr[q], r)
             /\ pc[q] = "fallback" => kind[to[r]] = "string"

CleanAlone ==
    \A r \in Requests : clean[r] /\ pc[r] \notin Ended =>
       /\ \A q \in Requests \ {r} : to[q] = to[r] => pc[q] \in Ended
       /\ pc[r] = "trim" => InOrFull(data[to[r]], r)
       /\ pc[r] = "got" => InOrFull(arr[r], r)

Lone == KeptStored /\ CleanAlone

\* A step that disturbs the captures of t touches nothing else.
LEMMA DisturbLone ==
    ASSUME TypeInv, Lone, NEW t, Disturb(t), UNCHANGED to, issued \subseteq issued',
           \A u \in Tokens \ {t} : data'[u] = data[u] /\ kind'[u] = kind[u],
           \A q \in Requests : to[q] # t \/ pc[q] \in Ended => pc'[q] = pc[q] /\ arr'[q] = arr[q]
    PROVE  Lone'
<1>1. ASSUME NEW r \in kept'
      PROVE  r \in kept /\ r \in Requests /\ to[r] # t /\ to[r] \in Tokens
  BY <1>1 DEF Disturb, Lone, KeptStored, TypeInv, PlaygroundTypeOK
<1>2. KeptStored'
  BY <1>1 DEF Lone, KeptStored
<1>3. ASSUME NEW r \in Requests, clean'[r], pc'[r] \notin Ended
      PROVE  clean[r] /\ pc[r] \notin Ended /\ to[r] # t /\ to[r] \in Tokens
  <2>1. clean[r] /\ r \notin Running(t)
    BY <1>3 DEF Disturb
  <2>2. to[r] # t \/ pc[r] \in Ended
    BY <2>1 DEF Running
  <2>3. pc[r] \notin Ended
    BY <1>3, <2>2
  <2>4. pc[r] # "idle"
    BY <2>3 DEF Ended
  <2> QED
    BY <2>1, <2>2, <2>3, <2>4 DEF TypeInv, PlaygroundAddressed, PlaygroundTypeOK
<1>4. CleanAlone'
  BY <1>3 DEF Lone, CleanAlone
<1> QED
  BY <1>2, <1>4 DEF Lone

\* A handler goes on without touching the store.
LEMMA MoveLone ==
    ASSUME TypeInv, Lone, NEW r \in Requests, pc[r] \notin Ended,
           NEW d \in {"admitted", "read", "fallback"}, pc' = [pc EXCEPT ![r] = d],
           d = "fallback" => kind[to[r]] = "string",
           UNCHANGED <<storeVars, arr, to, issued, ghostVars>>
    PROVE  Lone'
<1>1. \A q \in Requests : pc'[q] = IF q = r THEN d ELSE pc[q]
  BY DEF TypeInv, PlaygroundTypeOK
<1>2. UNCHANGED <<kind, data, arr, to, issued, clean, kept>>
  BY DEF storeVars, ghostVars
<1>3. \A q \in kept : q \in Requests /\ pc[q] = "done"
  BY DEF Lone, KeptStored, TypeInv, PlaygroundTypeOK
<1>4. KeptStored'
  <2> SUFFICES ASSUME NEW x \in kept
               PROVE  /\ pc'[x] = "done" /\ to[x] \in issued
                      /\ InOrFull(data[to[x]], x)
                      /\ \A q \in Requests : to[q] = to[x] =>
                            /\ pc'[q] = "got" => InOrFull(arr[q], x)
                            /\ pc'[q] = "fallback" => kind[to[x]] = "string"
    BY <1>2 DEF KeptStored
  <2>1. x # r
    BY <1>3 DEF Ended
  <2> QED
    BY <1>1, <1>3, <2>1 DEF Lone, KeptStored
<1>5. CleanAlone'
  BY <1>1, <1>2 DEF Lone, CleanAlone
<1> QED
  BY <1>4, <1>5 DEF Lone

\* A handler writes the history of its token; what is kept stays in it.
Writes(r, d) ==
    /\ pc[r] \notin Ended /\ pc' = [pc EXCEPT ![r] = d]
    /\ \A q \in Requests \ {r} : arr'[q] = arr[q]
    /\ UNCHANGED <<to, issued>>
    /\ \A u \in Tokens \ {to[r]} : data'[u] = data[u] /\ kind'[u] = kind[u]
    /\ clean[r] => InOrFull(data'[to[r]], r)
    /\ \A x \in kept : to[x] = to[r] =>
          /\ InOrFull(data'[to[r]], x)
          /\ \A q \in Requests \ {r} :
                to[q] = to[r] /\ pc[q] = "fallback" => kind'[to[r]] = "string"
    /\ (d = "done" /\ Completed(r)) \/ (d = "trim" /\ UNCHANGED ghostVars)

LEMMA WriteLone ==
    ASSUME TypeInv, Lone, NEW r \in Requests, NEW d \in {"done", "trim"}, Writes(r, d)
    PROVE  Lone'
<1> DEFINE t == to[r]
<1> USE DEF Writes
<1>1. \A q \in Requests : pc'[q] = IF q = r THEN d ELSE pc[q]
  BY DEF TypeInv, PlaygroundTypeOK
<1>2. \A x \in kept : x \in Requests /\ pc[x] = "done" /\ x # r /\ to[x] \in Tokens
  BY DEF Lone, KeptStored, TypeInv, PlaygroundTypeOK, Ended
<1>3. t \in issued
  BY DEF TypeInv, PlaygroundAddressed, Ended
<1>4. ASSUME NEW x \in kept
      PROVE  /\ pc'[x] = "done" /\ to[x] \in issued
             /\ InOrFull(data'[to[x]], x)
             /\ \A q \in Requests : to[q] = to[x] =>
                   /\ pc'[q] = "got" => InOrFull(arr'[q], x)
                   /\ pc'[q] = "fallback" => kind'[to[x]] = "string"
  <2>1. /\ pc[x] = "done" /\ to[x] \in issued
        /\ InOrFull(data[to[x]], x)
        /\ \A q \in Requests : to[q] = to[x] =>
              /\ pc[q] = "got" => InOrFull(arr[q], x)
              /\ pc[q] = "fallback" => kind[to[x]] = "string"
    BY DEF Lone, KeptStored
  <2>2. CASE to[x] = t
    BY <1>1, <1>2, <2>1, <2>2
  <2>3. CASE to[x] # t
    BY <1>1, <1>2, <2>1, <2>3
  <2> QED
    BY <2>2, <2>3
<1>5. ASSUME d = "done", clean[r]
      PROVE  /\ pc'[r] = "done" /\ to[r] \in issued
             /\ InOrFull(data'[to[r]], r)
             /\ \A q \in Requests : to[q] = to[r] => pc'[q] # "got" /\ pc'[q] # "fallback"
  <2>1. \A q \in Requests \ {r} : to[q] = to[r] => pc[q] \in Ended
    BY <1>5 DEF Lone, CleanAlone
  <2> QED
    BY <1>1, <1>3, <1>5, <2>1 DEF Ended
<1>6. KeptStored'
  <2>1. ASSUME NEW x \in kept' PROVE x \in kept \/ (x = r /\ d = "done" /\ clean[r])
    BY DEF Completed, ghostVars
  <2> QED
    BY <1>4, <1>5, <2>1 DEF KeptStored
<1>7. ASSUME NEW s \in Requests, clean'[s], pc'[s] \notin Ended
      PROVE  /\ \A q \in Requests \ {s} : to[q] = to[s] => pc'[q] \in Ended
             /\ pc'[s] = "trim" => InOrFull(data'[to[s]], s)
             /\ pc'[s] = "got" => InOrFull(arr'[s], s)
  <2>1. CASE s = r
    <3>1. d = "trim" /\ clean[r]
      BY <1>1, <1>7, <2>1 DEF Completed, ghostVars, Ended
    <3> QED
      BY <1>1, <2>1, <3>1 DEF Lone, CleanAlone
  <2>2. CASE s # r
    <3>1. clean[s] /\ pc[s] \notin Ended /\ pc'[s] = pc[s]
      BY <1>1, <1>7, <2>2 DEF Completed, ghostVars, TypeInv, PlaygroundTypeOK
    <3>2. to[s] # t
      BY <2>2, <3>1 DEF Lone, CleanAlone
    <3>3. to[s] \in Tokens
      BY <3>1 DEF TypeInv, PlaygroundAddressed, PlaygroundTypeOK, Ended
    <3> QED
      BY <1>1, <3>1, <3>2, <3>3 DEF Lone, CleanAlone
  <2> QED
    BY <2>1, <2>2
<1>8. CleanAlone'
  BY <1>7 DEF CleanAlone
<1> QED
  BY <1>6, <1>8 DEF Lone

\* A request starts.
LEMMA CallLone ==
    ASSUME TypeInv, Lone, NEW r \in Requests, NEW t \in Tokens, Call(r, t)
    PROVE  Lone'
<1>1. PICK d \in {"first", "admitted", "refused"} : pc' = [pc EXCEPT ![r] = d]
  BY DEF Call, Counted
<1>2. \A q \in Requests : /\ pc'[q] = IF q = r THEN d ELSE pc[q]
                          /\ to'[q] = IF q = r THEN t ELSE to[q]
  BY <1>1 DEF Call, TypeInv, PlaygroundTypeOK
<1>3. /\ pc[r] = "idle" /\ UNCHANGED <<kind, data, arr, issued, kept>>
      /\ \A q \in Requests : clean'[q] = IF q = r THEN Running(t) = {}
                                         ELSE clean[q] /\ q \notin Running(t)
  BY DEF Call, Overlap, storeVars
<1>4. \A x \in kept : x \in Requests /\ pc[x] = "done" /\ x # r
  BY <1>3 DEF Lone, KeptStored, TypeInv, PlaygroundTypeOK
<1>5. KeptStored'
  BY <1>2, <1>3, <1>4 DEF Lone, KeptStored
<1>6. ASSUME NEW s \in Requests, clean'[s], pc'[s] \notin Ended
      PROVE  /\ \A q \in Requests \ {s} : to'[q] = to'[s] => pc'[q] \in Ended
             /\ pc'[s] = "trim" => InOrFull(data'[to'[s]], s)
             /\ pc'[s] = "got" => InOrFull(arr'[s], s)
  <2>1. CASE s = r
    <3>1. \A q \in Requests : to[q] = t => pc[q] \in Ended
      BY <1>3, <1>6, <2>1 DEF Running
    <3> QED
      BY <1>2, <2>1, <3>1
  <2>2. CASE s # r
    <3>1. clean[s] /\ pc[s] \notin Ended /\ to[s] # t
      BY <1>2, <1>3, <1>6, <2>2 DEF Running
    <3> QED
      BY <1>2, <1>3, <2>2, <3>1 DEF Lone, CleanAlone
  <2> QED
    BY <2>1, <2>2
<1>7. CleanAlone'
  BY <1>6 DEF CleanAlone
<1> QED
  BY <1>5, <1>7 DEF Lone

LEMMA LoneStep == TypeInv /\ Lone /\ [PlaygroundNext]_pvars => Lone'
<1> SUFFICES ASSUME TypeInv, PlaygroundTypeOK, PlaygroundAddressed, Lone, [PlaygroundNext]_pvars
             PROVE  Lone'
  BY DEF TypeInv
<1>frame. ASSUME UNCHANGED <<storeVars, pc, to, arr, issued, ghostVars>> PROVE Lone'
  BY <1>frame DEF Lone, KeptStored, CleanAlone, storeVars, ghostVars
<1>call. ASSUME NEW r \in Requests, (\E t \in Tokens : Receive(r, t)) \/ Send(r) PROVE Lone'
  BY <1>call, CallLone DEF Receive, Send, PlaygroundTypeOK
<1>move. ASSUME NEW r \in Requests, SetWindow(r) \/ BuildRecord(r) \/ PushString(r) PROVE Lone'
  <2>1. PICK d \in {"admitted", "read", "fallback"} : pc' = [pc EXCEPT ![r] = d]
    BY <1>move DEF SetWindow, BuildRecord, PushString, At
  <2>2. d = "fallback" => kind[to[r]] = "string"
    <3>1. CASE SetWindow(r) \/ BuildRecord(r)
      BY <2>1, <3>1 DEF SetWindow, BuildRecord, At, PlaygroundTypeOK
    <3>2. CASE PushString(r)
      BY <3>2 DEF PushString
    <3> QED
      BY <1>move, <3>1, <3>2
  <2>3. pc[r] \notin Ended /\ UNCHANGED <<storeVars, arr, to, issued, ghostVars>>
    BY <1>move DEF SetWindow, BuildRecord, PushString, At, Ended
  <2> QED
    BY <2>1, <2>2, <2>3, MoveLone
<1>addressed. ASSUME NEW r \in Requests, pc[r] \notin Ended PROVE to[r] \in Tokens
  BY <1>addressed DEF PlaygroundAddressed, PlaygroundTypeOK, Ended
<1>pushlist. ASSUME NEW r \in Requests, PushList(r) PROVE Lone'
  <2> DEFINE t == to[r]
             f == <<r>> \o data[t]
  <2>1. pc[r] = "read" /\ pc[r] \notin Ended /\ t \in Tokens
    BY <1>pushlist, <1>addressed DEF PushList, At, Ended
  <2>2. data[t] \in Histories
    BY <2>1 DEF PlaygroundTypeOK
  <2>3. InOrFull(f, r) /\ \A x : InOrFull(data[t], x) => InOrFull(f, x)
    BY <2>2, FrontInOrFull
  <2>4. /\ kind[t] # "string" /\ kind' = [kind EXCEPT ![t] = "list"]
        /\ data' = [data EXCEPT ![t] = f]
        /\ pc' = [pc EXCEPT ![r] = After(r)] /\ UNCHANGED <<to, arr, issued>>
        /\ IF long[r] THEN UNCHANGED ghostVars ELSE Completed(r)
    BY <1>pushlist DEF PushList, Push, At, SetKey
  <2> HIDE DEF f
  <2>5. data'[t] = f /\ \A u \in Tokens \ {t} : data'[u] = data[u] /\ kind'[u] = kind[u]
    BY <2>1, <2>4 DEF PlaygroundTypeOK
  <2>6. \A x \in kept : to[x] = t =>
           /\ InOrFull(data'[t], x)
           /\ \A q \in Requests \ {r} : to[q] = t /\ pc[q] = "fallback" => kind'[t] = "string"
    BY <2>3, <2>4, <2>5 DEF Lone, KeptStored
  <2>7. After(r) \in {"done", "trim"} /\ (After(r) = "done" <=> ~long[r])
    BY DEF After
  <2>8. (After(r) = "done" /\ Completed(r)) \/ (After(r) = "trim" /\ UNCHANGED ghostVars)
    BY <2>4, <2>7
  <2> QED
    <3>1. Writes(r, After(r))
      BY <2>1, <2>3, <2>4, <2>5, <2>6, <2>8 DEF Writes
    <3> QED
      BY <2>7, <3>1, WriteLone
<1>pushfails. ASSUME NEW r \in Requests, PushFails(r) PROVE Lone'
  <2>1. pc[r] \notin Ended /\ to[r] \in Tokens
    BY <1>pushfails, <1>addressed DEF PushFails, At, Ended
  <2>2. \A u \in Tokens \ {to[r]} : data'[u] = data[u] /\ kind'[u] = kind[u]
    BY <1>pushfails DEF PushFails, Push, SetKey, PlaygroundTypeOK
  <2>3. Disturb(to[r]) /\ UNCHANGED <<to, arr, issued>> /\ pc' = [pc EXCEPT ![r] = "fallback"]
    BY <1>pushfails DEF PushFails, At
  <2>4. \A q \in Requests : to[q] # to[r] \/ pc[q] \in Ended => pc'[q] = pc[q] /\ arr'[q] = arr[q]
    BY <2>1, <2>3 DEF PlaygroundTypeOK
  <2> QED
    BY <2>2, <2>3, <2>4, DisturbLone
<1>again. ASSUME NEW r \in Requests, PushAgain(r) \/ WriteAgain(r) PROVE Lone'
  <2>1. \A u \in Tokens \ {to[r]} : data'[u] = data[u] /\ kind'[u] = kind[u]
    BY <1>again DEF PushAgain, WriteAgain, Push, Set, SetKey, PlaygroundTypeOK
  <2>2. Disturb(to[r]) /\ UNCHANGED <<pc, to, arr, issued>>
    BY <1>again DEF PushAgain, WriteAgain, captureVars
  <2> QED
    BY <2>1, <2>2, DisturbLone
<1>read. ASSUME NEW r \in Requests, ReadHistory(r) PROVE Lone'
  <2> DEFINE t == to[r]
  <2>1. /\ pc[r] = "fallback" /\ pc' = [pc EXCEPT ![r] = "got"]
        /\ UNCHANGED <<kind, data, to, issued>>
    BY <1>read DEF ReadHistory, At
  <2>2. pc[r] \notin Ended /\ t \in Tokens
    BY <2>1, <1>addressed DEF Ended
  <2>3. \A q \in Requests : pc'[q] = IF q = r THEN "got" ELSE pc[q]
    BY <2>1 DEF PlaygroundTypeOK
  <2>4. PICK v : arr' = [arr EXCEPT ![r] = v] /\ InOrFull(v, r)
    <3>1. PICK s \in Histories, o \in {r, memory[t]} : Unshift(r, o, s)
      <4>1. data[t] \in Histories /\ Remembered(t) \in Histories
        BY <2>2, ReadsHistories DEF PlaygroundTypeOK
      <4> QED
        BY <1>read, <4>1 DEF ReadHistory
    <3>2. InOrFull(<<r>> \o s, r) /\ <<r>> \o s \in Histories
      BY FrontInOrFull, InFront
    <3>3. InOrFull(Newest(<<r>> \o s), r)
      BY <3>2, CutInOrFull
    <3> QED
      BY <3>1, <3>3 DEF Unshift
  <2>5. CASE Disturb(t)
    <3>1. \A q \in Requests : to[q] # t \/ pc[q] \in Ended => pc'[q] = pc[q] /\ arr'[q] = arr[q]
      BY <2>2, <2>3, <2>4 DEF PlaygroundTypeOK
    <3> QED
      BY <2>1, <2>5, <3>1, DisturbLone
  <2>6. CASE UNCHANGED ghostVars /\ kind[t] = "list"
    <3>1. \A x \in kept : x \in Requests /\ pc[x] = "done" /\ to[x] # t
      BY <2>1, <2>6 DEF Lone, KeptStored, PlaygroundTypeOK
    <3>2. \A q \in Requests \ {r} : arr'[q] = arr[q]
      BY <2>4 DEF PlaygroundTypeOK
    <3>3. UNCHANGED <<clean, kept>>
      BY <2>6 DEF ghostVars
    <3>4. KeptStored'
      BY <2>1, <2>3, <3>1, <3>2, <3>3 DEF Lone, KeptStored
    <3>5. arr'[r] = v
      BY <2>4 DEF PlaygroundTypeOK
    <3>6. CleanAlone'
      BY <2>1, <2>2, <2>3, <2>4, <3>2, <3>3, <3>5 DEF Lone, CleanAlone, Ended
    <3> QED
      BY <3>4, <3>6 DEF Lone
  <2>7. CASE UNCHANGED ghostVars /\ Unshift(r, r, data[t])
    <3> DEFINE w == Newest(<<r>> \o data[t])
    <3>1. data[t] \in Histories /\ <<r>> \o data[t] \in Histories
      BY <2>2, InFront DEF PlaygroundTypeOK
    <3>2. InOrFull(w, r) /\ \A x : InOrFull(data[t], x) => InOrFull(w, x)
      BY <3>1, FrontInOrFull, CutInOrFull
    <3>3. \A q \in Requests : arr'[q] = IF q = r THEN w ELSE arr[q]
      BY <2>7 DEF Unshift, PlaygroundTypeOK
    <3> HIDE DEF w
    <3>4. UNCHANGED <<clean, kept>>
      BY <2>7 DEF ghostVars
    <3>5. \A x \in kept : x \in Requests /\ pc[x] = "done"
      BY DEF Lone, KeptStored, PlaygroundTypeOK
    <3>6. \A x \in kept : to[x] = t => InOrFull(w, x)
      BY <3>2 DEF Lone, KeptStored
    <3>7. KeptStored'
      BY <2>1, <2>3, <3>3, <3>4, <3>5, <3>6 DEF Lone, KeptStored
    <3>8. CleanAlone'
      BY <2>1, <2>2, <2>3, <3>2, <3>3, <3>4 DEF Lone, CleanAlone, Ended
    <3> QED
      BY <3>7, <3>8 DEF Lone
  <2> QED
    BY <1>read, <2>5, <2>6, <2>7 DEF ReadHistory
<1>write. ASSUME NEW r \in Requests, WriteHistory(r) PROVE Lone'
  <2> DEFINE t == to[r]
             v == arr[r]
  <2>1. pc[r] = "got" /\ pc[r] \notin Ended /\ t \in Tokens
    BY <1>write, <1>addressed DEF WriteHistory, At, Ended
  <2>2. /\ pc' = [pc EXCEPT ![r] = After(r)] /\ arr' = [arr EXCEPT ![r] = <<>>]
        /\ UNCHANGED <<to, issued>>
        /\ \/ Set(t, v) /\ IF long[r] THEN UNCHANGED ghostVars ELSE Completed(r)
           \/ SetFails(t, v, held[r]) /\ Disturb(t)
    BY <1>write DEF WriteHistory, At
  <2>3. \A u \in Tokens \ {t} : data'[u] = data[u] /\ kind'[u] = kind[u]
    BY <2>2 DEF Set, SetFails, SetKey, PlaygroundTypeOK
  <2>4. \A q \in Requests \ {r} : pc'[q] = pc[q] /\ arr'[q] = arr[q]
    BY <2>2 DEF PlaygroundTypeOK
  <2>5. CASE Set(t, v) /\ IF long[r] THEN UNCHANGED ghostVars ELSE Completed(r)
    <3>1. data'[t] = v /\ kind'[t] = "string"
      BY <2>1, <2>5 DEF Set, SetKey, PlaygroundTypeOK
    <3>2. \A x \in kept : to[x] = t => InOrFull(data'[t], x)
      BY <2>1, <3>1 DEF Lone, KeptStored
    <3>3. clean[r] => InOrFull(data'[t], r)
      BY <2>1, <3>1 DEF Lone, CleanAlone
    <3>4. After(r) \in {"done", "trim"} /\ (After(r) = "done" <=> ~long[r])
      BY DEF After
    <3>5. (After(r) = "done" /\ Completed(r)) \/ (After(r) = "trim" /\ UNCHANGED ghostVars)
      BY <2>5, <3>4
    <3> QED
      <4>1. Writes(r, After(r))
        BY <2>1, <2>2, <2>3, <2>4, <3>1, <3>2, <3>3, <3>5 DEF Writes
      <4> QED
        BY <3>4, <4>1, WriteLone
  <2>6. CASE SetFails(t, v, held[r]) /\ Disturb(t)
    BY <2>1, <2>2, <2>3, <2>4, <2>6, DisturbLone
  <2> QED
    BY <2>2, <2>5, <2>6
<1>trim. ASSUME NEW r \in Requests, Trim(r) PROVE Lone'
  <2> DEFINE t == to[r]
  <2>1. pc[r] = "trim" /\ pc[r] \notin Ended /\ t \in Tokens
    BY <1>trim, <1>addressed DEF Trim, At, Ended
  <2>2. data[t] \in Histories
    BY <2>1 DEF PlaygroundTypeOK
  <2>3. \A x : InOrFull(data[t], x) => InOrFull(Newest(data[t]), x)
    BY <2>2, CutInOrFull
  <2>4. /\ data' = [data EXCEPT ![t] = Newest(data[t])] \/ data' = data
        /\ pc' = [pc EXCEPT ![r] = "done"] /\ UNCHANGED <<kind, to, arr, issued>> /\ Completed(r)
    BY <1>trim DEF Trim, At
  <2>5. /\ data'[t] \in {data[t], Newest(data[t])}
        /\ \A u \in Tokens \ {t} : data'[u] = data[u] /\ kind'[u] = kind[u]
    BY <2>1, <2>4 DEF PlaygroundTypeOK
  <2>6. clean[r] => InOrFull(data'[t], r)
    BY <2>1, <2>3, <2>5 DEF Lone, CleanAlone
  <2>7. \A x \in kept : to[x] = t =>
           /\ InOrFull(data'[t], x)
           /\ \A q \in Requests \ {r} : to[q] = t /\ pc[q] = "fallback" => kind'[t] = "string"
    BY <2>3, <2>4, <2>5 DEF Lone, KeptStored
  <2> QED
    <3>1. Writes(r, "done")
      BY <2>1, <2>4, <2>5, <2>6, <2>7 DEF Writes
    <3> QED
      BY <3>1, WriteLone
<1>crash. ASSUME NEW r \in Requests, Crash(r) PROVE Lone'
  <2>1. /\ \A q \in Requests : /\ pc'[q] = IF q = r THEN "dead" ELSE pc[q]
                               /\ clean'[q] = IF q = r THEN FALSE ELSE clean[q]
        /\ \A q \in Requests \ {r} : arr'[q] = arr[q]
        /\ UNCHANGED <<kind, data, to, issued, kept>> /\ pc[r] \notin Ended
    BY <1>crash DEF Crash, PlaygroundTypeOK, storeVars
  <2>2. \A x \in kept : x \in Requests /\ pc[x] = "done" /\ x # r
    BY <2>1 DEF Lone, KeptStored, PlaygroundTypeOK, Ended
  <2>3. KeptStored'
    <3> SUFFICES ASSUME NEW x \in kept
                 PROVE  /\ pc'[x] = "done" /\ to[x] \in issued
                        /\ InOrFull(data[to[x]], x)
                        /\ \A q \in Requests : to[q] = to[x] =>
                              /\ pc'[q] = "got" => InOrFull(arr'[q], x)
                              /\ pc'[q] = "fallback" => kind[to[x]] = "string"
      BY <2>1 DEF KeptStored
    <3>1. pc'[x] = "done" /\ to[x] \in issued /\ InOrFull(data[to[x]], x)
      BY <2>1, <2>2 DEF Lone, KeptStored
    <3>2. ASSUME NEW q \in Requests, to[q] = to[x]
          PROVE  /\ pc'[q] = "got" => InOrFull(arr'[q], x)
                 /\ pc'[q] = "fallback" => kind[to[x]] = "string"
      <4>1. CASE q = r
        BY <2>1, <4>1
      <4>2. CASE q # r
        <5>1. pc'[q] = pc[q] /\ arr'[q] = arr[q]
          BY <2>1, <4>2
        <5>2. /\ pc[q] = "got" => InOrFull(arr[q], x)
              /\ pc[q] = "fallback" => kind[to[x]] = "string"
          BY <3>2 DEF Lone, KeptStored
        <5> QED
          BY <5>1, <5>2
      <4> QED
        BY <4>1, <4>2
    <3> QED
      BY <3>1, <3>2
  <2>4. CleanAlone'
    BY <2>1 DEF Lone, CleanAlone, Ended
  <2> QED
    BY <2>3, <2>4 DEF Lone
<1>capture. ASSUME NEW r \in Requests, CaptureStep(r) PROVE Lone'
  BY <1>capture, <1>call, <1>move, <1>pushlist, <1>again, <1>pushfails, <1>read, <1>write, <1>trim,
     <1>crash DEF CaptureStep
<1>restart. CASE Restart
  <2>1. /\ \A q \in Requests : /\ pc'[q] = IF pc[q] \in Ended THEN pc[q] ELSE "dead"
                               /\ clean'[q] = FALSE
        /\ UNCHANGED <<data, to, issued, kept>>
    BY <1>restart DEF Restart
  <2>2. \A q \in Requests : pc'[q] \in Ended
    BY <2>1 DEF Ended
  <2>3. \A x \in kept : x \in Requests
    BY DEF PlaygroundTypeOK
  <2>4. KeptStored'
    BY <2>1, <2>2, <2>3 DEF Lone, KeptStored, Ended
  <2>5. CleanAlone'
    BY <2>1 DEF CleanAlone
  <2> QED
    BY <2>4, <2>5 DEF Lone
<1>issue. ASSUME NEW t \in Tokens, IssueToken(t) PROVE Lone'
  <2>1. /\ t \notin issued /\ issued' = issued \cup {t}
        /\ \A u \in Tokens \ {t} : data'[u] = data[u] /\ kind'[u] = kind[u]
        /\ UNCHANGED <<pc, to, arr, clean, kept>>
    BY <1>issue DEF IssueToken, Set, SetFails, SetKey, captureVars, ghostVars, PlaygroundTypeOK
  <2>2. \A r \in Requests : pc[r] # "idle" => to[r] \in Tokens \ {t} /\ to[r] \in issued
    BY <2>1 DEF PlaygroundAddressed, PlaygroundTypeOK
  <2>3. \A r \in kept : r \in Requests /\ pc[r] = "done"
    BY DEF Lone, KeptStored, PlaygroundTypeOK
  <2>4. KeptStored'
    BY <2>1, <2>2, <2>3 DEF Lone, KeptStored
  <2>5. CleanAlone'
    BY <2>1, <2>2 DEF Lone, CleanAlone, Ended
  <2> QED
    BY <2>4, <2>5 DEF Lone
<1>empty. ASSUME NEW t \in Tokens, Delete(t) \/ Expires(t) PROVE Lone'
  <2>1. Disturb(t) /\ UNCHANGED <<pc, to, arr, issued>>
    BY <1>empty DEF Delete, Expires, captureVars
  <2>2. \A u \in Tokens \ {t} : data'[u] = data[u] /\ kind'[u] = kind[u]
    BY <1>empty DEF Delete, Expires, SetKey, PlaygroundTypeOK
  <2> QED
    BY <2>1, <2>2, DisturbLone
<1>page. CASE PageStep
  <2>1. UNCHANGED <<storeVars, pc, to, arr, issued, ghostVars>>
    BY <1>page DEF PageStep, GenerateToken, TokenArrives, TokenFails, NewSession, Reload, Poll,
       AnswerPoll, PollArrives, PollFails, SendAnswered, SendFails, ClearAll, captureVars
  <2> QED
    BY <1>frame, <2>1
<1>rest. CASE Tick \/ WindowOver \/ UNCHANGED pvars
  BY <1>rest, <1>frame DEF Tick, WindowOver, pvars, captureVars
<1> QED
  BY <1>capture, <1>restart, <1>issue, <1>empty, <1>page, <1>rest DEF PlaygroundNext

\* LoneCaptureKept holds in every reachable state.
THEOREM LoneKept == PlaygroundSpec => []LoneCaptureKept
<1> DEFINE Inv == TypeInv /\ Lone
<1>1. PlaygroundInit => Inv
  BY TypeInit DEF PlaygroundInit, Lone, KeptStored, CleanAlone
<1>2. Inv /\ [PlaygroundNext]_pvars => Inv'
  BY TypeStep, AddressedStep, LoneStep DEF TypeInv
<1>3. Inv => LoneCaptureKept
  BY DEF Lone, KeptStored, InOrFull, LoneCaptureKept
<1> HIDE DEF Inv
<1> QED
  BY <1>1, <1>2, <1>3, PTL DEF PlaygroundSpec
=============================================================================
