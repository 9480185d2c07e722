------------------------ MODULE CircuitBreaker_proofs ------------------------
(***************************************************************************)
(* Proofs for CircuitBreaker: a circuit is open or half-open exactly when  *)
(* it has counted threshold failures in a row, for any number of workers   *)
(* and tasks and any threshold.  Sound circuits are closed under every     *)
(* operation, and only sound circuits are saved and loaded.                *)
(***************************************************************************)
EXTENDS CircuitBreaker, TLAPS

Sound == {c \in Circuits : Tripped(c)}

\* The inductive invariant: every circuit in memory, on its way and in Redis
\* is sound.
BreakerInv ==
    /\ circuit \in [Workers -> Sound]
    /\ connected \in [Workers -> BOOLEAN]
    /\ saved \in Sound \cup {NoValue}
    /\ task \in [Workers -> [Tasks -> {"idle", "sending", "probing"}]]
    /\ saving \in [Workers -> [Tasks -> Sound \cup {NoValue}]]

\* The default circuit is sound.
LEMMA DefaultSound == Default \in Sound
BY BreakerAssumption DEF Default, Sound, Circuits, Tripped

\* What the fields of a sound circuit are.
LEMMA SoundShape ==
    ASSUME NEW c \in Sound
    PROVE  /\ c \in Circuits
           /\ c.state \in {"closed", "open", "half_open"}
           /\ c.consecutive_failures \in 0..FailureThreshold
           /\ c.cooled \in BOOLEAN
           /\ c.state # "closed" <=> c.consecutive_failures >= FailureThreshold
BY DEF Sound, Circuits, Tripped

\* A success leaves a sound circuit sound (record_success).
LEMMA ClosedSound == ASSUME NEW c PROVE Closed(c) \in Sound
BY BreakerAssumption DEF Closed, Sound, Circuits, Tripped

\* A failure leaves a sound circuit sound (record_failure).
LEMMA FailedSound == ASSUME NEW c \in Sound PROVE Failed(c) \in Sound
<1>1. Counted(c) \in 0..FailureThreshold
  BY SoundShape, BreakerAssumption DEF Counted
<1>2. CASE Counted(c) >= FailureThreshold
  <2>1. Failed(c) = [state |-> "open", consecutive_failures |-> Counted(c), cooled |-> FALSE]
    BY <1>2 DEF Failed
  <2> QED BY <1>1, <1>2, <2>1, BreakerAssumption DEF Sound, Circuits, Tripped
<1>3. CASE ~(Counted(c) >= FailureThreshold)
  <2>1. Failed(c) = [c EXCEPT !.consecutive_failures = Counted(c)]
    BY <1>3 DEF Failed
  <2>2. c.state = "closed"
    BY <1>1, <1>3, SoundShape, BreakerAssumption DEF Counted
  <2>3. Failed(c) \in Circuits
    BY <1>1, <2>1, SoundShape DEF Circuits
  <2>4. Failed(c).state = "closed" /\ Failed(c).consecutive_failures = Counted(c)
    BY <2>1, <2>2, SoundShape DEF Circuits
  <2> QED BY <1>3, <2>3, <2>4 DEF Sound, Tripped
<1> QED BY <1>2, <1>3

\* Moving an open circuit to half-open keeps it sound (allow_request).
LEMMA HalfOpenSound ==
    ASSUME NEW c \in Sound, c.state = "open" PROVE HalfOpen(c) \in Sound
<1>1. c.consecutive_failures \in 0..FailureThreshold /\ c.consecutive_failures >= FailureThreshold
  BY SoundShape
<1> QED BY <1>1 DEF HalfOpen, Sound, Circuits, Tripped

\* The passing of time keeps a circuit sound.
LEMMA CooledSound ==
    ASSUME NEW c \in Sound PROVE [c EXCEPT !.cooled = TRUE] \in Sound
BY BreakerAssumption DEF Sound, Circuits, Tripped

\* Change installs and saves a sound circuit.
LEMMA ChangeSound ==
    ASSUME NEW w \in Workers, NEW t \in Tasks, NEW c \in Sound, BreakerInv, Change(w, t, c)
    PROVE  /\ circuit' \in [Workers -> Sound]
           /\ saving' \in [Workers -> [Tasks -> Sound \cup {NoValue}]]
BY DEF BreakerInv, Change

\* A task that moves on is in one of the states of a task.
LEMMA TaskMoves ==
    ASSUME NEW w \in Workers, NEW t \in Tasks, NEW s \in {"idle", "sending", "probing"},
           BreakerInv, task' = [task EXCEPT ![w][t] = s]
    PROVE  task' \in [Workers -> [Tasks -> {"idle", "sending", "probing"}]]
BY DEF BreakerInv

\* allow_request preserves the invariant.
LEMMA AllowRequestInv ==
    ASSUME NEW w \in Workers, NEW t \in Tasks, BreakerInv, AllowRequest(w, t)
    PROVE  BreakerInv'
<1>1. PICK s \in {"sending", "probing"} : task' = [task EXCEPT ![w][t] = s]
  BY DEF AllowRequest
<1>2. task' \in [Workers -> [Tasks -> {"idle", "sending", "probing"}]]
  BY <1>1, TaskMoves
<1>3. CASE UNCHANGED <<circuit, saving>>
  BY <1>2, <1>3 DEF AllowRequest, BreakerInv
<1>4. CASE MayTest(circuit[w]) /\ Change(w, t, HalfOpen(circuit[w]))
  <2>1. circuit[w] \in Sound /\ circuit[w].state = "open"
    BY <1>4 DEF BreakerInv, MayTest
  <2>2. HalfOpen(circuit[w]) \in Sound
    BY <2>1, HalfOpenSound
  <2> QED BY <1>2, <1>4, <2>2, ChangeSound DEF AllowRequest, BreakerInv
<1> QED BY <1>3, <1>4 DEF AllowRequest

\* record_success and record_failure preserve the invariant.
LEMMA RecordInv ==
    ASSUME NEW w \in Workers, NEW t \in Tasks, NEW ok \in BOOLEAN, BreakerInv, Record(w, t, ok)
    PROVE  BreakerInv'
<1>1. task' \in [Workers -> [Tasks -> {"idle", "sending", "probing"}]]
  BY TaskMoves DEF Record
<1>2. circuit[w] \in Sound
  BY DEF BreakerInv
<1>3. (IF ok THEN Closed(circuit[w]) ELSE Failed(circuit[w])) \in Sound
  BY <1>2, ClosedSound, FailedSound
<1> QED BY <1>1, <1>3, ChangeSound DEF Record, BreakerInv

\* persist_circuit preserves the invariant.
LEMMA PersistInv ==
    ASSUME NEW w \in Workers, NEW t \in Tasks, BreakerInv, PersistCircuit(w, t)
    PROVE  BreakerInv'
<1>1. saving[w][t] \in Sound
  BY DEF PersistCircuit, BreakerInv
<1> QED BY <1>1 DEF PersistCircuit, BreakerInv

\* A restart loads a sound circuit.
LEMMA RestartInv ==
    ASSUME NEW w \in Workers, BreakerInv, Restart(w)
    PROVE  BreakerInv'
<1>1. Loaded(saved) \in Sound
  BY DefaultSound DEF Loaded, BreakerInv
<1>2. circuit' \in [Workers -> Sound] /\ connected' \in [Workers -> BOOLEAN]
  BY <1>1, DefaultSound DEF Restart, BreakerInv
<1> QED BY <1>2 DEF Restart, BreakerInv

\* Every circuit is sound in every reachable state.
THEOREM CircuitsSound == BreakerSpec => []BreakerInv
<1>1. BreakerInit => BreakerInv
  BY DefaultSound DEF BreakerInit, BreakerInv
<1>2. BreakerInv /\ [BreakerNext]_bvars => BreakerInv'
  <2> SUFFICES ASSUME BreakerInv, [BreakerNext]_bvars PROVE BreakerInv'
    OBVIOUS
  <2>1. ASSUME NEW w \in Workers, NEW t \in Tasks, AllowRequest(w, t) PROVE BreakerInv'
    BY <2>1, AllowRequestInv
  <2>2. ASSUME NEW w \in Workers, NEW t \in Tasks, DropTask(w, t) PROVE BreakerInv'
    BY <2>2 DEF DropTask, BreakerInv
  <2>3. ASSUME NEW w \in Workers, NEW t \in Tasks, PersistCircuit(w, t) PROVE BreakerInv'
    BY <2>3, PersistInv
  <2>4. ASSUME NEW w \in Workers, NEW t \in Tasks, NEW ok \in BOOLEAN, Record(w, t, ok)
        PROVE  BreakerInv'
    BY <2>4, RecordInv
  <2>5. ASSUME NEW w \in Workers, Cooldown(w) PROVE BreakerInv'
    <3>1. circuit[w] \in Sound
      BY DEF BreakerInv
    <3>2. [circuit[w] EXCEPT !.cooled = TRUE] \in Sound
      BY <3>1, CooledSound
    <3> QED BY <2>5, <3>2 DEF Cooldown, BreakerInv
  <2>6. ASSUME NEW w \in Workers, Restart(w) PROVE BreakerInv'
    BY <2>6, RestartInv
  <2>7. CASE SavedCooldown
    <3>1. saved \in Sound
      BY <2>7 DEF SavedCooldown, BreakerInv, NoValue
    <3>2. [saved EXCEPT !.cooled = TRUE] \in Sound
      BY <3>1, CooledSound
    <3> QED BY <2>7, <3>2 DEF SavedCooldown, BreakerInv
  <2>8. CASE Expire
    BY <2>8 DEF Expire, BreakerInv
  <2>9. CASE UNCHANGED bvars
    BY <2>9 DEF bvars, BreakerInv
  <2> QED BY <2>1, <2>2, <2>3, <2>4, <2>5, <2>6, <2>7, <2>8, <2>9 DEF BreakerNext
<1> QED BY <1>1, <1>2, PTL DEF BreakerSpec

\* Type correctness of the circuit breaker.
THEOREM BreakerTypeCorrect == BreakerSpec => []BreakerTypeOK
<1>1. BreakerInv => BreakerTypeOK
  BY DEF BreakerInv, BreakerTypeOK, Sound
<1> QED BY <1>1, CircuitsSound, PTL

\* A circuit that has counted threshold failures in a row is never closed and
\* one that has not is never open, in memory, in Redis or after a restart,
\* whatever the order in which concurrent saves arrive.
THEOREM TripsAtThreshold == BreakerSpec => []TripConsistent
<1>1. BreakerInv => TripConsistent
  BY DEF BreakerInv, TripConsistent, Sound
<1> QED BY <1>1, CircuitsSound, PTL
=============================================================================
