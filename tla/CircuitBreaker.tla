---------------------------- MODULE CircuitBreaker ----------------------------
(***************************************************************************)
(* worker/src/circuit_breaker.rs: the circuit of one endpoint, kept in the *)
(* memory of every worker process and saved to one Redis key after each    *)
(* change.  The lock on the circuits is released before the save, so the   *)
(* saves of concurrent tasks may reach Redis in any order.                 *)
(*                                                                         *)
(* Circuits of different endpoints share nothing, so one is modelled.      *)
(* opened_at is abstracted to whether the cooldown has passed; failures    *)
(* are counted up to the threshold, beyond which the code does not tell    *)
(* them apart; total_opens is only logged.                                 *)
(***************************************************************************)
EXTENDS Naturals, FiniteSets

CONSTANTS
    Workers,          \* worker processes
    Tasks,            \* delivery tasks of one process that run at a time
    FailureThreshold, \* CircuitBreakerConfig.failure_threshold
    RedisFails        \* may a Redis command fail

ASSUME BreakerAssumption ==
    /\ FailureThreshold \in Nat \ {0}
    /\ RedisFails \in BOOLEAN

VARIABLES
    circuit,    \* circuit[w]: the entry of w's HashMap
    connected,  \* connected[w]: did w connect to Redis when it started
    saved,      \* the value of the Redis key, NoValue when there is none
    task,       \* task[w][t]: where a delivery task is
    saving      \* saving[w][t]: the value the task is about to save

bvars == <<circuit, connected, saved, task, saving>>

Circuits == [state : {"closed", "open", "half_open"},
             consecutive_failures : 0..FailureThreshold,
             cooled : BOOLEAN]
NoValue  == [state |-> "none"]
Default  == [state |-> "closed", consecutive_failures |-> 0, cooled |-> FALSE]

BreakerTypeOK ==
    /\ circuit \in [Workers -> Circuits]
    /\ connected \in [Workers -> BOOLEAN]
    /\ saved \in Circuits \cup {NoValue}
    /\ task \in [Workers -> [Tasks -> {"idle", "sending", "probing"}]]
    /\ saving \in [Workers -> [Tasks -> Circuits \cup {NoValue}]]

BreakerInit ==
    /\ circuit = [w \in Workers |-> Default]
    /\ connected \in [Workers -> BOOLEAN]
    /\ saved = NoValue
    /\ task = [w \in Workers |-> [t \in Tasks |-> "idle"]]
    /\ saving = [w \in Workers |-> [t \in Tasks |-> NoValue]]

\* The new value of the circuit, which the task saves after unlocking.
Change(w, t, c) ==
    /\ circuit' = [circuit EXCEPT ![w] = c]
    /\ saving' = IF connected[w] THEN [saving EXCEPT ![w][t] = c] ELSE saving

\* Mutant: the cooldown only ends while the count is below the threshold.
MutMayTest(c) == c.state = "open" /\ c.cooled /\ c.consecutive_failures < FailureThreshold

MayTest(c) == c.state = "open" /\ c.cooled

HalfOpen(c) ==
    [state |-> "half_open", consecutive_failures |-> c.consecutive_failures, cooled |-> FALSE]

\* allow_request: through a closed or half-open circuit, or through an open
\* one whose cooldown has passed, which becomes half-open.
AllowRequest(w, t) ==
    /\ task[w][t] = "idle" /\ saving[w][t] = NoValue
    /\ \/ /\ circuit[w].state = "closed"
          /\ task' = [task EXCEPT ![w][t] = "sending"]
          /\ UNCHANGED <<circuit, saving>>
       \/ /\ circuit[w].state = "half_open"
          /\ task' = [task EXCEPT ![w][t] = "probing"]
          /\ UNCHANGED <<circuit, saving>>
       \/ /\ MayTest(circuit[w])
          /\ task' = [task EXCEPT ![w][t] = "probing"]
          /\ Change(w, t, HalfOpen(circuit[w]))
    /\ UNCHANGED <<connected, saved>>

\* Mutant: a success closes the circuit and forgets to reset the count.
MutClosed(c) == [c EXCEPT !.state = "closed", !.cooled = FALSE]

\* record_success.
Closed(c) == [state |-> "closed", consecutive_failures |-> 0, cooled |-> FALSE]

Counted(c) ==
    IF c.consecutive_failures < FailureThreshold
    THEN c.consecutive_failures + 1 ELSE FailureThreshold

\* record_failure: opens the circuit from the threshold on, and starts the
\* cooldown again when it was open already.
Failed(c) ==
    IF Counted(c) >= FailureThreshold
    THEN [state |-> "open", consecutive_failures |-> Counted(c), cooled |-> FALSE]
    ELSE [c EXCEPT !.consecutive_failures = Counted(c)]

Record(w, t, ok) ==
    /\ task[w][t] # "idle" /\ saving[w][t] = NoValue
    /\ task' = [task EXCEPT ![w][t] = "idle"]
    /\ Change(w, t, IF ok THEN Closed(circuit[w]) ELSE Failed(circuit[w]))
    /\ UNCHANGED <<connected, saved>>

\* A statement of the task fails between the send and the record.
DropTask(w, t) ==
    /\ task[w][t] # "idle" /\ saving[w][t] = NoValue
    /\ task' = [task EXCEPT ![w][t] = "idle"]
    /\ UNCHANGED <<circuit, connected, saved, saving>>

\* persist_circuit: SETEX, its error only logged.
PersistCircuit(w, t) ==
    /\ saving[w][t] # NoValue
    /\ saving' = [saving EXCEPT ![w][t] = NoValue]
    /\ \/ saved' = saving[w][t]
       \/ RedisFails /\ UNCHANGED saved
    /\ UNCHANGED <<circuit, connected, task>>

\* cooldown_secs after opened_at, in memory and in the saved value.
Cooldown(w) ==
    /\ circuit[w].state = "open" /\ ~circuit[w].cooled
    /\ circuit' = [circuit EXCEPT ![w].cooled = TRUE]
    /\ UNCHANGED <<connected, saved, task, saving>>

SavedCooldown ==
    /\ saved.state = "open" /\ ~saved.cooled
    /\ saved' = [saved EXCEPT !.cooled = TRUE]
    /\ UNCHANGED <<circuit, connected, task, saving>>

\* The key's time to live, three cooldowns, is over.
Expire ==
    /\ saved # NoValue
    /\ saved' = NoValue
    /\ UNCHANGED <<circuit, connected, task, saving>>

\* Mutant: a missing key is not replaced by the default.
MutLoaded(v) == v

\* load_from_redis; an endpoint without a key gets the default circuit.
Loaded(v) == IF v = NoValue THEN Default ELSE v

\* The process is started again: with_redis loads the saved state, or goes on
\* without Redis.
Restart(w) ==
    /\ task' = [task EXCEPT ![w] = [t \in Tasks |-> "idle"]]
    /\ saving' = [saving EXCEPT ![w] = [t \in Tasks |-> NoValue]]
    /\ \/ /\ connected' = [connected EXCEPT ![w] = TRUE]
          /\ circuit' = [circuit EXCEPT ![w] = Loaded(saved)]
       \/ /\ RedisFails
          /\ \E b \in BOOLEAN : connected' = [connected EXCEPT ![w] = b]
          /\ circuit' = [circuit EXCEPT ![w] = Default]
    /\ UNCHANGED saved

BreakerNext ==
    \/ \E w \in Workers, t \in Tasks :
          \/ AllowRequest(w, t) \/ DropTask(w, t) \/ PersistCircuit(w, t)
          \/ \E ok \in BOOLEAN : Record(w, t, ok)
    \/ \E w \in Workers : Cooldown(w) \/ Restart(w)
    \/ SavedCooldown \/ Expire

BreakerSpec == BreakerInit /\ [][BreakerNext]_bvars

-----------------------------------------------------------------------------
Tripped(c) == c.state # "closed" <=> c.consecutive_failures >= FailureThreshold

\* A circuit that has counted threshold failures in a row is never closed, and
\* one that has not is never open: in memory, on its way to Redis, in Redis
\* and after a restart.
TripConsistent ==
    /\ \A w \in Workers : Tripped(circuit[w])
    /\ saved # NoValue => Tripped(saved)
    /\ \A w \in Workers, t \in Tasks : saving[w][t] # NoValue => Tripped(saving[w][t])

\* "After the cooldown, the circuit enters "half-open" and allows one test
\* request" (worker/src/circuit_breaker.rs).
OneTestRequest ==
    \A w \in Workers : Cardinality({t \in Tasks : task[w][t] = "probing"}) <= 1

\* "State is persisted to Redis when available, surviving worker restarts"
\* (worker/src/circuit_breaker.rs): when nothing is left to save, the saved
\* state is that of the circuit, unless it has expired.
SavedIsCurrent ==
    \A w \in Workers :
        connected[w] /\ saved # NoValue /\ (\A v \in Workers, t \in Tasks : saving[v][t] = NoValue)
            => saved.state = circuit[w].state

\* Time passes, some task of a process goes on as long as there is one, and
\* deliveries keep coming.
BreakerFairness ==
    \A w \in Workers :
        /\ WF_bvars(Cooldown(w))
        /\ SF_bvars(\E t \in Tasks : AllowRequest(w, t))
        /\ WF_bvars(\E t \in Tasks :
               PersistCircuit(w, t) \/ DropTask(w, t) \/ \E ok \in BOOLEAN : Record(w, t, ok))

BreakerFairSpec == BreakerSpec /\ BreakerFairness

\* No endpoint is cut off for ever: an open circuit is tested again, across
\* late failures that restart the cooldown, and across restarts.
OpenIsTested == \A w \in Workers : circuit[w].state = "open" ~> circuit[w].state # "open"
=============================================================================
