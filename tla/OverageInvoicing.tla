--------------------------- MODULE OverageInvoicing ---------------------------
(***************************************************************************)
(* The daily overage invoicing of the API processes: every process sleeps, *)
(* takes a lock that expires (JobQueue::try_acquire_lock) and invoices the *)
(* overage of the month before (api/src/background.rs,                     *)
(* api/src/jobs/overage_invoicing.rs).                                     *)
(*                                                                         *)
(* Time is a number of slots; months are numbered from 0.                  *)
(***************************************************************************)
EXTENDS Integers, Sequences

CONSTANTS
    Instances,   \* API processes
    Customers,
    Plans,       \* paid plans with a price per event
    Unbilled,    \* no such plan, inactive, or overage not allowed
    Day,         \* slots a process sleeps between two runs, 24 hours
    LockTTL,     \* slots the lock lives, one hour
    Month,       \* slots of a month
    End,         \* bound: last slot
    MaxInvoices, \* bound: invoices
    Faults       \* "redis", "sql": a command fails, "crash": a process restarts

ASSUME InvoicingAssumption ==
    /\ Unbilled \notin Plans
    /\ Day \in Nat \ {0} /\ LockTTL \in Nat \ {0} /\ Month \in Nat \ {0}
    /\ End \in Nat /\ MaxInvoices \in Nat
    /\ Faults \subseteq {"redis", "sql", "crash"}

VARIABLES
    now,       \* the current slot
    plan,      \* plan[c]: customers.plan, Unbilled if no invoice is due
    overage,   \* pairs of a customer and a month with daily_event_usage.overage_count > 0
    lock,      \* slot in which hooksniff:lock:overage_invoicing expires
    wake,      \* wake[i]: end of the sleep of process i
    stage,     \* stage[i]: what its job is doing
    period,    \* period[i]: the month it invoices
    todo,      \* todo[i]: pairs of a customer and a plan it has still to treat
    current,   \* current[i]: the pair it is about to insert, in a set
    invoices,  \* the invoices of provider 'overage'
    listed     \* history: the customers the last query of i has found

jobVars == <<stage, period, todo, current, listed>>
ovars == <<now, plan, overage, lock, wake, jobVars, invoices>>

MonthOf(slot) == slot \div Month

Invoice == [customer : Customers, plan : Plans, period : Int, created : Nat]

InvoicingTypeOK ==
    /\ now \in Nat /\ lock \in Int
    /\ plan \in [Customers -> Plans \cup {Unbilled}]
    /\ overage \subseteq Customers \X Nat
    /\ wake \in [Instances -> Nat]
    /\ stage \in [Instances -> {"asleep", "granted", "loop", "insert"}]
    /\ period \in [Instances -> Int]
    /\ todo \in [Instances -> SUBSET (Customers \X Plans)]
    /\ current \in [Instances -> SUBSET (Customers \X Plans)]
    /\ listed \in [Instances -> SUBSET Customers]
    /\ invoices \in Seq(Invoice)

InvoicingInit ==
    /\ now = 0
    /\ plan \in [Customers -> Plans \cup {Unbilled}]
    /\ overage = {}
    /\ lock = 0
    /\ wake \in [Instances -> Day .. 2 * Day - 1]
    /\ stage = [i \in Instances |-> "asleep"]
    /\ period = [i \in Instances |-> 0]
    /\ todo = [i \in Instances |-> {}]
    /\ current = [i \in Instances |-> {}]
    /\ listed = [i \in Instances |-> {}]
    /\ invoices = <<>>

Tick == now < End /\ now' = now + 1 /\ UNCHANGED <<plan, overage, lock, wake, jobVars, invoices>>

ChangePlan(c) ==
    /\ \E p \in (Plans \cup {Unbilled}) \ {plan[c]} : plan' = [plan EXCEPT ![c] = p]
    /\ UNCHANGED <<now, overage, lock, wake, jobVars, invoices>>

\* A day ends with events beyond the plan.
UseOverage(c) ==
    /\ <<c, MonthOf(now)>> \notin overage
    /\ overage' = overage \cup {<<c, MonthOf(now)>>}
    /\ UNCHANGED <<now, plan, lock, wake, jobVars, invoices>>

-----------------------------------------------------------------------------
Sleep(i) ==
    /\ stage' = [stage EXCEPT ![i] = "asleep"]
    /\ wake' = [wake EXCEPT ![i] = now + Day]

Awake(i) == stage[i] = "asleep" /\ wake[i] <= now

\* SET NX EX: the key is absent or has expired.
LockFree == lock <= now

Acquire(i) ==
    /\ Awake(i) /\ LockFree
    /\ lock' = now + LockTTL
    /\ stage' = [stage EXCEPT ![i] = "granted"]
    /\ UNCHANGED <<now, plan, overage, wake, period, todo, current, listed, invoices>>

Refused(i) ==
    /\ Awake(i) /\ ~LockFree
    /\ Sleep(i)
    /\ UNCHANGED <<now, plan, overage, lock, period, todo, current, listed, invoices>>

\* An error of Redis counts as a grant: unwrap_or(true).
AcquireError(i) ==
    /\ "redis" \in Faults /\ Awake(i)
    /\ stage' = [stage EXCEPT ![i] = "granted"]
    /\ UNCHANGED <<now, plan, overage, lock, wake, period, todo, current, listed, invoices>>

-----------------------------------------------------------------------------
(* run_overage_invoicing.                                                  *)

\* Mutant: the current month.
MutInvoiced(slot) == MonthOf(slot)

\* prev_month_start .. prev_month_end.
Invoiced(slot) == MonthOf(slot) - 1

\* Mutant: customers are found whatever their plan.
MutDue(c, month) == <<c, month>> \in overage

\* The customer has overage to pay for.
Due(c, month) == <<c, month>> \in overage /\ plan[c] \in Plans

FindOverage(i) ==
    /\ stage[i] = "granted"
    /\ period' = [period EXCEPT ![i] = Invoiced(now)]
    /\ LET found == {c \in Customers : Due(c, Invoiced(now))}
       IN  /\ todo' = [todo EXCEPT ![i] = {<<c, plan[c]>> : c \in found}]
           /\ listed' = [listed EXCEPT ![i] = found]
    /\ stage' = [stage EXCEPT ![i] = "loop"]
    /\ UNCHANGED <<now, plan, overage, lock, wake, current, invoices>>

\* Mutant: no invoice is looked for.
MutExists(i, x) == FALSE

\* An invoice of this customer and plan was created in the invoiced month.
Exists(i, x) ==
    \E k \in DOMAIN invoices :
        /\ invoices[k].customer = x[1] /\ invoices[k].plan = x[2]
        /\ invoices[k].created = period[i]

CheckExisting(i) ==
    /\ stage[i] = "loop"
    /\ \E x \in todo[i] :
          /\ todo' = [todo EXCEPT ![i] = @ \ {x}]
          /\ IF Exists(i, x)
             THEN UNCHANGED <<stage, current>>
             ELSE /\ stage' = [stage EXCEPT ![i] = "insert"]
                  /\ current' = [current EXCEPT ![i] = {x}]
    /\ UNCHANGED <<now, plan, overage, lock, wake, period, listed, invoices>>

InsertInvoice(i) ==
    /\ stage[i] = "insert" /\ Len(invoices) < MaxInvoices
    /\ \E x \in current[i] :
          invoices' = Append(invoices, [customer |-> x[1], plan |-> x[2],
                                        period |-> period[i], created |-> MonthOf(now)])
    /\ stage' = [stage EXCEPT ![i] = "loop"]
    /\ current' = [current EXCEPT ![i] = {}]
    /\ UNCHANGED <<now, plan, overage, lock, wake, period, todo, listed>>

Finish(i) ==
    /\ stage[i] = "loop" /\ todo[i] = {}
    /\ Sleep(i)
    /\ UNCHANGED <<now, plan, overage, lock, period, todo, current, listed, invoices>>

\* A statement fails and ends the run, or the process restarts and sleeps.
Abort(i) ==
    /\ \/ "sql" \in Faults /\ stage[i] # "asleep"
       \/ "crash" \in Faults
    /\ Sleep(i)
    /\ todo' = [todo EXCEPT ![i] = {}]
    /\ current' = [current EXCEPT ![i] = {}]
    /\ UNCHANGED <<now, plan, overage, lock, period, listed, invoices>>

InstanceStep(i) ==
    \/ Acquire(i) \/ Refused(i) \/ AcquireError(i)
    \/ FindOverage(i) \/ CheckExisting(i) \/ InsertInvoice(i)
    \/ Finish(i) \/ Abort(i)

InvoicingNext ==
    \/ Tick
    \/ \E c \in Customers : ChangePlan(c) \/ UseOverage(c)
    \/ \E i \in Instances : InstanceStep(i)

InvoicingSpec == InvoicingInit /\ [][InvoicingNext]_ovars

-----------------------------------------------------------------------------
\* Whatever the order of runs, restarts and plan changes, and also when a run
\* passes midnight: an invoice is for a month that was over when it was
\* created, in which the customer had overage.
InvoiceJustified ==
    \A k \in DOMAIN invoices :
        /\ <<invoices[k].customer, invoices[k].period>> \in overage
        /\ invoices[k].period < invoices[k].created

\* What makes InvoiceJustified inductive: a run treats a month that is over and
\* customers with overage in it.
RunsJustified ==
    \A i \in Instances :
        /\ stage[i] \in {"loop", "insert"} => period[i] < MonthOf(now)
        /\ stage[i] # "insert" => current[i] = {}
        /\ \A x \in todo[i] \cup current[i] : <<x[1], period[i]>> \in overage

\* "Generates one invoice per qualifying customer" (overage_invoicing.rs):
\* the overage of a month is invoiced once.
OneInvoice ==
    \A j, k \in DOMAIN invoices :
        invoices[j].customer = invoices[k].customer /\ invoices[j].period = invoices[k].period
            => j = k

\* "At the start of each month, generates overage invoices for the previous
\* month" (overage_invoicing.rs): a run that ends well leaves an invoice for
\* every customer it has found.
OverageInvoiced ==
    [][\A i \in Instances : Finish(i) =>
          \A c \in listed[i] : \E k \in DOMAIN invoices :
              invoices[k].customer = c /\ invoices[k].period = period[i]]_ovars
=============================================================================
