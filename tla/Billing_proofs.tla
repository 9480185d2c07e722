----------------------------- MODULE Billing_proofs -----------------------------
(***************************************************************************)
(* Proofs about what a customer is billed for.  Every overage invoice is   *)
(* justified, for any number of processes and customers and any length of  *)
(* a day, a month and the lock (OverageInvoicing); nothing is counted      *)
(* twice on its way into the webhook quota, and no delivery is free, for   *)
(* any number of processes, requests and batch sizes (WebhookQuota).       *)
(***************************************************************************)
EXTENDS OverageInvoicing, WebhookQuota, FiniteSetTheorems, TLAPS

-----------------------------------------------------------------------------
(* The invoicing job.                                                      *)

Inv == InvoicingTypeOK /\ RunsJustified /\ InvoiceJustified

LEMMA Months == ASSUME NEW a \in Nat
                PROVE  MonthOf(a) \in Nat /\ MonthOf(a) <= MonthOf(a + 1)
BY InvoicingAssumption, SMT DEF MonthOf

LEMMA TypeInit == InvoicingInit => InvoicingTypeOK
BY InvoicingAssumption DEF InvoicingInit, InvoicingTypeOK, Invoice

LEMMA TypeNext == InvoicingTypeOK /\ [InvoicingNext]_ovars => InvoicingTypeOK'
<1> SUFFICES ASSUME InvoicingTypeOK, [InvoicingNext]_ovars PROVE InvoicingTypeOK'
  OBVIOUS
<1> USE DEF InvoicingTypeOK
<1>1. CASE Tick
  BY <1>1 DEF Tick, jobVars
<1>2. ASSUME NEW c \in Customers, ChangePlan(c) PROVE InvoicingTypeOK'
  BY <1>2 DEF ChangePlan, jobVars
<1>3. ASSUME NEW c \in Customers, UseOverage(c) PROVE InvoicingTypeOK'
  <2>1. MonthOf(now) \in Nat
    BY Months
  <2> QED BY <1>3, <2>1 DEF UseOverage, jobVars
<1>4. ASSUME NEW i \in Instances, Acquire(i) PROVE InvoicingTypeOK'
  BY <1>4, InvoicingAssumption DEF Acquire
<1>5. ASSUME NEW i \in Instances, Refused(i) PROVE InvoicingTypeOK'
  BY <1>5, InvoicingAssumption DEF Refused, Sleep, jobVars
<1>6. ASSUME NEW i \in Instances, AcquireError(i) PROVE InvoicingTypeOK'
  BY <1>6 DEF AcquireError
<1>7. ASSUME NEW i \in Instances, FindOverage(i) PROVE InvoicingTypeOK'
  <2>1. Invoiced(now) \in Int
    BY Months DEF Invoiced
  <2> DEFINE found == {c \in Customers : Due(c, Invoiced(now))}
  <2>2. {<<c, plan[c]>> : c \in found} \in SUBSET (Customers \X Plans)
    <3>1. \A c \in found : <<c, plan[c]>> \in Customers \X Plans
      BY DEF Due
    <3> QED BY <3>1, Zenon
  <2>3. todo' = [todo EXCEPT ![i] = {<<c, plan[c]>> : c \in found}] /\ listed' = [listed EXCEPT ![i] = found]
    BY <1>7 DEF FindOverage
  <2> HIDE DEF found
  <2>4. todo' \in [Instances -> SUBSET (Customers \X Plans)]
    BY <2>2, <2>3
  <2>5. found \in SUBSET Customers
    BY DEF found
  <2>6. listed' \in [Instances -> SUBSET Customers]
    BY <2>3, <2>5
  <2> QED BY <1>7, <2>1, <2>4, <2>6 DEF FindOverage
<1>8. ASSUME NEW i \in Instances, CheckExisting(i) PROVE InvoicingTypeOK'
  <2>1. PICK x \in todo[i] :
          /\ todo' = [todo EXCEPT ![i] = @ \ {x}]
          /\ \/ UNCHANGED <<stage, current>>
             \/ /\ stage' = [stage EXCEPT ![i] = "insert"]
                /\ current' = [current EXCEPT ![i] = {x}]
    BY <1>8 DEF CheckExisting
  <2>2. stage' \in [Instances -> {"asleep", "granted", "loop", "insert"}]
    BY <2>1
  <2>3. current' \in [Instances -> SUBSET (Customers \X Plans)]
    <3>1. {x} \in SUBSET (Customers \X Plans)
      BY <2>1
    <3> HIDE <2>1
    <3>2. CASE current' = [current EXCEPT ![i] = {x}]
      BY <3>1, <3>2
    <3>3. CASE UNCHANGED current
      BY <3>3
    <3> QED BY <2>1, <3>2, <3>3
  <2>4. todo' \in [Instances -> SUBSET (Customers \X Plans)]
    BY <2>1
  <2> QED BY <1>8, <2>2, <2>3, <2>4 DEF CheckExisting
<1>9. ASSUME NEW i \in Instances, InsertInvoice(i) PROVE InvoicingTypeOK'
  <2>1. PICK x \in current[i] :
          invoices' = Append(invoices, [customer |-> x[1], plan |-> x[2],
                                        period |-> period[i], created |-> MonthOf(now)])
    BY <1>9 DEF InsertInvoice
  <2>2. x[1] \in Customers /\ x[2] \in Plans
    BY <2>1
  <2>3. period[i] \in Int /\ MonthOf(now) \in Nat
    BY Months
  <2>4. [customer |-> x[1], plan |-> x[2], period |-> period[i], created |-> MonthOf(now)] \in Invoice
    BY <2>2, <2>3 DEF Invoice
  <2>5. invoices' \in Seq(Invoice)
    BY <2>1, <2>4
  <2> QED BY <1>9, <2>5 DEF InsertInvoice
<1>10. ASSUME NEW i \in Instances, Finish(i) PROVE InvoicingTypeOK'
  BY <1>10, InvoicingAssumption DEF Finish, Sleep
<1>11. ASSUME NEW i \in Instances, Abort(i) PROVE InvoicingTypeOK'
  BY <1>11, InvoicingAssumption DEF Abort, Sleep
<1>12. CASE UNCHANGED ovars
  BY <1>12 DEF ovars, jobVars
<1> QED BY <1>1, <1>2, <1>3, <1>4, <1>5, <1>6, <1>7, <1>8, <1>9, <1>10, <1>11, <1>12 DEF InvoicingNext, InstanceStep

\* The types of the state are kept, whatever the number of processes.
THEOREM InvoicingTypeCorrect == InvoicingSpec => []InvoicingTypeOK
BY TypeInit, TypeNext, PTL DEF InvoicingSpec

-----------------------------------------------------------------------------
LEMMA JustifiedInit == InvoicingInit => RunsJustified /\ InvoiceJustified
BY DEF InvoicingInit, RunsJustified, InvoiceJustified

LEMMA RunsNext ==
    InvoicingTypeOK /\ RunsJustified /\ [InvoicingNext]_ovars => RunsJustified'
<1> SUFFICES ASSUME InvoicingTypeOK, RunsJustified, [InvoicingNext]_ovars PROVE RunsJustified'
  OBVIOUS
<1>1. CASE Tick
  <2>1. now \in Nat /\ now' = now + 1
    BY <1>1 DEF Tick, InvoicingTypeOK
  <2>2. MonthOf(now) \in Nat /\ MonthOf(now') \in Nat /\ MonthOf(now) <= MonthOf(now')
    BY <2>1, Months
  <2>3. \A j \in Instances : period[j] \in Int
    BY DEF InvoicingTypeOK
  <2> QED BY <1>1, <2>2, <2>3 DEF Tick, RunsJustified, jobVars
<1>2. ASSUME NEW c \in Customers, ChangePlan(c) \/ UseOverage(c) PROVE RunsJustified'
  BY <1>2 DEF ChangePlan, UseOverage, RunsJustified, jobVars
<1>3. ASSUME NEW i \in Instances, Acquire(i) \/ Refused(i) \/ AcquireError(i) PROVE RunsJustified'
  BY <1>3 DEF Acquire, Refused, AcquireError, Awake, Sleep, RunsJustified, InvoicingTypeOK
<1>4. ASSUME NEW i \in Instances, FindOverage(i) PROVE RunsJustified'
  <2> DEFINE found == {c \in Customers : Due(c, Invoiced(now))}
  <2>1. /\ period' = [period EXCEPT ![i] = Invoiced(now)]
        /\ todo' = [todo EXCEPT ![i] = {<<c, plan[c]>> : c \in found}]
        /\ stage' = [stage EXCEPT ![i] = "loop"]
        /\ UNCHANGED <<now, current, overage>>
    BY <1>4 DEF FindOverage
  <2>2. current[i] = {}
    BY <1>4 DEF FindOverage, RunsJustified
  <2>3. Invoiced(now) < MonthOf(now) /\ Invoiced(now) \in Int
    <3>1. MonthOf(now) \in Nat
      BY Months DEF InvoicingTypeOK
    <3> QED BY <3>1 DEF Invoiced
  <2>4. \A x \in {<<c, plan[c]>> : c \in found} : <<x[1], Invoiced(now)>> \in overage
    <3>1. ASSUME NEW c \in found PROVE <<<<c, plan[c]>>[1], Invoiced(now)>> \in overage
      <4>1. <<c, Invoiced(now)>> \in overage
        BY <3>1 DEF Due
      <4> QED BY <4>1
    <3> QED BY <3>1, Zenon
  <2>5. ASSUME NEW j \in Instances, j = i PROVE RunsJustified!(j)'
    BY <2>1, <2>2, <2>3, <2>4, <2>5 DEF InvoicingTypeOK
  <2>6. ASSUME NEW j \in Instances, j # i PROVE RunsJustified!(j)'
    BY <2>1, <2>6 DEF InvoicingTypeOK, RunsJustified
  <2> QED BY <2>5, <2>6 DEF RunsJustified
<1>5. ASSUME NEW i \in Instances, CheckExisting(i) PROVE RunsJustified'
  <2>1. PICK x \in todo[i] :
          /\ todo' = [todo EXCEPT ![i] = @ \ {x}]
          /\ \/ UNCHANGED <<stage, current>>
             \/ /\ stage' = [stage EXCEPT ![i] = "insert"]
                /\ current' = [current EXCEPT ![i] = {x}]
    BY <1>5 DEF CheckExisting
  <2>2. UNCHANGED <<now, overage, period>> /\ stage[i] = "loop"
    BY <1>5 DEF CheckExisting
  <2>3. ASSUME NEW j \in Instances, j = i PROVE RunsJustified!(j)'
    <3>1. todo'[i] \cup current'[i] \subseteq todo[i] \cup current[i]
      BY <2>1 DEF InvoicingTypeOK
    <3>2. stage'[i] # "insert" => current'[i] = {}
      BY <2>1, <2>2 DEF InvoicingTypeOK, RunsJustified
    <3>3. period[i] < MonthOf(now)
      BY <2>2 DEF RunsJustified
    <3> QED BY <2>2, <2>3, <3>1, <3>2, <3>3 DEF RunsJustified
  <2>4. ASSUME NEW j \in Instances, j # i PROVE RunsJustified!(j)'
    <3>1. stage'[j] = stage[j] /\ todo'[j] = todo[j] /\ current'[j] = current[j]
      BY <2>1, <2>4 DEF InvoicingTypeOK
    <3> QED BY <2>2, <3>1 DEF RunsJustified
  <2> QED BY <2>3, <2>4 DEF RunsJustified
<1>6. ASSUME NEW i \in Instances, InsertInvoice(i) PROVE RunsJustified'
  BY <1>6 DEF InsertInvoice, RunsJustified, InvoicingTypeOK
<1>7. ASSUME NEW i \in Instances, Finish(i) \/ Abort(i) PROVE RunsJustified'
  BY <1>7 DEF Finish, Abort, Sleep, RunsJustified, InvoicingTypeOK
<1>8. CASE UNCHANGED ovars
  BY <1>8 DEF ovars, jobVars, RunsJustified
<1> QED BY <1>1, <1>2, <1>3, <1>4, <1>5, <1>6, <1>7, <1>8 DEF InvoicingNext, InstanceStep

LEMMA JustifiedNext ==
    InvoicingTypeOK /\ RunsJustified /\ InvoiceJustified /\ [InvoicingNext]_ovars => InvoiceJustified'
<1> SUFFICES ASSUME InvoicingTypeOK, RunsJustified, InvoiceJustified, [InvoicingNext]_ovars
             PROVE  InvoiceJustified'
  OBVIOUS
<1>1. CASE invoices' = invoices /\ overage \subseteq overage'
  BY <1>1 DEF InvoiceJustified
<1>2. ASSUME NEW i \in Instances, InsertInvoice(i) PROVE InvoiceJustified'
  <2>1. PICK x \in current[i] :
          invoices' = Append(invoices, [customer |-> x[1], plan |-> x[2],
                                        period |-> period[i], created |-> MonthOf(now)])
    BY <1>2 DEF InsertInvoice
  <2>2. period[i] < MonthOf(now) /\ <<x[1], period[i]>> \in overage /\ overage' = overage
    BY <1>2, <2>1 DEF InsertInvoice, RunsJustified
  <2>3. invoices \in Seq(Invoice)
    BY DEF InvoicingTypeOK
  <2>4. ASSUME NEW k \in DOMAIN invoices' PROVE InvoiceJustified!(k)'
    <3>1. CASE k \in DOMAIN invoices
      <4>1. invoices'[k] = invoices[k]
        BY <2>1, <2>3, <3>1
      <4> QED BY <2>2, <3>1, <4>1 DEF InvoiceJustified
    <3>2. CASE k \notin DOMAIN invoices
      <4>1. invoices'[k] = [customer |-> x[1], plan |-> x[2],
                            period |-> period[i], created |-> MonthOf(now)]
        BY <2>1, <2>3, <2>4, <3>2
      <4> QED BY <2>2, <4>1
    <3> QED BY <3>1, <3>2
  <2> QED BY <2>4 DEF InvoiceJustified
<1>3. (invoices' = invoices /\ overage \subseteq overage') \/ \E i \in Instances : InsertInvoice(i)
  BY DEF InvoicingNext, InstanceStep, ovars, jobVars, Tick, ChangePlan, UseOverage, Acquire, Refused,
         AcquireError, FindOverage, CheckExisting, Finish, Abort
<1> QED BY <1>1, <1>2, <1>3

\* No interleaving of runs, restarts, plan changes and midnights creates an
\* invoice for a month that is not over or without overage.
THEOREM InvoicesJustified == InvoicingSpec => []InvoiceJustified
<1>1. InvoicingInit => Inv
  BY TypeInit, JustifiedInit DEF Inv
<1>2. Inv /\ [InvoicingNext]_ovars => Inv'
  BY TypeNext, RunsNext, JustifiedNext DEF Inv
<1>3. Inv => InvoiceJustified
  BY DEF Inv
<1> QED BY <1>1, <1>2, <1>3, PTL DEF InvoicingSpec

-----------------------------------------------------------------------------
(* Sums over finite sets.                                                  *)

LEMMA SubsetInduction ==
    ASSUME NEW S, IsFiniteSet(S), NEW G,
           \A T \in SUBSET S : (\A U \in SUBSET T : U # T => U \in G) => T \in G
    PROVE  SUBSET S \subseteq G
<1> DEFINE Bad == {T \in SUBSET S : T \notin G}
<1>1. SUFFICES ASSUME Bad # {} PROVE FALSE
  OBVIOUS
<1>2. IsWellFoundedOn(StrictSubsetOrdering(S), SUBSET S)
  BY FS_StrictSubsetOrderingWellFounded, FS_FiniteSubsetsOfFinite
<1>3. PICK T \in Bad : \A U \in Bad : <<U, T>> \notin StrictSubsetOrdering(S)
  <2> HIDE DEF Bad
  <2>1. Bad \subseteq SUBSET S
    BY DEF Bad
  <2> QED BY <1>1, <1>2, <2>1, WFMin
<1>4. \A U \in SUBSET T : U # T => U \in G
  BY <1>3 DEF StrictSubsetOrdering
<1> QED BY <1>3, <1>4

\* The element a fold takes next, and what is left then.
Pick(s) == CHOOSE x \in s : TRUE
Rest(s) == s \ {Pick(s)}

\* g[s] is the sum of f over s, for every subset s of S.
IsSum(g, f, S) ==
    g = [s \in SUBSET S |-> IF s = {} THEN 0 ELSE f[Pick(s)] + g[Rest(s)]]

SumOf(f, S) == CHOOSE g : IsSum(g, f, S)

\* The library's fold is this function at the whole set.
LEMMA FoldIsSum == ASSUME NEW f, NEW S
                   PROVE  MapThenSumSet(LAMBDA i : f[i], S) = SumOf(f, S)[S]
BY DEF MapThenSumSet, MapThenFoldSet, SumOf, IsSum, Pick, Rest

LEMMA PickRest ==
    ASSUME NEW s, s # {} PROVE Pick(s) \in s /\ Rest(s) \in SUBSET s /\ Rest(s) # s
BY DEF Pick, Rest

\* Two such functions agree wherever both are defined.
LEMMA SumUnique ==
    ASSUME NEW f, NEW S, IsFiniteSet(S), NEW A, NEW B, S \subseteq A, S \subseteq B,
           NEW g, NEW h, IsSum(g, f, A), IsSum(h, f, B)
    PROVE  g[S] = h[S]
<1> DEFINE G == {T \in SUBSET S : g[T] = h[T]}
<1>1. ASSUME NEW T \in SUBSET S, \A U \in SUBSET T : U # T => U \in G PROVE T \in G
  <2>1. CASE T = {}
    BY <2>1 DEF IsSum
  <2>2. CASE T # {}
    <3>1. g[Rest(T)] = h[Rest(T)]
      BY <1>1, <2>2, PickRest
    <3>2. g[T] = f[Pick(T)] + g[Rest(T)] /\ h[T] = f[Pick(T)] + h[Rest(T)]
      BY <2>2 DEF IsSum
    <3> QED BY <3>1, <3>2
  <2> QED BY <2>1, <2>2
<1> HIDE DEF G
<1>2. SUBSET S \subseteq G
  BY <1>1, SubsetInduction
<1> QED BY <1>2 DEF G

\* The recursion defines a function on the subsets of a finite set.
LEMMA SumExists == ASSUME NEW f, NEW S, IsFiniteSet(S) PROVE \E g : IsSum(g, f, S)
<1> DEFINE G == {T \in SUBSET S : \E g : IsSum(g, f, T)}
<1>1. ASSUME NEW T \in SUBSET S, \A U \in SUBSET T : U # T => U \in G PROVE T \in G
  <2> DEFINE h == [U \in (SUBSET T) \ {T} |-> SumOf(f, U)]
             F == [s \in SUBSET T |-> IF s = {} THEN 0 ELSE f[Pick(s)] + h[Rest(s)][Rest(s)]]
  <2>1. \A U \in SUBSET T : U # T => IsSum(h[U], f, U)
    BY <1>1 DEF SumOf
  <2>2. ASSUME NEW U \in SUBSET T, U # T PROVE h[U][U] = F[U]
    <3>1. CASE U = {}
      BY <2>1, <2>2, <3>1 DEF IsSum
    <3>2. CASE U # {}
      <4> DEFINE V == Rest(U)
      <4>1. V \in SUBSET U /\ V # U /\ V # T
        BY <2>2, <3>2, PickRest
      <4>2. IsSum(h[U], f, U) /\ IsSum(h[V], f, V) /\ IsFiniteSet(V)
        BY <2>1, <2>2, <4>1, FS_Subset
      <4>3. h[U][V] = h[V][V]
        <5> HIDE DEF h, V
        <5> QED BY <4>1, <4>2, SumUnique
      <4>4. h[U][U] = f[Pick(U)] + h[U][V]
        <5> HIDE DEF h
        <5> QED BY <3>2, <4>2 DEF IsSum
      <4> QED BY <3>2, <4>3, <4>4
    <3> QED BY <3>1, <3>2
  <2>3. F = [s \in SUBSET T |-> IF s = {} THEN 0 ELSE f[Pick(s)] + F[Rest(s)]]
    <3>1. ASSUME NEW s \in SUBSET T, s # {} PROVE h[Rest(s)][Rest(s)] = F[Rest(s)]
      <4>1. Rest(s) \in SUBSET T /\ Rest(s) # T
        BY <3>1, PickRest
      <4> HIDE DEF h, F
      <4> QED BY <2>2, <4>1
    <3> DEFINE B == [s \in SUBSET T |-> IF s = {} THEN 0 ELSE f[Pick(s)] + F[Rest(s)]]
    <3>2. ASSUME NEW s \in SUBSET T PROVE F[s] = B[s]
      <4>1. F[s] = IF s = {} THEN 0 ELSE f[Pick(s)] + h[Rest(s)][Rest(s)]
        OBVIOUS
      <4>2. B[s] = IF s = {} THEN 0 ELSE f[Pick(s)] + F[Rest(s)]
        OBVIOUS
      <4> HIDE DEF F, B, h
      <4> QED BY <3>1, <4>1, <4>2
    <3> QED BY <3>2, Zenon
  <2> QED BY <2>3 DEF IsSum
<1> HIDE DEF G
<1>2. SUBSET S \subseteq G
  BY <1>1, SubsetInduction
<1> QED BY <1>2 DEF G

\* The sum of a set is that of what is left, and the element taken.
LEMMA SumStep ==
    ASSUME NEW f, NEW S, IsFiniteSet(S)
    PROVE  \A T \in SUBSET S :
              SumOf(f, S)[T] = IF T = {} THEN 0 ELSE f[Pick(T)] + SumOf(f, S)[Rest(T)]
<1>1. IsSum(SumOf(f, S), f, S)
  BY SumExists DEF SumOf
<1> QED BY <1>1 DEF IsSum

\* A sum changes by what one of its terms does.
LEMMA SumChange ==
    ASSUME NEW S, IsFiniteSet(S), NEW f \in [S -> Int], NEW g \in [S -> Int],
           NEW i \in S, \A j \in S : j # i => g[j] = f[j]
    PROVE  LET t(h) == MapThenSumSet(LAMBDA j : h[j], S)
           IN  t(f) \in Int /\ t(g) = t(f) - f[i] + g[i]
<1> DEFINE F == SumOf(f, S)
           H == SumOf(g, S)
           G == {T \in SUBSET S : /\ F[T] \in Int /\ H[T] \in Int
                                  /\ H[T] = IF i \in T THEN F[T] - f[i] + g[i] ELSE F[T]}
<1>1. /\ \A T \in SUBSET S : F[T] = IF T = {} THEN 0 ELSE f[Pick(T)] + F[Rest(T)]
      /\ \A T \in SUBSET S : H[T] = IF T = {} THEN 0 ELSE g[Pick(T)] + H[Rest(T)]
  <2>1. \A T \in SUBSET S : F[T] = IF T = {} THEN 0 ELSE f[Pick(T)] + F[Rest(T)]
    <3> QED BY SumStep
  <2>2. \A T \in SUBSET S : H[T] = IF T = {} THEN 0 ELSE g[Pick(T)] + H[Rest(T)]
    <3> QED BY SumStep
  <2> QED BY <2>1, <2>2
<1> HIDE DEF F, H
<1>2. ASSUME NEW T \in SUBSET S, \A U \in SUBSET T : U # T => U \in G PROVE T \in G
  <2>1. CASE T = {}
    BY <1>1, <2>1
  <2>2. CASE T # {}
    <3>1. Pick(T) \in T /\ Rest(T) \in G /\ (i \in Rest(T) <=> i \in T /\ i # Pick(T))
      BY <1>2, <2>2, PickRest DEF Rest
    <3>2. F[T] = f[Pick(T)] + F[Rest(T)] /\ H[T] = g[Pick(T)] + H[Rest(T)]
      BY <1>1, <2>2
    <3>3. Pick(T) \in S /\ f[Pick(T)] \in Int /\ g[Pick(T)] \in Int /\ f[i] \in Int /\ g[i] \in Int
      BY <3>1
    <3>4. CASE i = Pick(T)
      BY <3>1, <3>2, <3>3, <3>4
    <3>5. CASE i # Pick(T)
      BY <3>1, <3>2, <3>3, <3>5
    <3> QED BY <3>4, <3>5
  <2> QED BY <2>1, <2>2
<1> HIDE DEF G
<1>3. S \in G
  BY <1>2, SubsetInduction
<1>4. MapThenSumSet(LAMBDA j : f[j], S) = F[S] /\ MapThenSumSet(LAMBDA j : g[j], S) = H[S]
  BY FoldIsSum DEF F, H
<1> QED BY <1>3, <1>4 DEF G

\* The sum of integers is one, and that of zeros is zero.
LEMMA SumType ==
    ASSUME NEW S, IsFiniteSet(S), NEW f \in [S -> Int]
    PROVE  /\ MapThenSumSet(LAMBDA j : f[j], S) \in Int
           /\ (\A j \in S : f[j] = 0) => MapThenSumSet(LAMBDA j : f[j], S) = 0
<1> DEFINE F == SumOf(f, S)
           G == {T \in SUBSET S : F[T] \in Int /\ ((\A j \in S : f[j] = 0) => F[T] = 0)}
<1>1. \A T \in SUBSET S : F[T] = IF T = {} THEN 0 ELSE f[Pick(T)] + F[Rest(T)]
  BY SumStep
<1> HIDE DEF F
<1>2. ASSUME NEW T \in SUBSET S, \A U \in SUBSET T : U # T => U \in G PROVE T \in G
  <2>1. CASE T = {}
    <3>1. F[T] = 0
      BY <1>1, <2>1
    <3> QED BY <3>1
  <2>2. CASE T # {}
    <3>1. Pick(T) \in S /\ Rest(T) \in G
      BY <1>2, <2>2, PickRest
    <3>2. F[T] = f[Pick(T)] + F[Rest(T)]
      BY <1>1, <2>2
    <3> QED BY <3>1, <3>2
  <2> QED BY <2>1, <2>2
<1> HIDE DEF G
<1>3. S \in G
  BY <1>2, SubsetInduction
<1>4. MapThenSumSet(LAMBDA j : f[j], S) = F[S]
  BY FoldIsSum DEF F
<1> QED BY <1>3, <1>4 DEF G

\* A sum grows with its terms.
LEMMA SumMono ==
    ASSUME NEW S, IsFiniteSet(S), NEW f \in [S -> Int], NEW g \in [S -> Int],
           \A j \in S : f[j] <= g[j]
    PROVE  LET t(h) == MapThenSumSet(LAMBDA j : h[j], S)
           IN  t(f) \in Int /\ t(g) \in Int /\ t(f) <= t(g)
<1> DEFINE F == SumOf(f, S)
           H == SumOf(g, S)
           G == {T \in SUBSET S : F[T] \in Int /\ H[T] \in Int /\ F[T] <= H[T]}
<1>1. /\ \A T \in SUBSET S : F[T] = IF T = {} THEN 0 ELSE f[Pick(T)] + F[Rest(T)]
      /\ \A T \in SUBSET S : H[T] = IF T = {} THEN 0 ELSE g[Pick(T)] + H[Rest(T)]
  <2>1. \A T \in SUBSET S : F[T] = IF T = {} THEN 0 ELSE f[Pick(T)] + F[Rest(T)]
    <3> QED BY SumStep
  <2>2. \A T \in SUBSET S : H[T] = IF T = {} THEN 0 ELSE g[Pick(T)] + H[Rest(T)]
    <3> QED BY SumStep
  <2> QED BY <2>1, <2>2
<1> HIDE DEF F, H
<1>2. ASSUME NEW T \in SUBSET S, \A U \in SUBSET T : U # T => U \in G PROVE T \in G
  <2>1. CASE T = {}
    <3>1. F[T] = 0 /\ H[T] = 0
      BY <1>1, <2>1
    <3> QED BY <3>1
  <2>2. CASE T # {}
    <3>1. Pick(T) \in S /\ Rest(T) \in G
      BY <1>2, <2>2, PickRest
    <3>2. F[T] = f[Pick(T)] + F[Rest(T)] /\ H[T] = g[Pick(T)] + H[Rest(T)]
      BY <1>1, <2>2
    <3>3. f[Pick(T)] \in Int /\ g[Pick(T)] \in Int /\ f[Pick(T)] <= g[Pick(T)]
      BY <3>1
    <3> QED BY <3>1, <3>2, <3>3
  <2> QED BY <2>1, <2>2
<1> HIDE DEF G
<1>3. S \in G
  BY <1>2, SubsetInduction
<1>4. MapThenSumSet(LAMBDA j : f[j], S) = F[S] /\ MapThenSumSet(LAMBDA j : g[j], S) = H[S]
  BY FoldIsSum DEF F, H
<1> QED BY <1>3, <1>4 DEF G

-----------------------------------------------------------------------------
(* The webhook quota.                                                      *)

\* The handlers' steps keep the types.
LEMMA RequestType ==
    ASSUME QuotaTypeOK, NEW r \in Requests, RequestStep(r)
    PROVE  QuotaTypeOK'
<1> USE DEF QuotaTypeOK, Goto, Stages, Increment, flushVars, historyVars, flowVars
<1>1. CASE CreateWebhook(r)
  BY <1>1 DEF CreateWebhook
<1>2. CASE CountCreated(r)
  BY <1>2 DEF CountCreated
<1>3. ASSUME NEW n \in Sizes, ReadCount(r, n) PROVE QuotaTypeOK'
  BY <1>3, QuotaAssumption DEF ReadCount
<1>4. CASE CheckBatch(r)
  BY <1>4 DEF CheckBatch
<1>5. CASE CountBatch(r)
  BY <1>5 DEF CountBatch
<1>6. CASE InsertBatch(r)
  <2>1. Insertable(size[r]) \subseteq Nat
    BY DEF Insertable
  <2> QED BY <1>6, <2>1 DEF InsertBatch
<1>7. CASE RollBack(r)
  BY <1>7 DEF RollBack
<1>8. CASE ReserveSlot(r)
  BY <1>8 DEF ReserveSlot
<1>9. CASE InsertReplay(r)
  BY <1>9 DEF InsertReplay
<1> QED
  BY <1>1, <1>2, <1>3, <1>4, <1>5, <1>6, <1>7, <1>8, <1>9 DEF RequestStep

\* The buffer's steps, a crash and a reset keep the types.
LEMMA FlushType ==
    ASSUME QuotaTypeOK, ResetCounts \/ \E i \in Apis : FlushStep(i) \/ Crash(i)
    PROVE  QuotaTypeOK'
<1> USE DEF QuotaTypeOK, flushVars, requestVars, historyVars, flowVars
<1>1. ASSUME NEW i \in Apis, FlushRead(i) PROVE QuotaTypeOK'
  BY <1>1 DEF FlushRead
<1>2. ASSUME NEW i \in Apis, FlushRemove(i) PROVE QuotaTypeOK'
  BY <1>2 DEF FlushRemove, Removed
<1>3. ASSUME NEW i \in Apis, FlushUpdate(i) PROVE QuotaTypeOK'
  BY <1>3 DEF FlushUpdate, Flushed, FailedFlush, LostReply
<1>4. ASSUME NEW i \in Apis, Crash(i) PROVE QuotaTypeOK'
  <2>1. at' \in [Requests -> Stages]
    BY <1>4 DEF Crash, Stages
  <2>2. lost' \in Int
    BY <1>4 DEF Crash, InFlight
  <2> QED BY <1>4, <2>1, <2>2 DEF Crash
<1>5. CASE ResetCounts
  BY <1>5 DEF ResetCounts
<1> QED BY <1>1, <1>2, <1>3, <1>4, <1>5 DEF FlushStep

\* Counters, buffers and handlers stay within their types, whatever fails.
THEOREM QuotaTypeCorrect == QuotaSpec => []QuotaTypeOK
<1>1. QuotaInit => QuotaTypeOK
  BY DEF QuotaInit, QuotaTypeOK, Stages
<1>2. QuotaTypeOK /\ [QuotaNext]_qvars => QuotaTypeOK'
  <2>1. CASE UNCHANGED qvars
    BY <2>1 DEF qvars, QuotaTypeOK, flushVars, requestVars, historyVars, flowVars
  <2> QED BY <2>1, RequestType, FlushType DEF QuotaNext
<1> QED BY <1>1, <1>2, PTL DEF QuotaSpec

\* What is on its way, by process.
Sent == [i \in Apis |-> InFlight(i)]

\* Both sums are integers.
LEMMA SumsType ==
    ASSUME QuotaTypeOK
    PROVE  Sum(pending) \in Int /\ Sent \in [Apis -> Int] /\ Sum(Sent) \in Int
<1>1. Sent \in [Apis -> Int]
  BY DEF Sent, InFlight, QuotaTypeOK
<1>2. pending \in [Apis -> Int]
  BY DEF QuotaTypeOK
<1> QED BY <1>1, <1>2, SumType, QuotaAssumption DEF Sum

\* Sum, one of whose terms changes.
LEMMA SumMove ==
    ASSUME NEW f \in [Apis -> Int], NEW g \in [Apis -> Int], NEW i \in Apis,
           \A j \in Apis : j # i => g[j] = f[j]
    PROVE  Sum(g) = Sum(f) - f[i] + g[i]
<1>1. IsFiniteSet(Apis)
  BY QuotaAssumption
<1>2. /\ MapThenSumSet(LAMBDA j : f[j], Apis) \in Int
      /\ MapThenSumSet(LAMBDA j : g[j], Apis)
            = MapThenSumSet(LAMBDA j : f[j], Apis) - f[i] + g[i]
  BY <1>1, SumChange
<1> QED BY <1>2 DEF Sum

\* A step that touches the buffer and the flush of one process moves its sums
\* by what that process has more or less.
LEMMA SumsMove ==
    ASSUME QuotaTypeOK, QuotaTypeOK', NEW i \in Apis,
           \A j \in Apis : j # i => pending'[j] = pending[j] /\ Sent'[j] = Sent[j]
    PROVE  /\ Sum(pending)' = Sum(pending) - pending[i] + pending'[i]
           /\ Sum(Sent)' = Sum(Sent) - Sent[i] + Sent'[i]
<1>1. pending \in [Apis -> Int] /\ pending' \in [Apis -> Int]
  BY DEF QuotaTypeOK
<1>2. Sent \in [Apis -> Int] /\ Sent' \in [Apis -> Int]
  BY DEF Sent, InFlight, QuotaTypeOK
<1>3. Sum(pending)' = Sum(pending) - pending[i] + pending'[i]
  BY <1>1, SumMove
<1>4. Sum(Sent)' = Sum(Sent) - Sent[i] + Sent'[i]
  BY <1>2, SumMove
<1> QED BY <1>3, <1>4

\* Both sums stay as they are while buffers and flushes do.
LEMMA SumsStay ==
    ASSUME UNCHANGED <<pending, flushing, taken>>
    PROVE  Sum(pending)' = Sum(pending) /\ Sum(Sent)' = Sum(Sent)
<1>1. Sent' = Sent
  BY DEF Sent, InFlight
<1> QED BY <1>1

\* The balance: what is in the table, in the buffers, on its way, lost and forgiven, and
\* what was charged.
Balance == webhook_count + Sum(pending) + Sum(Sent) + lost + forgiven = charged + doubled

\* A handler charges what it adds, to a buffer or to the table.
LEMMA RequestBalance ==
    ASSUME QuotaTypeOK, QuotaTypeOK', Balance, NEW r \in Requests, RequestStep(r)
    PROVE  Balance'
<1> USE DEF flushVars, requestVars, historyVars, flowVars
<1>t. /\ webhook_count \in Int /\ lost \in Int /\ forgiven \in Int /\ charged \in Int /\ doubled \in Int
      /\ Sum(pending) \in Int /\ Sum(Sent) \in Int
      /\ pending \in [Apis -> Int] /\ api[r] \in Apis /\ pending[api[r]] \in Int
      /\ size[r] \in Int /\ made[r] \in Int /\ Sent \in [Apis -> Int]
  BY SumsType DEF QuotaTypeOK
\* A step that only increments the buffer of the handler's process.
<1>i. ASSUME NEW n \in Int, Increment(api[r], n),
             UNCHANGED <<webhook_count, flushing, taken, flowVars>>
      PROVE  Balance'
  <2>1. Sent' = Sent
    BY <1>i DEF Sent, InFlight
  <2>2. \A j \in Apis : j # api[r] => pending'[j] = pending[j] /\ Sent'[j] = Sent[j]
    BY <1>i, <1>t, <2>1 DEF Increment
  <2>3. Sum(pending)' = Sum(pending) - pending[api[r]] + pending'[api[r]]
    BY <1>t, <2>2, SumsMove
  <2>4. pending'[api[r]] = pending[api[r]] + n /\ charged' = charged + n
    BY <1>i, <1>t DEF Increment
  <2>5. Sum(Sent)' = Sum(Sent)
    BY <2>1
  <2>6. Sum(pending)' = Sum(pending) + n
    BY <1>t, <2>3, <2>4
  <2> QED BY <1>i, <1>t, <2>4, <2>5, <2>6 DEF Balance
\* A step that leaves what is counted alone.
<1>n. ASSUME UNCHANGED <<webhook_count, pending, flushing, taken, charged, flowVars>>
      PROVE  Balance'
  BY <1>n, SumsStay DEF Balance
<1>1. CASE CreateWebhook(r)
  BY <1>1, <1>n DEF CreateWebhook
<1>2. CASE CountCreated(r)
  BY <1>2, <1>i DEF CountCreated
<1>3. ASSUME NEW n \in Sizes, ReadCount(r, n) PROVE Balance'
  BY <1>3, <1>n DEF ReadCount
<1>4. CASE CheckBatch(r)
  BY <1>4, <1>n DEF CheckBatch
<1>5. CASE CountBatch(r)
  BY <1>5, <1>t, <1>i DEF CountBatch
<1>6. CASE InsertBatch(r)
  BY <1>6, <1>n DEF InsertBatch
<1>7. CASE RollBack(r)
  <2>1. made[r] - size[r] \in Int
    BY <1>t
  <2> QED BY <1>7, <2>1, <1>i DEF RollBack
<1>8. CASE ReserveSlot(r)
  <2>1. Sum(pending)' = Sum(pending) /\ Sum(Sent)' = Sum(Sent)
    BY <1>8, SumsStay DEF ReserveSlot
  <2> QED BY <1>8, <1>t, <2>1 DEF ReserveSlot, Balance
<1>9. CASE InsertReplay(r)
  BY <1>9, <1>n DEF InsertReplay
<1> QED
  BY <1>1, <1>2, <1>3, <1>4, <1>5, <1>6, <1>7, <1>8, <1>9 DEF RequestStep

\* A flush moves what it has taken, a crash loses it, and a reset forgives what
\* the table holds.
LEMMA FlushBalance ==
    ASSUME QuotaTypeOK, QuotaTypeOK', Balance,
           ResetCounts \/ \E i \in Apis : FlushStep(i) \/ Crash(i)
    PROVE  Balance'
<1> USE DEF flushVars, requestVars, historyVars, flowVars
<1>t. /\ webhook_count \in Int /\ lost \in Int /\ forgiven \in Int /\ charged \in Int /\ doubled \in Int
      /\ Sum(pending) \in Int /\ Sum(Sent) \in Int
      /\ pending \in [Apis -> Int] /\ taken \in [Apis -> Int] /\ DOMAIN flushing = Apis
  BY SumsType DEF QuotaTypeOK
<1>1. ASSUME NEW i \in Apis, FlushRead(i) PROVE Balance'
  <2>1. Sent' = Sent
    BY <1>1, <1>t DEF FlushRead, Sent, InFlight
  <2>2. UNCHANGED <<webhook_count, pending, charged, flowVars>>
    BY <1>1 DEF FlushRead
  <2> QED BY <2>1, <2>2 DEF Balance
<1>2. ASSUME NEW i \in Apis, FlushRemove(i) PROVE Balance'
  <2>1. \A j \in Apis : j # i => pending'[j] = pending[j] /\ Sent'[j] = Sent[j]
    BY <1>2, <1>t DEF FlushRemove, Removed, Sent, InFlight
  <2>2. pending'[i] = 0 /\ Sent[i] = 0 /\ Sent'[i] = taken[i]
    BY <1>2, <1>t DEF FlushRemove, Removed, Sent, InFlight
  <2>3. /\ lost' = lost + pending[i] - taken[i]
        /\ UNCHANGED <<webhook_count, charged, doubled, forgiven>>
    BY <1>2 DEF FlushRemove
  <2>4. Sum(pending)' = Sum(pending) - pending[i] /\ Sum(Sent)' = Sum(Sent) + taken[i]
    BY <1>t, <2>1, <2>2, SumsMove
  <2> QED BY <1>t, <2>3, <2>4 DEF Balance
<1>3. ASSUME NEW i \in Apis, FlushUpdate(i) PROVE Balance'
  <2>1. \A j \in Apis : j # i => pending'[j] = pending[j] /\ Sent'[j] = Sent[j]
    BY <1>3, <1>t DEF FlushUpdate, Flushed, FailedFlush, LostReply, Sent, InFlight
  <2>2. Sent[i] = taken[i] /\ Sent'[i] = 0
    BY <1>3, <1>t DEF FlushUpdate, Sent, InFlight
  <2>3. /\ Sum(pending)' = Sum(pending) - pending[i] + pending'[i]
        /\ Sum(Sent)' = Sum(Sent) - taken[i]
    BY <1>t, <2>1, <2>2, SumsMove
  <2>4. pending[i] \in Int /\ taken[i] \in Int /\ UNCHANGED <<lost, charged, forgiven>>
    BY <1>3, <1>t DEF FlushUpdate
  <2>5. CASE Flushed(i)
    BY <1>t, <2>3, <2>4, <2>5 DEF Flushed, Balance
  <2>6. CASE pending' = FailedFlush(i) /\ UNCHANGED <<webhook_count, doubled>>
    <3>1. pending'[i] = pending[i] + taken[i]
      BY <1>t, <2>6 DEF FailedFlush
    <3> QED BY <1>t, <2>3, <2>4, <2>6, <3>1 DEF Balance
  <2>7. CASE LostReply(i)
    <3>1. pending'[i] = pending[i] + taken[i]
      BY <1>t, <2>7 DEF LostReply, FailedFlush
    <3>2. webhook_count' = webhook_count + taken[i] /\ doubled' = doubled + taken[i]
      BY <2>7 DEF LostReply
    <3>3. Sum(pending)' = Sum(pending) + taken[i]
      BY <1>t, <2>3, <2>4, <3>1
    <3> QED BY <1>t, <2>3, <2>4, <3>2, <3>3 DEF Balance
  <2> QED BY <1>3, <2>5, <2>6, <2>7 DEF FlushUpdate
<1>4. ASSUME NEW i \in Apis, Crash(i) PROVE Balance'
  <2>1. \A j \in Apis : j # i => pending'[j] = pending[j] /\ Sent'[j] = Sent[j]
    BY <1>4, <1>t DEF Crash, Sent, InFlight
  <2>2. pending'[i] = 0 /\ Sent'[i] = 0 /\ Sent[i] = InFlight(i) /\ Sent[i] \in Int
    BY <1>4, <1>t DEF Crash, Sent, InFlight
  <2>3. lost' = lost + pending[i] + Sent[i] /\ UNCHANGED <<webhook_count, charged, doubled, forgiven>>
    BY <1>4, <2>2 DEF Crash
  <2>4. Sum(pending)' = Sum(pending) - pending[i] /\ Sum(Sent)' = Sum(Sent) - Sent[i]
    BY <1>t, <2>1, <2>2, SumsMove
  <2> QED BY <1>t, <2>2, <2>3, <2>4 DEF Balance
<1>5. CASE ResetCounts
  <2>1. Sum(pending)' = Sum(pending) /\ Sum(Sent)' = Sum(Sent)
    BY <1>5, SumsStay DEF ResetCounts
  <2> QED BY <1>5, <1>t, <2>1 DEF ResetCounts, Balance
<1> QED BY <1>1, <1>2, <1>3, <1>4, <1>5 DEF FlushStep

\* Whatever fails, and for any number of processes and handlers, what has been
\* charged is in the table, in a buffer, on its way or lost, once; only a flush
\* whose reply is lost counts twice.
THEOREM QuotaCountedOnce == QuotaSpec => []CountedOnce
<1>1. QuotaInit => Balance
  <2> SUFFICES ASSUME QuotaInit PROVE Balance
    OBVIOUS
  <2>1. pending \in [Apis -> Int] /\ \A j \in Apis : pending[j] = 0
    BY DEF QuotaInit
  <2>2. Sent \in [Apis -> Int] /\ \A j \in Apis : Sent[j] = 0
    BY DEF QuotaInit, Sent, InFlight
  <2>3. Sum(pending) = 0 /\ Sum(Sent) = 0
    BY <2>1, <2>2, SumType, QuotaAssumption DEF Sum
  <2> QED BY <2>3 DEF QuotaInit, Balance
<1>2. QuotaTypeOK /\ QuotaTypeOK' /\ Balance /\ [QuotaNext]_qvars => Balance'
  <2> SUFFICES ASSUME QuotaTypeOK, QuotaTypeOK', Balance, [QuotaNext]_qvars PROVE Balance'
    OBVIOUS
  <2>1. CASE UNCHANGED qvars
    BY <2>1, SumsStay DEF qvars, flushVars, historyVars, flowVars, Balance
  <2> QED BY <2>1, RequestBalance, FlushBalance DEF QuotaNext
<1>3. Balance => CountedOnce
  BY DEF Balance, CountedOnce, Sent
<1> QED BY <1>1, <1>2, <1>3, QuotaTypeCorrect, PTL DEF QuotaSpec

-----------------------------------------------------------------------------
(* Nothing is free.                                                        *)

\* What a handler has charged and not accepted yet.
OwedBy(r) ==
    IF at[r] = "inserting" THEN size[r]
    ELSE IF at[r] = "rollback" THEN size[r] - made[r]
    ELSE IF at[r] = "replaying" THEN 1 ELSE 0

Owed == [r \in Requests |-> OwedBy(r)]

Total(f) == MapThenSumSet(LAMBDA r : f[r], Requests)

BatchSizes ==
    \A r \in Requests :
        /\ at[r] \in {"checking", "allowed", "inserting", "rollback"} => size[r] >= 1
        /\ at[r] = "rollback" => made[r] \in {0, 1}

\* The charge covers what is accepted, and what is still to be accepted or
\* rolled back, but for the uncounted deliveries.
ChargeInv ==
    /\ BatchSizes
    /\ (charged + Cardinality(Uncounted)) - (accepted + Total(Owed)) \in Nat

LEMMA OwedType == ASSUME QuotaTypeOK, BatchSizes
                  PROVE  Owed \in [Requests -> Int] /\ \A r \in Requests : Owed[r] >= 0
<1>1. ASSUME NEW r \in Requests PROVE OwedBy(r) \in Int /\ OwedBy(r) >= 0
  <2>1. size[r] \in Nat /\ made[r] \in Nat
    BY DEF QuotaTypeOK
  <2> QED BY <2>1 DEF OwedBy, BatchSizes
<1> QED BY <1>1 DEF Owed

LEMMA OwedTypeNext == ASSUME QuotaTypeOK', BatchSizes' PROVE Owed' \in [Requests -> Int]
<1>1. ASSUME NEW r \in Requests PROVE OwedBy(r)' \in Int
  <2>1. size'[r] \in Nat /\ made'[r] \in Nat
    BY DEF QuotaTypeOK
  <2> QED BY <2>1 DEF OwedBy
<1> QED BY <1>1 DEF Owed

\* The sums over the requests, as those over any finite set.
LEMMA TotalMove ==
    ASSUME NEW f \in [Requests -> Int], NEW g \in [Requests -> Int], NEW r \in Requests,
           \A q \in Requests : q # r => g[q] = f[q]
    PROVE  Total(f) \in Int /\ Total(g) = Total(f) - f[r] + g[r]
<1>1. IsFiniteSet(Requests)
  BY QuotaAssumption
<1>2. /\ MapThenSumSet(LAMBDA q : f[q], Requests) \in Int
      /\ MapThenSumSet(LAMBDA q : g[q], Requests)
            = MapThenSumSet(LAMBDA q : f[q], Requests) - f[r] + g[r]
  BY <1>1, SumChange
<1> QED BY <1>2 DEF Total

LEMMA TotalMono ==
    ASSUME NEW f \in [Requests -> Int], NEW g \in [Requests -> Int],
           \A q \in Requests : f[q] <= g[q]
    PROVE  Total(f) \in Int /\ Total(g) \in Int /\ Total(f) <= Total(g)
<1>1. IsFiniteSet(Requests)
  BY QuotaAssumption
<1>2. /\ MapThenSumSet(LAMBDA q : f[q], Requests) \in Int
      /\ MapThenSumSet(LAMBDA q : g[q], Requests) \in Int
      /\ MapThenSumSet(LAMBDA q : f[q], Requests) <= MapThenSumSet(LAMBDA q : g[q], Requests)
  BY <1>1, SumMono
<1> QED BY <1>2 DEF Total

LEMMA UncountedFinite == IsFiniteSet(Uncounted) /\ Uncounted \in SUBSET Requests
<1>1. Uncounted \in SUBSET Requests
  BY DEF Uncounted
<1> QED BY <1>1, FS_Subset, QuotaAssumption

\* A set of requests that differs by one request has one more or less.
LEMMA OneMore ==
    ASSUME NEW S, IsFiniteSet(S), NEW x
    PROVE  /\ Cardinality(S) \in Nat
           /\ x \notin S => IsFiniteSet(S \cup {x}) /\ Cardinality(S \cup {x}) = Cardinality(S) + 1
           /\ x \in S => IsFiniteSet(S \ {x}) /\ Cardinality(S \ {x}) = Cardinality(S) - 1
BY FS_CardinalityType, FS_AddElement, FS_RemoveElement

LEMMA OneDiffers ==
    ASSUME NEW R, NEW S \in SUBSET R, NEW T \in SUBSET R, NEW x \in R, IsFiniteSet(S),
           \A q \in R \ {x} : q \in T <=> q \in S
    PROVE  /\ IsFiniteSet(T) /\ Cardinality(S) \in Nat
           /\ Cardinality(T) = Cardinality(S) + (IF x \in T THEN 1 ELSE 0) - (IF x \in S THEN 1 ELSE 0)
<1>1. CASE x \in S <=> x \in T
  <2>1. \A q \in R : q \in T <=> q \in S
    BY <1>1
  <2>2. T = S
    BY <2>1
  <2> QED
    <3>1. Cardinality(S) \in Nat
      BY FS_CardinalityType
    <3>2. (IF x \in T THEN 1 ELSE 0) = (IF x \in S THEN 1 ELSE 0)
      BY <1>1
    <3> QED
      BY <2>2, <3>1, <3>2
<1>2. CASE x \in S /\ x \notin T
  <2>1. T = S \ {x}
    BY <1>2, Zenon
  <2> QED
    BY <1>2, <2>1, OneMore
<1>3. CASE x \notin S /\ x \in T
  <2>1. T = S \cup {x}
    BY <1>3, Zenon
  <2> QED
    BY <1>3, <2>1, OneMore
<1> QED
  BY <1>1, <1>2, <1>3

\* A handler's step keeps the sizes.
LEMMA SizesKept ==
    ASSUME QuotaTypeOK, BatchSizes, NEW r \in Requests, RequestStep(r)
    PROVE  BatchSizes'
<1> USE QuotaAssumption DEF QuotaTypeOK, QuotaAssumption, Goto, BatchSizes
<1>1. CASE CreateWebhook(r)
  BY <1>1 DEF CreateWebhook
<1>2. CASE CountCreated(r)
  BY <1>2 DEF CountCreated
<1>3. ASSUME NEW n \in Sizes, ReadCount(r, n) PROVE BatchSizes'
  BY <1>3 DEF ReadCount
<1>4. CASE CheckBatch(r)
  BY <1>4 DEF CheckBatch
<1>5. CASE CountBatch(r)
  BY <1>5 DEF CountBatch
<1>6. CASE InsertBatch(r)
  BY <1>6 DEF InsertBatch, Insertable
<1>7. CASE RollBack(r)
  BY <1>7 DEF RollBack
<1>8. CASE ReserveSlot(r)
  BY <1>8 DEF ReserveSlot
<1>9. CASE InsertReplay(r)
  BY <1>9 DEF InsertReplay
<1> QED
  BY <1>1, <1>2, <1>3, <1>4, <1>5, <1>6, <1>7, <1>8, <1>9 DEF RequestStep

\* A handler never owes less without having accepted, rolled back or given up
\* as much, and accepts nothing it has neither charged nor left uncounted.
LEMMA RequestCharge ==
    ASSUME QuotaTypeOK, QuotaTypeOK', ChargeInv, NEW r \in Requests, RequestStep(r)
    PROVE  ChargeInv'
<1> USE DEF QuotaTypeOK
<1>b. BatchSizes /\ BatchSizes'
  BY SizesKept DEF ChargeInv
<1>1. \A q \in Requests \ {r} : at'[q] = at[q] /\ made'[q] = made[q] /\ size'[q] = size[q]
  BY DEF RequestStep, CreateWebhook, CountCreated, ReadCount, CheckBatch, CountBatch,
         InsertBatch, RollBack, ReserveSlot, InsertReplay, Goto
<1> DEFINE u == IF r \in Uncounted THEN 1 ELSE 0
           u1 == IF r \in Uncounted' THEN 1 ELSE 0
           o == OwedBy(r)
           o1 == OwedBy(r)'
<1>2. /\ Cardinality(Uncounted) \in Nat
      /\ Cardinality(Uncounted') = Cardinality(Uncounted) + u1 - u
  <2>1. \A S, T \in SUBSET Requests :
            IsFiniteSet(S) /\ (\A q \in Requests \ {r} : q \in T <=> q \in S) =>
                /\ IsFiniteSet(T) /\ Cardinality(S) \in Nat
                /\ Cardinality(T) = Cardinality(S) + (IF r \in T THEN 1 ELSE 0) - (IF r \in S THEN 1 ELSE 0)
    BY OneDiffers
  <2>2. \A q \in Requests \ {r} : q \in Uncounted' <=> q \in Uncounted
    BY <1>1 DEF Uncounted
  <2>3. Uncounted' \in SUBSET Requests
    BY DEF Uncounted
  <2> QED
    BY <2>1, <2>2, <2>3, UncountedFinite
<1>3. Total(Owed) \in Int /\ Total(Owed)' = Total(Owed) - o + o1
  <2>1. Owed \in [Requests -> Int] /\ Owed' \in [Requests -> Int]
    BY <1>b, OwedType, OwedTypeNext
  <2>2. \A q \in Requests : q # r => Owed'[q] = Owed[q]
    BY <1>1 DEF Owed, OwedBy
  <2>3. Owed[r] = o /\ Owed'[r] = o1
    BY DEF Owed
  <2> QED
    BY <2>1, <2>2, <2>3, TotalMove
<1>4. ((charged' - charged) + (u1 - u)) - ((accepted' - accepted) + (o1 - o)) \in Nat
  <2> USE DEF Uncounted, Increment, Goto, OwedBy
  <2>1. CASE CreateWebhook(r)
    BY <2>1 DEF CreateWebhook
  <2>2. CASE CountCreated(r)
    BY <2>2 DEF CountCreated
  <2>3. ASSUME NEW n \in Sizes, ReadCount(r, n)
        PROVE  ((charged' - charged) + (u1 - u)) - ((accepted' - accepted) + (o1 - o)) \in Nat
    BY <2>3 DEF ReadCount, historyVars
  <2>4. CASE CheckBatch(r)
    BY <2>4 DEF CheckBatch, historyVars
  <2>5. CASE CountBatch(r)
    BY <2>5 DEF CountBatch
  <2>6. CASE InsertBatch(r)
    BY <1>b, <2>6 DEF InsertBatch, Insertable, BatchSizes
  <2>7. CASE RollBack(r)
    BY <2>7 DEF RollBack
  <2>8. CASE ReserveSlot(r)
    BY <2>8 DEF ReserveSlot
  <2>9. CASE InsertReplay(r)
    <3>1. o = 1 /\ o1 = 0 /\ u = 0 /\ u1 = 0
      BY <2>9 DEF InsertReplay
    <3>2. charged' = charged /\ (accepted' = accepted + 1 \/ accepted' = accepted)
      BY <2>9 DEF InsertReplay
    <3>3. accepted \in Int /\ charged \in Int
      OBVIOUS
    <3> HIDE DEF QuotaTypeOK, u, u1, o, o1
    <3> QED BY <3>1, <3>2, <3>3
  <2> QED
    BY <2>1, <2>2, <2>3, <2>4, <2>5, <2>6, <2>7, <2>8, <2>9 DEF RequestStep
<1>5. (charged' + Cardinality(Uncounted')) - (accepted' + Total(Owed)') \in Nat
  <2>1. accepted \in Int /\ accepted' \in Int /\ charged \in Int /\ charged' \in Int
    OBVIOUS
  <2>2. o \in Int /\ o1 \in Int /\ u \in Int /\ u1 \in Int
    <3>1. size[r] \in Int /\ made[r] \in Int /\ size'[r] \in Int /\ made'[r] \in Int
      OBVIOUS
    <3> QED BY <3>1 DEF OwedBy
  <2>3. (charged + Cardinality(Uncounted)) - (accepted + Total(Owed)) \in Nat
    BY DEF ChargeInv
  <2> HIDE DEF QuotaTypeOK, u, u1, o, o1
  <2> DEFINE t == Total(Owed)
             t1 == Total(Owed)'
             k == Cardinality(Uncounted)
             k1 == Cardinality(Uncounted')
  <2>4. t \in Int /\ t1 = t - o + o1 /\ k \in Int /\ k1 = k + u1 - u /\ (charged + k) - (accepted + t) \in Nat
    BY <1>2, <1>3, <2>3
  <2> HIDE DEF t, t1, k, k1
  <2>5. t1 \in Int /\ k1 \in Int
    BY <2>2, <2>4
  <2>6. (charged' + k1) - (accepted' + t1) \in Nat
    <3> DEFINE d == ((charged' - charged) + (u1 - u)) - ((accepted' - accepted) + (o1 - o))
               e == (charged + k) - (accepted + t)
    <3>1. (charged' + k1) - (accepted' + t1) = e + d
      BY <2>1, <2>2, <2>4, <2>5
    <3>2. d \in Nat /\ e \in Nat
      BY <1>4, <2>4
    <3> HIDE DEF d, e
    <3> QED BY <3>1, <3>2
  <2> QED
    BY <2>6 DEF t1, k1
<1> QED
  BY <1>b, <1>5 DEF ChargeInv

\* A crash gives up what its handlers owe and counts none of them.
LEMMA CrashCharge ==
    ASSUME QuotaTypeOK, QuotaTypeOK', ChargeInv, NEW i \in Apis, Crash(i)
    PROVE  ChargeInv'
<1>1. \A r \in Requests :
          /\ at'[r] = IF api[r] # i \/ at[r] \in {"new", "uncounted"} THEN at[r]
                      ELSE IF at[r] = "counting" THEN "uncounted" ELSE "done"
          /\ size'[r] = size[r] /\ made'[r] = made[r]
  BY DEF Crash
<1>2. Uncounted' = Uncounted
  BY <1>1 DEF Uncounted
<1>3. BatchSizes /\ BatchSizes'
  BY <1>1 DEF ChargeInv, BatchSizes
<1>4. Owed \in [Requests -> Int] /\ Owed' \in [Requests -> Int]
  BY <1>3, OwedType, OwedTypeNext
<1>5. \A r \in Requests : Owed'[r] <= Owed[r]
  <2>1. \A r \in Requests : Owed[r] >= 0
    BY <1>3, OwedType
  <2> QED BY <1>1, <1>4, <2>1 DEF Owed, OwedBy
<1>6. Total(Owed) \in Int /\ Total(Owed)' \in Int /\ Total(Owed)' <= Total(Owed)
  BY <1>4, <1>5, TotalMono
<1>7. UNCHANGED <<accepted, charged>> /\ accepted \in Int /\ charged \in Int
  BY DEF Crash, QuotaTypeOK
<1>8. Cardinality(Uncounted) \in Nat
  BY UncountedFinite, FS_CardinalityType
<1> QED BY <1>2, <1>3, <1>6, <1>7, <1>8 DEF ChargeInv

\* No interleaving of handlers, batches of any size, crashes, resets, failed
\* statements and lost replies accepts a delivery without a charge, but for one
\* whose handler has yet to count it or has died or been misled before it could.
THEOREM NothingFree == QuotaSpec => []NothingUncharged
<1>1. QuotaInit => ChargeInv
  <2> SUFFICES ASSUME QuotaInit PROVE ChargeInv
    OBVIOUS
  <2>1. Owed \in [Requests -> Int] /\ \A r \in Requests : Owed[r] = 0
    BY DEF QuotaInit, Owed, OwedBy
  <2>2. Total(Owed) = 0
    BY <2>1, SumType, QuotaAssumption DEF Total
  <2>3. Uncounted = {}
    BY DEF QuotaInit, Uncounted
  <2>4. Cardinality(Uncounted) = 0
    BY <2>3, FS_EmptySet
  <2> QED
    BY <2>2, <2>4 DEF QuotaInit, ChargeInv, BatchSizes
<1>2. QuotaTypeOK /\ QuotaTypeOK' /\ ChargeInv /\ [QuotaNext]_qvars => ChargeInv'
  <2> SUFFICES ASSUME QuotaTypeOK, QuotaTypeOK', ChargeInv, [QuotaNext]_qvars PROVE ChargeInv'
    OBVIOUS
  <2>1. ASSUME UNCHANGED <<at, size, made, charged, accepted>> PROVE ChargeInv'
    <3>1. Uncounted' = Uncounted /\ Owed' = Owed
      BY <2>1 DEF Uncounted, Owed, OwedBy
    <3> QED
      BY <2>1, <3>1 DEF ChargeInv, BatchSizes
  <2>2. CASE UNCHANGED qvars
    BY <2>1, <2>2 DEF qvars, requestVars, historyVars
  <2>3. ASSUME NEW i \in Apis, FlushStep(i) PROVE ChargeInv'
    BY <2>1, <2>3 DEF FlushStep, FlushRead, FlushRemove, FlushUpdate, requestVars, historyVars
  <2>4. ASSUME NEW r \in Requests, RequestStep(r) PROVE ChargeInv'
    BY <2>4, RequestCharge
  <2>5. ASSUME NEW i \in Apis, Crash(i) PROVE ChargeInv'
    BY <2>5, CrashCharge
  <2>6. CASE ResetCounts
    BY <2>1, <2>6 DEF ResetCounts, requestVars
  <2> QED
    BY <2>2, <2>3, <2>4, <2>5, <2>6 DEF QuotaNext
<1>3. ChargeInv /\ QuotaTypeOK => NothingUncharged
  <2> SUFFICES ASSUME ChargeInv, QuotaTypeOK PROVE NothingUncharged
    OBVIOUS
  <2>1. Total(Owed) \in Int /\ Total(Owed) >= 0
    <3> DEFINE none == [r \in Requests |-> 0]
    <3>1. Owed \in [Requests -> Int] /\ none \in [Requests -> Int]
          /\ \A r \in Requests : none[r] <= Owed[r]
      BY OwedType DEF ChargeInv
    <3>2. \A r \in Requests : none[r] = 0
      OBVIOUS
    <3> HIDE DEF none
    <3>3. Total(none) = 0
      BY <3>1, <3>2, SumType, QuotaAssumption DEF Total
    <3> QED BY <3>1, <3>3, TotalMono
  <2>2. Cardinality(Uncounted) \in Nat
    BY UncountedFinite, FS_CardinalityType
  <2> QED
    BY <2>1, <2>2 DEF ChargeInv, QuotaTypeOK, NothingUncharged
<1> QED
  BY <1>1, <1>2, <1>3, QuotaTypeCorrect, PTL DEF QuotaSpec
==============================================================================
