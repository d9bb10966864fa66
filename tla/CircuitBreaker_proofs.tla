------------------------ MODULE CircuitBreaker_proofs ------------------------
(***************************************************************************)
(* Proofs about CircuitBreaker, for every set of callers and every         *)
(* MaxRequests: its type invariant, the accounting invariants, the two     *)
(* action properties, and that it implements ProbeGate.                    *)
(***************************************************************************)
EXTENDS CircuitBreaker, FiniteSetTheorems, TLAPS

Statuses == {"idle", "current", "stale"}

-----------------------------------------------------------------------------
(* Counting a result changes the fields it should and keeps the counts     *)
(* natural numbers (onSuccess, onFailure).                                 *)
LEMMA CountSuccessFields ==
    ASSUME NEW n \in Counts
    PROVE  /\ CountSuccess(n) \in Counts
           /\ CountSuccess(n).Requests = n.Requests
           /\ CountSuccess(n).Successes = n.Successes + 1
           /\ CountSuccess(n).Failures = n.Failures
           /\ CountSuccess(n).TotalFailures = n.TotalFailures
BY DEF Counts, CountSuccess

(* The same of a failure. *)
LEMMA CountFailureFields ==
    ASSUME NEW n \in Counts
    PROVE  /\ CountFailure(n) \in Counts
           /\ CountFailure(n).Requests = n.Requests
           /\ CountFailure(n).Successes = n.Successes
           /\ CountFailure(n).Failures = n.Failures + 1
           /\ CountFailure(n).TotalFailures = n.TotalFailures + 1
<1> DEFINE f == [n EXCEPT !.Failures = @ + 1]
<1>1. /\ f \in Counts
      /\ f.Failures = n.Failures + 1
      /\ f.Requests = n.Requests
      /\ f.Successes = n.Successes
      /\ f.TotalFailures = n.TotalFailures
  BY DEF Counts
<1>2. CountFailure(n) = [f EXCEPT !.TotalFailures = @ + 1]
  BY DEF CountFailure
<1> HIDE DEF f
<1> QED
  BY <1>1, <1>2 DEF Counts

(* A new generation keeps every entry of a call table a status and leaves  *)
(* no call current (setState).                                             *)
LEMMA NextGenerationType ==
    ASSUME NEW tab \in [Callers -> Statuses]
    PROVE  /\ NextGeneration(tab) \in [Callers -> Statuses]
           /\ \A c \in Callers : NextGeneration(tab)[c] # "current"
           /\ \A c \in Callers : NextGeneration(tab)[c] = "idle" <=> tab[c] = "idle"
BY DEF NextGeneration, Statuses

(* The end of a call keeps the table a table (afterRequest). *)
LEMMA IdleType ==
    ASSUME TypeOK, NEW c \in Callers
    PROVE  /\ Idle(c) \in [Callers -> Statuses]
           /\ Idle(c)[c] = "idle"
           /\ \A d \in Callers : d # c => Idle(c)[d] = call[d]
BY DEF TypeOK, Idle, Statuses

(* The type invariant is preserved by every step of the breaker. *)
LEMMA TypeStep == TypeOK /\ [Next]_vars => TypeOK'
<1> SUFFICES ASSUME TypeOK, [Next]_vars
             PROVE  TypeOK'
  OBVIOUS
<1>1. ASSUME NEW c \in Callers, BeforeRequestClosed(c)
      PROVE  TypeOK'
  BY <1>1 DEF BeforeRequestClosed, TypeOK, Counts, States
<1>2. ASSUME NEW c \in Callers, BeforeRequestOpen(c)
      PROVE  TypeOK'
  <2>1. NextGeneration(call) \in [Callers -> Statuses]
    BY NextGenerationType DEF TypeOK, Statuses
  <2>2. call' \in [Callers -> Statuses]
    BY <1>2, <2>1 DEF BeforeRequestOpen, Statuses
  <2>3. counts' \in Counts
    BY <1>2 DEF BeforeRequestOpen, ZeroCounts, Counts
  <2> QED
    BY <1>2, <2>2, <2>3 DEF BeforeRequestOpen, TypeOK, Statuses, States
<1>3. ASSUME NEW c \in Callers, BeforeRequestHalfOpen(c)
      PROVE  TypeOK'
  BY <1>3 DEF BeforeRequestHalfOpen, TypeOK, Counts, States
<1>4. ASSUME NEW c \in Callers, NEW to \in States, NEW n, SetState(to, Idle(c), n)
      PROVE  TypeOK'
  <2>1. call' \in [Callers -> Statuses]
    BY <1>4, IdleType, NextGenerationType DEF SetState
  <2>2. counts' \in Counts
    BY <1>4 DEF SetState, ResetCounts, ZeroCounts, Counts
  <2> QED
    BY <1>4, <2>1, <2>2 DEF SetState, TypeOK, Statuses
<1>5. ASSUME NEW c \in Callers, AfterRequest(c, TRUE)
      PROVE  TypeOK'
  <2> DEFINE n == CountSuccess(counts)
  <2>1. n \in Counts
    BY CountSuccessFields DEF TypeOK
  <2> HIDE DEF n
  <2>2. CASE /\ state = "Closed"
             /\ counts' = [n EXCEPT !.Failures = Forgive(@)]
             /\ call' = Idle(c)
             /\ UNCHANGED <<state, expired>>
    <3>1. Forgive(n.Failures) \in Nat
      BY <2>1 DEF Forgive, Counts
    <3>2. counts' \in Counts
      BY <2>1, <2>2, <3>1 DEF Counts
    <3> QED
      BY <2>2, <3>2, IdleType DEF TypeOK, Statuses
  <2>3. CASE counts' = n /\ call' = Idle(c) /\ UNCHANGED <<state, expired>>
    BY <2>1, <2>3, IdleType DEF TypeOK, Statuses
  <2>4. CASE SetState("Closed", Idle(c), n)
    BY <1>4, <2>4 DEF States
  <2> QED
    BY <1>5, <2>2, <2>3, <2>4 DEF AfterRequest, OnSuccess, n
<1>6. ASSUME NEW c \in Callers, AfterRequest(c, FALSE)
      PROVE  TypeOK'
  <2> DEFINE n == CountFailure(counts)
  <2>1. n \in Counts
    BY CountFailureFields DEF TypeOK
  <2> HIDE DEF n
  <2>2. CASE counts' = n /\ call' = Idle(c) /\ UNCHANGED <<state, expired>>
    BY <2>1, <2>2, IdleType DEF TypeOK, Statuses
  <2>3. CASE SetState("Open", Idle(c), n) \/ SetState("Open", Idle(c), counts)
    BY <1>4, <2>3 DEF States
  <2> QED
    BY <1>6, <2>2, <2>3 DEF AfterRequest, OnFailure, n
<1>7. ASSUME NEW c \in Callers, AfterRequestStale(c)
      PROVE  TypeOK'
  BY <1>7, IdleType DEF AfterRequestStale, TypeOK, Statuses
<1>8. CASE TimeoutPasses
  BY <1>8 DEF TimeoutPasses, TypeOK
<1>9. CASE UNCHANGED vars
  BY <1>9 DEF TypeOK, vars
<1> QED
  BY <1>1, <1>2, <1>3, <1>5, <1>6, <1>7, <1>8, <1>9
     DEF Next, BeforeRequest, Completes, Refuse

(* Type correctness: in particular Failures never goes below zero.         *)
THEOREM TypeCorrect == Spec => []TypeOK
<1>1. Init => TypeOK
  BY DEF Init, TypeOK, States, Counts, ZeroCounts
<1> QED
  BY <1>1, TypeStep, PTL DEF Spec

-----------------------------------------------------------------------------
(***************************************************************************)
(* The inductive invariant: the accounting invariants hold together.  Each *)
(* needs the others: a period starts with the counts the last one left     *)
(* (OpenIsClean, ResetCounts), and the last probe closes the breaker only  *)
(* because ProbeAccounting bounds the running ones.                        *)
(***************************************************************************)
Accounts == ClosedAccounting /\ ProbeAccounting /\ OpenIsClean /\ FailuresAreNet

(* The calls of the current generation are finitely many. *)
LEMMA InFlightFinite ==
    /\ IsFiniteSet(InFlight)
    /\ Cardinality(InFlight) \in Nat
<1>1. InFlight \in SUBSET Callers
  BY DEF InFlight
<1> QED
  BY <1>1, FS_Subset, FS_CardinalityType, CallersAssumption

(* Admitting a call adds one to the calls of the current generation. *)
LEMMA AdmitCounted ==
    ASSUME TypeOK, NEW c \in Callers, call[c] = "idle",
           call' = [call EXCEPT ![c] = "current"]
    PROVE  /\ InFlight' = InFlight \union {c}
           /\ Cardinality(InFlight') = Cardinality(InFlight) + 1
<1>1. InFlight' = InFlight \union {c}
  BY DEF InFlight, TypeOK
<1>2. c \notin InFlight
  BY DEF InFlight
<1> QED
  BY <1>1, <1>2, InFlightFinite, FS_AddElement

(* The end of a call of the current generation takes it out of them. *)
LEMMA EndCounted ==
    ASSUME TypeOK, NEW c \in Callers, call[c] = "current", call' = Idle(c)
    PROVE  /\ c \in InFlight
           /\ InFlight' = InFlight \ {c}
           /\ Cardinality(InFlight') = Cardinality(InFlight) - 1
<1>1. InFlight' = InFlight \ {c}
  BY IdleType DEF InFlight
<1>2. c \in InFlight
  BY DEF InFlight
<1> QED
  BY <1>1, <1>2, InFlightFinite, FS_RemoveElement

(* A change of state leaves no call current and the counts zero. *)
LEMMA SetStateClean ==
    ASSUME TypeOK, NEW c \in Callers, NEW to, NEW n, SetState(to, Idle(c), n)
    PROVE  /\ InFlight' = {}
           /\ Cardinality(InFlight') = 0
           /\ counts' = ZeroCounts
           /\ state' = to
<1>1. Idle(c) \in [Callers -> Statuses]
  BY IdleType
<1>2. InFlight' = {}
  BY <1>1, NextGenerationType DEF SetState, InFlight
<1> QED
  BY <1>2, FS_EmptySet DEF SetState, ResetCounts

(* Every step keeps the accounts. *)
LEMMA AccountsStep == TypeOK /\ Accounts /\ [Next]_vars => Accounts'
<1> SUFFICES ASSUME TypeOK, Accounts, [Next]_vars
             PROVE  Accounts'
  OBVIOUS
<1> USE MaxRequestsAssumption
<1>t. TypeOK'
  BY TypeStep
<1>c. /\ counts \in Counts
      /\ counts' \in Counts
      /\ Cardinality(InFlight) \in Nat
  BY <1>t, InFlightFinite DEF TypeOK
<1>1. ASSUME NEW c \in Callers, BeforeRequestClosed(c)
      PROVE  Accounts'
  <2>1. call[c] = "idle" /\ call' = [call EXCEPT ![c] = "current"]
    BY <1>1 DEF BeforeRequestClosed, Running
  <2>2. Cardinality(InFlight') = Cardinality(InFlight) + 1
    BY <2>1, AdmitCounted
  <2>3. /\ counts'.Requests = counts.Requests + 1
        /\ counts'.Successes = counts.Successes
        /\ counts'.Failures = counts.Failures
        /\ counts'.TotalFailures = counts.TotalFailures
    BY <1>1, <1>c DEF BeforeRequestClosed, Counts
  <2>4. state = "Closed" /\ state' = "Closed" /\ expired' = expired
    BY <1>1 DEF BeforeRequestClosed
  <2> QED
    BY <1>c, <2>2, <2>3, <2>4
       DEF Accounts, ClosedAccounting, ProbeAccounting, OpenIsClean, FailuresAreNet, Counts
<1>2. ASSUME NEW c \in Callers, BeforeRequestOpen(c)
      PROVE  Accounts'
  <2>1. NextGeneration(call) \in [Callers -> Statuses]
    BY NextGenerationType DEF TypeOK, Statuses
  <2>2. \A d \in Callers : NextGeneration(call)[d] # "current"
    BY NextGenerationType DEF TypeOK, Statuses
  <2>3. InFlight' = {c}
    BY <1>2, <2>1, <2>2 DEF BeforeRequestOpen, InFlight
  <2>4. Cardinality(InFlight') = 1
    BY <2>3, FS_Singleton
  <2>5. counts'.Requests = 1 /\ counts'.Successes = 0
    BY <1>2 DEF BeforeRequestOpen, ZeroCounts
  <2>6. state' = "HalfOpen" /\ expired' = TRUE
    BY <1>2 DEF BeforeRequestOpen, TimeoutOver, TypeOK
  <2> QED
    BY <2>4, <2>5, <2>6
       DEF Accounts, ClosedAccounting, ProbeAccounting, OpenIsClean, FailuresAreNet
<1>3. ASSUME NEW c \in Callers, BeforeRequestHalfOpen(c)
      PROVE  Accounts'
  <2>1. call[c] = "idle" /\ call' = [call EXCEPT ![c] = "current"]
    BY <1>3 DEF BeforeRequestHalfOpen, Running
  <2>2. Cardinality(InFlight') = Cardinality(InFlight) + 1
    BY <2>1, AdmitCounted
  <2>3. counts'.Requests = counts.Requests + 1 /\ counts'.Successes = counts.Successes
    BY <1>3, <1>c DEF BeforeRequestHalfOpen, Counts
  <2>4. counts.Requests < MaxRequests
    BY <1>3, <1>c DEF BeforeRequestHalfOpen, ProbesSpent, Counts
  <2>5. state = "HalfOpen" /\ state' = "HalfOpen" /\ expired' = expired
    BY <1>3 DEF BeforeRequestHalfOpen
  <2> QED
    BY <1>c, <2>2, <2>3, <2>4, <2>5
       DEF Accounts, ClosedAccounting, ProbeAccounting, OpenIsClean, FailuresAreNet, Counts
<1>4. ASSUME NEW c \in Callers, AfterRequest(c, TRUE)
      PROVE  Accounts'
  <2> DEFINE n == CountSuccess(counts)
  <2>n. /\ n.Requests = counts.Requests
        /\ n.Successes = counts.Successes + 1
        /\ n.Failures = counts.Failures
        /\ n.TotalFailures = counts.TotalFailures
        /\ n \in Counts
    BY <1>c, CountSuccessFields
  <2> HIDE DEF n
  <2>c. call[c] = "current"
    BY <1>4 DEF AfterRequest, SameGeneration
  <2>1. CASE /\ state = "Closed"
             /\ counts' = [n EXCEPT !.Failures = Forgive(@)]
             /\ call' = Idle(c)
             /\ UNCHANGED <<state, expired>>
    <3>1. Cardinality(InFlight') = Cardinality(InFlight) - 1
      BY <2>c, <2>1, EndCounted
    <3>2. /\ counts'.Requests = counts.Requests
          /\ counts'.Successes = counts.Successes + 1
          /\ counts'.TotalFailures = counts.TotalFailures
          /\ counts'.Failures = Forgive(counts.Failures)
      BY <2>1, <2>n DEF Counts
    <3>3. Forgive(counts.Failures) <= counts.Failures /\ counts.Failures <= Forgive(counts.Failures) + 1
      BY <1>c DEF Forgive, Counts
    <3> QED
      BY <1>c, <2>1, <3>1, <3>2, <3>3
         DEF Accounts, ClosedAccounting, ProbeAccounting, OpenIsClean, FailuresAreNet, Counts
  <2>2. CASE /\ state = "HalfOpen"
             /\ ~ProbesPassed(n)
             /\ counts' = n
             /\ call' = Idle(c)
             /\ UNCHANGED <<state, expired>>
    <3>1. Cardinality(InFlight') = Cardinality(InFlight) - 1
      BY <2>c, <2>2, EndCounted
    <3>2. counts'.Successes < MaxRequests
      BY <2>2, <2>n DEF ProbesPassed, Counts
    <3> QED
      BY <1>c, <2>2, <2>n, <3>1, <3>2
         DEF Accounts, ClosedAccounting, ProbeAccounting, OpenIsClean, FailuresAreNet, Counts
  <2>3. CASE state = "HalfOpen" /\ SetState("Closed", Idle(c), n)
    <3>1. Cardinality(InFlight') = 0 /\ counts' = ZeroCounts /\ state' = "Closed"
      BY <2>3, SetStateClean
    <3>2. expired' = expired
      BY <2>3 DEF SetState
    <3> QED
      BY <2>3, <3>1, <3>2
         DEF Accounts, ClosedAccounting, ProbeAccounting, OpenIsClean, FailuresAreNet, ZeroCounts, TypeOK
  <2> QED
    BY <1>4, <2>1, <2>2, <2>3 DEF AfterRequest, OnSuccess, n
<1>5. ASSUME NEW c \in Callers, AfterRequest(c, FALSE)
      PROVE  Accounts'
  <2> DEFINE n == CountFailure(counts)
  <2>n. /\ n.Requests = counts.Requests
        /\ n.Successes = counts.Successes
        /\ n.Failures = counts.Failures + 1
        /\ n.TotalFailures = counts.TotalFailures + 1
    BY <1>c, CountFailureFields
  <2> HIDE DEF n
  <2>c. call[c] = "current"
    BY <1>5 DEF AfterRequest, SameGeneration
  <2>1. CASE /\ state = "Closed"
             /\ counts' = n
             /\ call' = Idle(c)
             /\ UNCHANGED <<state, expired>>
    <3>1. Cardinality(InFlight') = Cardinality(InFlight) - 1
      BY <2>c, <2>1, EndCounted
    <3> QED
      BY <1>c, <2>1, <2>n, <3>1
         DEF Accounts, ClosedAccounting, ProbeAccounting, OpenIsClean, FailuresAreNet, Counts
  <2>2. CASE SetState("Open", Idle(c), n) \/ SetState("Open", Idle(c), counts)
    <3>1. InFlight' = {} /\ counts' = ZeroCounts /\ state' = "Open"
      BY <2>2, SetStateClean
    <3> QED
      BY <3>1 DEF Accounts, ClosedAccounting, ProbeAccounting, OpenIsClean, FailuresAreNet
  <2> QED
    BY <1>5, <2>1, <2>2 DEF AfterRequest, OnFailure, n
<1>6. ASSUME NEW c \in Callers, AfterRequestStale(c)
      PROVE  Accounts'
  <2>1. InFlight' = InFlight
    BY <1>6, IdleType DEF AfterRequestStale, SameGeneration, InFlight
  <2> QED
    BY <1>6, <2>1
       DEF AfterRequestStale, Accounts, ClosedAccounting, ProbeAccounting, OpenIsClean, FailuresAreNet
<1>7. CASE TimeoutPasses
  <2>1. InFlight' = InFlight
    BY <1>7 DEF TimeoutPasses, InFlight
  <2> QED
    BY <1>7, <2>1
       DEF TimeoutPasses, Accounts, ClosedAccounting, ProbeAccounting, OpenIsClean, FailuresAreNet
<1>8. CASE UNCHANGED vars
  <2>1. InFlight' = InFlight
    BY <1>8 DEF vars, InFlight
  <2> QED
    BY <1>8, <2>1
       DEF vars, Accounts, ClosedAccounting, ProbeAccounting, OpenIsClean, FailuresAreNet
<1> QED
  BY <1>1, <1>2, <1>3, <1>4, <1>5, <1>6, <1>7, <1>8
     DEF Next, BeforeRequest, Completes, Refuse

(* A new breaker has counted nothing and runs nothing. *)
LEMMA AccountsInit == Init => Accounts
<1> SUFFICES ASSUME Init PROVE Accounts
  OBVIOUS
<1>1. InFlight = {}
  BY DEF Init, InFlight
<1>2. Cardinality(InFlight) = 0
  BY <1>1, FS_EmptySet
<1> QED
  BY <1>2 DEF Init, ZeroCounts, Accounts, ClosedAccounting, ProbeAccounting, OpenIsClean,
              FailuresAreNet

(***************************************************************************)
(* For any number of callers and probes: the closed counts account for     *)
(* every call, a half-open breaker admits at most MaxRequests probes, an   *)
(* open one starts clean, and Failures is the net number of failures.      *)
(***************************************************************************)
THEOREM AccountsHold ==
    Spec => [](ClosedAccounting /\ ProbeAccounting /\ OpenIsClean /\ FailuresAreNet)
<1>1. TypeOK /\ Accounts /\ [Next]_vars => (TypeOK /\ Accounts)'
  BY TypeStep, AccountsStep
<1>2. Init => TypeOK /\ Accounts
  BY AccountsInit DEF Init, TypeOK, States, Counts, ZeroCounts
<1>3. Accounts => ClosedAccounting /\ ProbeAccounting /\ OpenIsClean /\ FailuresAreNet
  BY DEF Accounts
<1> QED
  BY <1>1, <1>2, <1>3, PTL DEF Spec

(* No call of a closed breaker is lost or counted twice. *)
THEOREM CallsAccounted == Spec => []ClosedAccounting
BY AccountsHold, PTL

-----------------------------------------------------------------------------
(* The invariant of the steps below. *)
LEMMA InvariantHolds == Spec => [](TypeOK /\ Accounts)
<1>1. Init => TypeOK /\ Accounts
  BY AccountsInit DEF Init, TypeOK, States, Counts, ZeroCounts
<1> QED
  BY <1>1, TypeStep, AccountsStep, PTL DEF Spec

(* What of the probes has not succeeded is running. *)
LEMMA SpentProbesRun == TypeOK /\ Accounts => SomeProbeDecides
<1> SUFFICES ASSUME TypeOK, Accounts, state = "HalfOpen", ProbesSpent(counts), InFlight = {}
             PROVE  FALSE
  BY DEF SomeProbeDecides
<1>1. Cardinality(InFlight) = 0
  BY FS_EmptySet
<1>2. counts.Requests = counts.Successes + 0 /\ counts.Successes < MaxRequests
  BY <1>1 DEF Accounts, ProbeAccounting
<1> QED
  BY <1>2, MaxRequestsAssumption DEF ProbesSpent, TypeOK, Counts

(* The limit on probes (beforeRequest, StateHalfOpen) never leaves the     *)
(* breaker refusing every call with no probe left to close or open it.     *)
THEOREM ProbesDecide == Spec => []SomeProbeDecides
BY InvariantHolds, SpentProbesRun, PTL

(* A set of one call more than none has one element. *)
LEMMA LastProbe ==
    ASSUME TypeOK, ProbeAccounting, NEW c \in Callers, call[c] = "current",
           state = "HalfOpen", ProbesPassed(CountSuccess(counts))
    PROVE  /\ counts.Requests = MaxRequests
           /\ counts.Successes + 1 = MaxRequests
           /\ InFlight = {c}
<1>1. counts \in Counts /\ Cardinality(InFlight) \in Nat /\ c \in InFlight
  BY InFlightFinite DEF TypeOK, InFlight
<1>2. counts.Successes + 1 >= MaxRequests
  BY <1>1, CountSuccessFields DEF ProbesPassed
<1>3. InFlight # {}
  BY <1>1
<1>4. Cardinality(InFlight) # 0
  BY <1>3, InFlightFinite, FS_EmptySet
<1>5. /\ counts.Successes + 1 = MaxRequests
      /\ Cardinality(InFlight) = 1
      /\ counts.Requests = MaxRequests
  BY <1>1, <1>2, <1>4, MaxRequestsAssumption DEF ProbeAccounting, Counts
<1>6. PICK x : InFlight = {x}
  BY <1>5, InFlightFinite, FS_Singleton
<1> QED
  BY <1>1, <1>5, <1>6

(* The breaker closes only when all MaxRequests probes have succeeded.     *)
THEOREM ClosesAfterAllProbes == Spec => ClosesOnlyAfterAllProbes
<1>1. ASSUME TypeOK, Accounts, [Next]_vars
      PROVE  [(state = "HalfOpen" /\ state' = "Closed") =>
                /\ counts.Requests = MaxRequests
                /\ counts.Successes + 1 = MaxRequests
                /\ \E c \in Callers : InFlight = {c}]_vars
  <2> SUFFICES ASSUME state = "HalfOpen", state' = "Closed"
               PROVE  /\ counts.Requests = MaxRequests
                      /\ counts.Successes + 1 = MaxRequests
                      /\ \E c \in Callers : InFlight = {c}
    OBVIOUS
  <2>1. PICK c \in Callers : AfterRequest(c, TRUE) \/ AfterRequest(c, FALSE)
    BY <1>1 DEF Next, BeforeRequest, Completes, Refuse, BeforeRequestClosed, BeforeRequestOpen,
                BeforeRequestHalfOpen, AfterRequestStale, TimeoutPasses, vars
  <2>2. call[c] = "current" /\ ProbesPassed(CountSuccess(counts))
    BY <2>1 DEF AfterRequest, OnSuccess, OnFailure, SetState, SameGeneration
  <2> QED
    BY <1>1, <2>2, LastProbe DEF Accounts
<1> QED
  BY <1>1, InvariantHolds, PTL DEF Spec, ClosesOnlyAfterAllProbes

(* A call of an earlier generation changes nothing when it ends.           *)
THEOREM StaleIgnored == Spec => StaleCallsAreIgnored
<1>1. ASSUME TypeOK, [Next]_vars
      PROVE  [\A c \in Callers : (call[c] = "stale" /\ call'[c] = "idle")
                 => UNCHANGED <<state, counts, expired>>]_vars
  <2> SUFFICES ASSUME NEW c \in Callers, call[c] = "stale", call'[c] = "idle"
               PROVE  UNCHANGED <<state, counts, expired>>
    OBVIOUS
  <2>t. call \in [Callers -> Statuses]
    BY <1>1 DEF TypeOK, Statuses
  <2>1. ASSUME NEW d \in Callers, BeforeRequestClosed(d) \/ BeforeRequestHalfOpen(d)
        PROVE  FALSE
    BY <2>1, <2>t DEF BeforeRequestClosed, BeforeRequestHalfOpen, Running
  <2>2. ASSUME NEW d \in Callers, BeforeRequestOpen(d)
        PROVE  FALSE
    <3>1. NextGeneration(call)[c] # "idle" /\ NextGeneration(call) \in [Callers -> Statuses]
      BY <2>t, NextGenerationType
    <3> QED
      BY <2>2, <3>1 DEF BeforeRequestOpen
  <2>3. ASSUME NEW d \in Callers, NEW ok \in BOOLEAN, AfterRequest(d, ok)
        PROVE  FALSE
    <3>1. d # c
      BY <2>3 DEF AfterRequest, SameGeneration
    <3>2. Idle(d) \in [Callers -> Statuses] /\ Idle(d)[c] = "stale"
      BY <1>1, <3>1, IdleType
    <3>3. NextGeneration(Idle(d))[c] # "idle"
      BY <3>2, NextGenerationType
    <3>4. call' = Idle(d) \/ call' = NextGeneration(Idle(d))
      BY <2>3 DEF AfterRequest, OnSuccess, OnFailure, SetState
    <3> QED
      BY <3>2, <3>3, <3>4
  <2> QED
    BY <1>1, <2>1, <2>2, <2>3
       DEF Next, BeforeRequest, Completes, Refuse, AfterRequestStale, TimeoutPasses, vars
<1> QED
  BY <1>1, TypeCorrect, PTL DEF Spec, StaleCallsAreIgnored

-----------------------------------------------------------------------------
(* Refinement.  The set of calls inside the gate, named.                   *)
Inside == {c \in Callers : Running(c)}

(* The end of call c takes it out of the calls inside.                     *)
LEMMA EndLeaves ==
    ASSUME TypeOK, NEW c \in Callers, Running(c),
           call' = Idle(c) \/ call' = NextGeneration(Idle(c))
    PROVE  c \in Inside /\ Inside' = Inside \ {c}
<1>1. Idle(c) \in [Callers -> Statuses]
  BY IdleType
<1>2. \A d \in Callers : call'[d] = "idle" <=> Idle(c)[d] = "idle"
  BY <1>1, NextGenerationType
<1> QED
  BY <1>2, IdleType DEF Inside, Running

(* Every step of the breaker is a step of the gate, or none.               *)
LEMMA GateStep == TypeOK /\ Accounts /\ [Next]_vars => [Gate!Next]_(Gate!gateVars)
<1> SUFFICES ASSUME TypeOK, Accounts, [Next]_vars
             PROVE  Gate!Next \/ UNCHANGED Gate!gateVars
  OBVIOUS
<1> USE MaxRequestsAssumption
<1>c. counts \in Counts /\ Cardinality(InFlight) \in Nat
  BY InFlightFinite DEF TypeOK
<1>1. ASSUME NEW c \in Callers, BeforeRequestClosed(c)
      PROVE  Gate!Enter(c)
  <2>1. call[c] = "idle" /\ call' = [call EXCEPT ![c] = "current"]
    BY <1>1 DEF BeforeRequestClosed, Running
  <2>2. c \notin Inside /\ Inside' = Inside \union {c}
    BY <2>1 DEF Inside, Running, TypeOK
  <2> QED
    BY <1>1, <2>2 DEF BeforeRequestClosed, Gate!Enter, Inside
<1>2. ASSUME NEW c \in Callers, BeforeRequestOpen(c)
      PROVE  Gate!FirstTrial(c)
  <2>1. /\ NextGeneration(call) \in [Callers -> Statuses]
        /\ \A d \in Callers : NextGeneration(call)[d] # "current"
        /\ \A d \in Callers : NextGeneration(call)[d] = "idle" <=> call[d] = "idle"
    BY NextGenerationType DEF TypeOK, Statuses
  <2>2. c \notin Inside /\ Inside' = Inside \union {c}
    BY <1>2, <2>1 DEF BeforeRequestOpen, Inside, Running
  <2>3. InFlight' = {c}
    BY <1>2, <2>1 DEF BeforeRequestOpen, InFlight
  <2>4. counts'.Requests = 1
    BY <1>2 DEF BeforeRequestOpen, ZeroCounts
  <2> QED
    BY <1>2, <2>2, <2>3, <2>4 DEF BeforeRequestOpen, Gate!FirstTrial, Inside
<1>3. ASSUME NEW c \in Callers, BeforeRequestHalfOpen(c)
      PROVE  Gate!NextTrial(c)
  <2>1. call[c] = "idle" /\ call' = [call EXCEPT ![c] = "current"]
    BY <1>3 DEF BeforeRequestHalfOpen, Running
  <2>2. c \notin Inside /\ Inside' = Inside \union {c}
    BY <2>1 DEF Inside, Running, TypeOK
  <2>3. InFlight' = InFlight \union {c}
    BY <2>1, AdmitCounted
  <2>4. counts'.Requests = counts.Requests + 1
    BY <1>3, <1>c DEF BeforeRequestHalfOpen, Counts
  <2>5. MaxRequests - counts.Requests > 0 /\ counts.Requests \in Nat
    BY <1>3, <1>c DEF BeforeRequestHalfOpen, ProbesSpent, Counts
  <2> QED
    BY <1>3, <2>2, <2>3, <2>4, <2>5 DEF BeforeRequestHalfOpen, Gate!NextTrial, Inside
<1>4. ASSUME NEW c \in Callers, NEW ok \in BOOLEAN, AfterRequest(c, ok)
      PROVE  Gate!Next
  <2>c. call[c] = "current" /\ Running(c) /\ c \in InFlight
    BY <1>4 DEF AfterRequest, SameGeneration, Running, InFlight
  <2>l. call' = Idle(c) \/ call' = NextGeneration(Idle(c))
    BY <1>4 DEF AfterRequest, OnSuccess, OnFailure, SetState
  <2>i. c \in Inside /\ Inside' = Inside \ {c}
    BY <2>c, <2>l, EndLeaves
  <2>1. CASE state = "Closed"
    <3>1. state' = "Closed" \/ state' = "Open"
      BY <1>4, <2>1 DEF AfterRequest, OnSuccess, OnFailure, SetState
    <3>2. CASE state' = "Closed"
      <4>1. Gate!Leave(c)
        BY <2>1, <2>i, <3>2 DEF Gate!Leave, Inside
      <4> QED
        BY <4>1 DEF Gate!Next, Gate!Succeeds
    <3>3. CASE state' = "Open"
      <4>1. Gate!Trip(c)
        BY <2>1, <2>i, <3>3 DEF Gate!Trip, Inside
      <4> QED
        BY <4>1 DEF Gate!Next, Gate!Fails
    <3> QED
      BY <3>1, <3>2, <3>3
  <2>2. CASE state = "HalfOpen" /\ state' = "Open"
    <3>1. Gate!Fail(c)
      BY <2>2, <2>c, <2>i DEF Gate!Fail, Inside
    <3> QED
      BY <3>1 DEF Gate!Next, Gate!Fails
  <2>3. CASE state = "HalfOpen" /\ state' = "Closed"
    <3>1. ProbesPassed(CountSuccess(counts))
      BY <1>4, <2>3 DEF AfterRequest, OnSuccess, OnFailure, SetState
    <3>2. InFlight = {c} /\ counts.Requests = MaxRequests
      BY <2>3, <2>c, <3>1, LastProbe DEF Accounts
    <3>3. Gate!LastPass(c)
      BY <2>3, <2>i, <3>2 DEF Gate!LastPass, Inside
    <3> QED
      BY <3>3 DEF Gate!Next, Gate!Succeeds
  <2>4. CASE state = "HalfOpen" /\ state' = "HalfOpen"
    <3>1. /\ ~ProbesPassed(CountSuccess(counts))
          /\ counts' = CountSuccess(counts)
          /\ call' = Idle(c)
      BY <1>4, <2>4 DEF AfterRequest, OnSuccess, OnFailure, SetState
    <3>2. InFlight' = InFlight \ {c}
      BY <2>c, <3>1, EndCounted
    <3>3. counts'.Requests = counts.Requests /\ counts.Successes + 1 < MaxRequests
      BY <1>c, <3>1, CountSuccessFields DEF ProbesPassed, Counts
    <3>4. InFlight = {c} => MaxRequests - counts.Requests > 0
      <4> SUFFICES ASSUME InFlight = {c}
                   PROVE  MaxRequests - counts.Requests > 0
        OBVIOUS
      <4>1. Cardinality(InFlight) = 1
        BY FS_Singleton
      <4> QED
        BY <1>c, <2>4, <3>3, <4>1 DEF Accounts, ProbeAccounting, Counts
    <3>5. Gate!Pass(c)
      BY <2>4, <2>c, <2>i, <3>2, <3>3, <3>4 DEF Gate!Pass, Inside
    <3> QED
      BY <3>5 DEF Gate!Next, Gate!Succeeds
  <2> QED
    BY <1>4, <2>1, <2>2, <2>3, <2>4 DEF AfterRequest, OnSuccess, OnFailure, SetState
<1>5. ASSUME NEW c \in Callers, AfterRequestStale(c)
      PROVE  Gate!Leave(c)
  <2>1. c \in Inside /\ Inside' = Inside \ {c}
    BY <1>5, EndLeaves DEF AfterRequestStale
  <2>2. c \notin InFlight /\ InFlight' = InFlight
    BY <1>5, IdleType DEF AfterRequestStale, SameGeneration, InFlight
  <2> QED
    BY <1>5, <2>1, <2>2 DEF AfterRequestStale, Gate!Leave, Inside
<1>6. CASE UNCHANGED <<state, counts, call>>
  <2>1. Inside' = Inside /\ InFlight' = InFlight
    BY <1>6 DEF Inside, InFlight, Running
  <2> QED
    BY <1>6, <2>1 DEF Gate!gateVars, Inside
<1> QED
  BY <1>1, <1>2, <1>3, <1>4, <1>5, <1>6
     DEF Next, BeforeRequest, Completes, Refuse, TimeoutPasses, vars, Gate!Next, Gate!Admits,
         Gate!Succeeds

(* The breaker implements the gate: what its counters and generations do   *)
(* amounts, for the service behind it, to ProbeGate.                       *)
THEOREM GateImplemented == Spec => ImplementsGate
<1>1. Init => Gate!Init
  BY DEF Init, Gate!Init, Running
<1> QED
  BY <1>1, GateStep, InvariantHolds, PTL DEF Spec, ImplementsGate, Gate!Spec

=============================================================================
