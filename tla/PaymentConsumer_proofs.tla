----------------------- MODULE PaymentConsumer_proofs -----------------------
(***************************************************************************)
(* Proofs about PaymentConsumer, for every finite pool of workers and any  *)
(* set of messages: who holds a message, what was charged for it, what the *)
(* wait group and the breaker's gate count, and that a graceful shutdown   *)
(* is followed by no charge.                                               *)
(***************************************************************************)
EXTENDS PaymentConsumer, FiniteSetTheorems, TLAPS

Busy == {"taken", "counted", "guarded", "calling", "settling"}

(* A message a worker received is held, by that worker alone; whoever is   *)
(* not busy has none, unless the process ended under it (Panic).           *)
Holding ==
    /\ \A w \in Workers : msg[w] # None => place[msg[w]] = Held
    /\ \A v, w \in Workers : msg[v] = msg[w] /\ msg[v] # None => v = w
    /\ \A m \in Messages : place[m] = Held => \E w \in Workers : msg[w] = m
    /\ \A w \in Workers : pc[w] \in Busy => msg[w] # None
    /\ main # "panicked" => \A w \in Workers : pc[w] \notin Busy => msg[w] = None

(* Nobody is or will be charged for a message by a call that was made. *)
Free(m) == charged[m] = 0 /\ m \notin late

(* What is charged follows the step of the worker that holds a message,    *)
(* and its verdict once it has one.                                        *)
Charging ==
    /\ \A m \in Messages :
          /\ place[m] = "ack" => charged[m] = 1
          /\ place[m] \in {"queue", "buffer", "dropped", "requeue"} => Free(m)
          /\ m \in late => charged[m] = 0
    /\ \A w \in Workers :
          /\ pc[w] \in {"taken", "counted", "guarded", "calling"} => Free(msg[w])
          /\ pc[w] = "settling" =>
                /\ verdict[w] \in Verdicts
                /\ verdict[w] = "ack" => charged[msg[w]] = 1
                /\ verdict[w] = "requeue" => Free(msg[w])

(* The process that panicked runs no worker and no waiter. *)
Panicked == main = "panicked" =>
    /\ waiter = "done"
    /\ \A w \in Workers : pc[w] = "stopped"

(* Only a half-open breaker has trials. *)
Trials == mode # "HalfOpen" => trial = {}

Counting == CountsAreExact /\ Panicked /\ Trials

(* Once the waiter has come back no call is on its way and nobody is about *)
(* to settle a message that was charged; the context is cancelled, so that *)
(* no call will be made.                                                   *)
Quiet ==
    /\ waiter # "none" => cancelled
    /\ Graceful => waiter = "done"
    /\ main = "running" => waiter = "none"
    /\ waiter = "done" => \A w \in Workers :
          /\ pc[w] # "calling"
          /\ pc[w] = "settling" => Free(msg[w])

IInv == TypeOK /\ Holding /\ Charging /\ Counting /\ Quiet

-----------------------------------------------------------------------------
(* Whatever lets a call into the gate puts exactly that call inside; only  *)
(* an admitted call is a trial (circuitbreaker.go: beforeRequest).         *)
LEMMA AdmissionEnters ==
    ASSUME TypeOK, Trials, NEW w \in Workers, Gate!Admits(w)
    PROVE  /\ inside' = inside \union {w}
           /\ mode' \in {"Closed", "Open", "HalfOpen"}
           /\ trial' \subseteq inside'
           /\ left' \in 0 .. MaxTrials
           /\ Trials'
BY TrialsAssumption
   DEF TypeOK, Trials, Gate!Admits, Gate!Enter, Gate!FirstTrial, Gate!NextTrial

(* Whatever outcome a call reports, exactly that call leaves the gate      *)
(* (circuitbreaker.go: afterRequest).                                      *)
LEMMA ReportLeaves ==
    ASSUME TypeOK, Trials, NEW w \in Workers, Gate!Succeeds(w) \/ Gate!Fails(w)
    PROVE  /\ inside' = inside \ {w}
           /\ mode' \in {"Closed", "Open", "HalfOpen"}
           /\ trial' \subseteq inside'
           /\ left' \in 0 .. MaxTrials
           /\ Trials'
BY TrialsAssumption
   DEF TypeOK, Trials, Gate!Succeeds, Gate!Fails, Gate!Leave, Gate!Trip, Gate!Fail, Gate!Pass, Gate!LastPass

(* The number of messages in process is a number, at most that of workers. *)
LEMMA InProcessCounts ==
    /\ IsFiniteSet(InProcess)
    /\ Cardinality(Workers) \in Nat
    /\ Cardinality(InProcess) \in Nat
    /\ Cardinality(InProcess) <= Cardinality(Workers)
    /\ Cardinality(InProcess) = 0 <=> InProcess = {}
<1>1. InProcess \in SUBSET Workers
  BY DEF InProcess
<1>2. /\ IsFiniteSet(InProcess)
      /\ Cardinality(InProcess) <= Cardinality(Workers)
  BY <1>1, WorkersAssumption, FS_Subset
<1>3. Cardinality(InProcess) \in Nat /\ Cardinality(Workers) \in Nat
  BY <1>2, WorkersAssumption, FS_CardinalityType
<1>4. Cardinality(InProcess) = 0 <=> InProcess = {}
  BY <1>2, FS_EmptySet
<1> QED
  BY <1>2, <1>3, <1>4

(* The pool starts idle, with nothing taken, counted or charged. *)
LEMMA IInvInit == Init => IInv
<1> SUFFICES ASSUME Init
             PROVE  IInv
  OBVIOUS
<1> USE DEF Init, Gate!Init
<1>1. InProcess = {}
  BY DEF InProcess
<1>2. TypeOK
  <2>1. wg \in 0 .. Cardinality(Workers) /\ left \in 0 .. MaxTrials
    BY InProcessCounts, TrialsAssumption
  <2>2. charged \in [Messages -> 0 .. 1]
    OBVIOUS
  <2> QED
    BY <2>1, <2>2 DEF TypeOK
<1>3. Holding
  <2>1. \A w \in Workers : msg[w] = None /\ pc[w] \notin Busy
    BY DEF Busy
  <2>2. \A m \in Messages : place[m] # Held
    BY DEF Held
  <2> QED
    BY <2>1, <2>2 DEF Holding
<1>4. Charging
  BY DEF Charging, Free
<1>5. Counting
  BY <1>1, InProcessCounts DEF Counting, CountsAreExact, Panicked, Trials
<1>6. Quiet
  BY DEF Quiet, Graceful
<1> QED
  BY <1>2, <1>3, <1>4, <1>5, <1>6 DEF IInv

-----------------------------------------------------------------------------
(***************************************************************************)
(* The wait group and the gate.                                            *)
(***************************************************************************)
(* processWg.Add(1) counts one worker more. *)
LEMMA CountAdds ==
    ASSUME IInv, NEW w \in Workers, Count(w)
    PROVE  Cardinality(InProcess') = Cardinality(InProcess) + 1
<1>1. InProcess' = InProcess \union {w} /\ w \notin InProcess
  BY DEF IInv, TypeOK, Count, GoTo, InProcess
<1> QED
  BY <1>1, InProcessCounts, FS_AddElement

(* The deferred processWg.Done() counts one worker less. *)
LEMMA SettleSubtracts ==
    ASSUME IInv, NEW w \in Workers, Settle(w)
    PROVE  /\ Cardinality(InProcess') = Cardinality(InProcess) - 1
           /\ Cardinality(InProcess) > 0
<1>1. InProcess' = InProcess \ {w} /\ w \in InProcess
  BY DEF IInv, TypeOK, Settle, GoTo, InProcess
<1>2. Cardinality(InProcess') = Cardinality(InProcess) - 1
  BY <1>1, InProcessCounts, FS_RemoveElement
<1> QED
  BY <1>1, <1>2, InProcessCounts

(* A worker at work shows that the process has not panicked. *)
LEMMA WorksUnpanicked ==
    ASSUME IInv, NEW w \in Workers, Work(w)
    PROVE  main # "panicked" /\ main' = main
BY DEF IInv, Counting, Panicked, Work, Take, Stop, Count, Malformed, Admitted, Refused,
       ContextDone, Call, Paid, NotPaid, Settle

(* Every return path of processMessage keeps both counts exact. *)
LEMMA CountingStep == IInv /\ [Next]_vars => Counting'
<1> SUFFICES ASSUME IInv, [Next]_vars
             PROVE  Counting'
  OBVIOUS
<1> USE DEF IInv, Counting, CountsAreExact, Panicked, Trials
<1>1. ASSUME NEW w \in Workers, Count(w)
      PROVE  Counting'
  <2>1. wg' = Cardinality(InProcess')
    BY <1>1, CountAdds DEF Count
  <2>2. inside' = {v \in Workers : pc'[v] \in {"guarded", "calling"}}
    BY <1>1 DEF Count, GoTo, gateVars, TypeOK
  <2> QED
    BY <1>1, <2>1, <2>2 DEF Count, gateVars
<1>2. ASSUME NEW w \in Workers, Settle(w)
      PROVE  Counting'
  <2>1. wg' = Cardinality(InProcess')
    BY <1>2, SettleSubtracts DEF Settle, Done
  <2>2. inside' = {v \in Workers : pc'[v] \in {"guarded", "calling"}}
    BY <1>2 DEF Settle, GoTo, gateVars, TypeOK
  <2> QED
    BY <1>2, <2>1, <2>2 DEF Settle, gateVars
<1>3. ASSUME NEW w \in Workers, Admitted(w)
      PROVE  Counting'
  <2>1. InProcess' = InProcess
    BY <1>3 DEF Admitted, GoTo, InProcess, TypeOK
  <2>2. inside' = inside \union {w} /\ Trials'
    BY <1>3, AdmissionEnters DEF Admitted
  <2>3. inside' = {v \in Workers : pc'[v] \in {"guarded", "calling"}}
    BY <1>3, <2>2 DEF Admitted, GoTo, TypeOK
  <2> QED
    BY <1>3, <2>1, <2>2, <2>3 DEF Admitted
<1>4. ASSUME NEW w \in Workers, ContextDone(w) \/ Paid(w) \/ NotPaid(w)
      PROVE  Counting'
  <2>1. InProcess' = InProcess
    BY <1>4 DEF ContextDone, Paid, NotPaid, Judge, GoTo, InProcess, TypeOK
  <2>2. inside' = inside \ {w} /\ Trials'
    BY <1>4, ReportLeaves DEF ContextDone, Paid, NotPaid
  <2>3. inside' = {v \in Workers : pc'[v] \in {"guarded", "calling"}}
    BY <1>4, <2>2 DEF ContextDone, Paid, NotPaid, Judge, GoTo, TypeOK
  <2> QED
    BY <1>4, <2>1, <2>2, <2>3 DEF ContextDone, Paid, NotPaid, Judge
<1>5. ASSUME NEW w \in Workers, Take(w) \/ Stop(w) \/ Malformed(w) \/ Refused(w) \/ Call(w)
      PROVE  Counting'
  <2>1. InProcess' = InProcess /\ wg' = wg
    BY <1>5 DEF Take, Stop, Malformed, Refused, Call, Judge, GoTo, InProcess, TypeOK
  <2>2. UNCHANGED gateVars
    BY <1>5 DEF Take, Stop, Malformed, Refused, Call, Gate!Refuse, Gate!gateVars, gateVars
  <2>3. inside' = {v \in Workers : pc'[v] \in {"guarded", "calling"}}
    BY <1>5, <2>2 DEF Take, Stop, Malformed, Refused, Call, Judge, GoTo, TypeOK, gateVars
  <2>4. main' = main /\ main # "panicked"
    BY <1>5, WorksUnpanicked DEF Work
  <2> QED
    BY <2>1, <2>2, <2>3, <2>4 DEF gateVars
<1>6. CASE Panic
  BY <1>6 DEF Panic, gateVars, TypeOK
<1>7. CASE /\ UNCHANGED <<gateVars, pc, wg>>
           /\ main' = "panicked" <=> main = "panicked"
           /\ waiter = "done" => waiter' = "done"
  <2>1. InProcess' = InProcess
    BY <1>7 DEF InProcess
  <2> QED
    BY <1>7, <2>1 DEF gateVars
<1>8. CASE (\E m \in Messages : Deliver(m) \/ LateCharge(m)) \/ ServerCloses \/ Quit \/ Close \/ Wait \/ Wake
             \/ Shutdown \/ UNCHANGED vars
  BY <1>7, <1>8 DEF Quiet, Deliver, LateCharge, ServerCloses, Quit, Close, Wait, Wake, Shutdown, Waited,
                    TimedOut, TimesOut, Return, vars, workerVars
<1> QED
  BY <1>1, <1>2, <1>3, <1>4, <1>5, <1>6, <1>8 DEF Next, Work

-----------------------------------------------------------------------------
(***************************************************************************)
(* Types, and who holds which message.                                     *)
(***************************************************************************)
(* Closing the channel only moves messages out of the library's buffer. *)
LEMMA ClosedPlaces ==
    ASSUME TypeOK, CloseChannel
    PROVE  /\ place' \in [Messages -> {"queue", "buffer", Held, "dropped"} \union Verdicts]
           /\ channel' \in {"open", "closed"}
           /\ \A m \in Messages :
                 place'[m] = IF place[m] = "buffer" THEN "dropped" ELSE place[m]
BY DEF TypeOK, CloseChannel

(* Every step leaves each variable in its type: the wait group between 0   *)
(* and the number of workers, a message charged at most once.              *)
LEMMA TypeOKStep == IInv /\ [Next]_vars => TypeOK'
<1> SUFFICES ASSUME IInv, [Next]_vars
             PROVE  TypeOK'
  OBVIOUS
<1>0. TypeOK
  BY DEF IInv
<1>1. ASSUME NEW w \in Workers, Count(w) \/ Settle(w)
      PROVE  TypeOK'
  <2>1. main # "panicked" /\ main' = main
    BY <1>1, WorksUnpanicked DEF Work
  <2>2. wg' = Cardinality(InProcess')
    BY <1>1, <2>1, CountAdds, SettleSubtracts
       DEF IInv, Counting, CountsAreExact, Count, Settle, Done
  <2>3. wg' \in 0 .. Cardinality(Workers)
    <3>1. IsFiniteSet(Workers) /\ InProcess' \in SUBSET Workers
      BY WorkersAssumption DEF InProcess
    <3>2. Cardinality(InProcess') \in Nat /\ Cardinality(InProcess') <= Cardinality(Workers)
      BY <3>1, FS_Subset, FS_CardinalityType
    <3> QED
      BY <2>2, <3>2, InProcessCounts
  <2>4. msg[w] \in Messages /\ (pc[w] = "settling" => verdict[w] \in Verdicts)
    BY <1>0, <1>1 DEF IInv, TypeOK, Holding, Charging, Busy, Count, Settle
  <2> QED
    BY <1>0, <1>1, <2>3, <2>4 DEF TypeOK, Count, Settle, GoTo, gateVars, stripe
<1>2. ASSUME NEW w \in Workers, Admitted(w)
      PROVE  TypeOK'
  <2>1. inside' \subseteq Workers /\ mode' \in {"Closed", "Open", "HalfOpen"}
        /\ trial' \subseteq inside' /\ left' \in 0 .. MaxTrials
    BY <1>0, <1>2, AdmissionEnters DEF Admitted, IInv, Counting, TypeOK
  <2> QED
    BY <1>0, <1>2, <2>1 DEF TypeOK, Admitted, GoTo, stripe
<1>3. ASSUME NEW w \in Workers, ContextDone(w) \/ Paid(w) \/ NotPaid(w)
      PROVE  TypeOK'
  <2>1. inside' \subseteq Workers /\ mode' \in {"Closed", "Open", "HalfOpen"}
        /\ trial' \subseteq inside' /\ left' \in 0 .. MaxTrials
    BY <1>0, <1>3, ReportLeaves DEF ContextDone, Paid, NotPaid, IInv, Counting, TypeOK
  <2>2. pc[w] = "calling" => charged[msg[w]] = 0 /\ msg[w] \in Messages
    BY <1>0 DEF IInv, TypeOK, Charging, Free, Holding, Busy
  <2>3. charged' \in [Messages -> 0 .. 1] /\ late' \subseteq Messages
    BY <1>0, <1>3, <2>2 DEF TypeOK, ContextDone, Paid, NotPaid, Charge, MayChargeLate, stripe
  <2>4. /\ pc' \in [Workers -> {"idle", "taken", "counted", "guarded", "calling", "settling", "stopped"}]
        /\ verdict' \in [Workers -> Verdicts \union {None}]
        /\ UNCHANGED <<msg, wg, place, cancelled, main, waiter, channel>>
    BY <1>0, <1>3 DEF TypeOK, ContextDone, Paid, NotPaid, Judge, GoTo, Verdicts
  <2> QED
    BY <1>0, <2>1, <2>3, <2>4 DEF TypeOK
<1>4. ASSUME NEW w \in Workers, Take(w) \/ Stop(w) \/ Malformed(w) \/ Refused(w) \/ Call(w)
      PROVE  TypeOK'
  <2>1. UNCHANGED gateVars
    BY <1>4 DEF Take, Stop, Malformed, Refused, Call, Gate!Refuse, Gate!gateVars, gateVars
  <2> QED
    BY <1>0, <1>4, <2>1
       DEF TypeOK, Take, Stop, Malformed, Refused, Call, Judge, GoTo, Verdicts, gateVars, stripe
<1>5. CASE Panic \/ ServerCloses \/ Return \/ Close
  BY <1>0, <1>5, ClosedPlaces
     DEF TypeOK, Panic, ServerCloses, Return, Close, gateVars, workerVars, stripe
<1>6. CASE (\E m \in Messages : Deliver(m) \/ LateCharge(m)) \/ Quit \/ Wait \/ Wake \/ Waited \/ TimedOut
             \/ UNCHANGED vars
  <2>1. CASE \E m \in Messages : Deliver(m)
    BY <1>0, <2>1 DEF TypeOK, Deliver, gateVars, workerVars, stripe
  <2>2. CASE Quit \/ Wait \/ Wake
    BY <1>0, <2>2 DEF TypeOK, Quit, Wait, Wake, gateVars, workerVars, stripe
  <2>3. CASE Waited \/ TimedOut
    BY <1>0, <2>3 DEF TypeOK, Waited, TimedOut, TimesOut, gateVars, workerVars, stripe
  <2>4. CASE UNCHANGED vars
    BY <1>0, <2>4 DEF TypeOK, vars, gateVars, workerVars, stripe
  <2>5. ASSUME NEW m \in Messages, LateCharge(m)
        PROVE  TypeOK'
    <3>1. charged[m] = 0
      BY <2>5 DEF IInv, Charging, LateCharge
    <3> QED
      BY <1>0, <2>5, <3>1 DEF TypeOK, LateCharge, gateVars, workerVars
  <2> QED
    BY <1>6, <2>1, <2>2, <2>3, <2>4, <2>5
<1> QED
  BY <1>1, <1>2, <1>3, <1>4, <1>5, <1>6 DEF Next, Work, Shutdown

(* A message goes to one worker and stays with it until it is settled. *)
LEMMA HoldingStep == IInv /\ [Next]_vars => Holding'
<1> SUFFICES ASSUME IInv, [Next]_vars
             PROVE  Holding'
  OBVIOUS
<1>0. TypeOK /\ Holding
  BY DEF IInv
<1>1. ASSUME NEW w \in Workers, Take(w)
      PROVE  Holding'
  <2>1. PICK m \in Messages : /\ place[m] = "buffer"
                              /\ place' = [place EXCEPT ![m] = Held]
                              /\ msg' = [msg EXCEPT ![w] = m]
    BY <1>1 DEF Take
  <2>2. \A v \in Workers : msg[v] # m
    BY <1>0, <2>1, MessagesAssumption DEF Holding, Held
  <2>3. main # "panicked" /\ main' = main /\ msg[w] = None
    BY <1>0, <1>1, WorksUnpanicked DEF Work, Holding, Take, Busy
  <2> QED
    BY <1>0, <1>1, <2>1, <2>2, <2>3, MessagesAssumption DEF TypeOK, Holding, Take, GoTo, Busy
<1>2. ASSUME NEW w \in Workers, Settle(w)
      PROVE  Holding'
  <2>1. /\ main # "panicked" /\ main' = main
        /\ msg[w] \in Messages
        /\ verdict[w] \in Verdicts
    BY <1>0, <1>2, WorksUnpanicked DEF IInv, Work, Settle, Holding, Charging, TypeOK, Busy
  <2>2. verdict[w] # Held
    BY <2>1 DEF Verdicts, Held
  <2> QED
    BY <1>0, <1>2, <2>1, <2>2 DEF TypeOK, Holding, Settle, GoTo, Busy
<1>3. ASSUME NEW w \in Workers,
             Stop(w) \/ Count(w) \/ Malformed(w) \/ Admitted(w) \/ Refused(w) \/ ContextDone(w)
               \/ Call(w) \/ Paid(w) \/ NotPaid(w)
      PROVE  Holding'
  <2>1. main # "panicked" /\ main' = main
    BY <1>3, WorksUnpanicked DEF Work
  <2>2. /\ UNCHANGED <<msg, place>>
        /\ \A v \in Workers : pc'[v] \in Busy <=> pc[v] \in Busy
    BY <1>0, <1>3 DEF TypeOK, Stop, Count, Malformed, Admitted, Refused, ContextDone, Call, Paid,
                      NotPaid, Judge, GoTo, Busy
  <2> QED
    BY <1>0, <2>1, <2>2 DEF Holding
<1>4. CASE Panic \/ ServerCloses \/ Return \/ Close
  <2>1. /\ UNCHANGED msg
        /\ \A m \in Messages : place'[m] = Held <=> place[m] = Held
        /\ \A v \in Workers : pc'[v] \in Busy => pc[v] \in Busy
        /\ main' = "panicked" \/ (pc' = pc /\ (main' = "panicked" <=> main = "panicked"))
    BY <1>0, <1>4, ClosedPlaces
       DEF Panic, ServerCloses, Return, Close, workerVars, Busy, Held
  <2> QED
    BY <1>0, <2>1 DEF Holding, TypeOK
<1>5. CASE (\E m \in Messages : Deliver(m) \/ LateCharge(m)) \/ Quit \/ Wait \/ Wake \/ Waited \/ TimedOut
             \/ UNCHANGED vars
  <2>1. /\ UNCHANGED <<msg, pc>>
        /\ main' = "panicked" <=> main = "panicked"
        /\ \A m \in Messages : place'[m] = Held <=> place[m] = Held
    BY <1>0, <1>5 DEF TypeOK, Deliver, LateCharge, Quit, Wait, Wake, Waited, TimedOut, TimesOut, vars,
                      workerVars, Held
  <2> QED
    BY <1>0, <2>1 DEF Holding, TypeOK
<1> QED
  BY <1>1, <1>2, <1>3, <1>4, <1>5 DEF Next, Work, Shutdown

-----------------------------------------------------------------------------
(***************************************************************************)
(* What is charged.                                                        *)
(***************************************************************************)
(* A step that charges nobody, moves at most unsettled messages and leaves *)
(* every worker where it was, or stops it, keeps the account.              *)
LEMMA UnchargedSteps ==
    ASSUME TypeOK, Charging,
           UNCHANGED <<stripe, msg, verdict>>,
           \A w \in Workers : pc'[w] = pc[w] \/ pc'[w] = "stopped",
           \A m \in Messages :
              \/ place'[m] = place[m]
              \/ place[m] \in {"queue", "buffer"} /\ place'[m] \in {"buffer", "dropped"}
    PROVE  Charging'
BY DEF TypeOK, Charging, Free, stripe

(* A customer pays for the message of the one worker that calls Stripe,    *)
(* and the verdict of that worker says so if the call came back well.      *)
LEMMA ChargingStep == IInv /\ [Next]_vars => Charging'
<1> SUFFICES ASSUME IInv, [Next]_vars
             PROVE  Charging'
  OBVIOUS
<1>0. TypeOK /\ Holding /\ Charging
  BY DEF IInv
<1>1. ASSUME NEW w \in Workers, Take(w)
      PROVE  Charging'
  <2>1. PICK m \in Messages : /\ place[m] = "buffer"
                              /\ place' = [place EXCEPT ![m] = Held]
                              /\ msg' = [msg EXCEPT ![w] = m]
    BY <1>1 DEF Take
  <2>2. Free(m)
    BY <1>0, <2>1 DEF Charging
  <2> QED
    BY <1>0, <1>1, <2>1, <2>2 DEF TypeOK, Charging, Free, Take, GoTo, Held, stripe
<1>2. ASSUME NEW w \in Workers, Paid(w) \/ NotPaid(w)
      PROVE  Charging'
  <2>1. /\ pc[w] = "calling"
        /\ msg[w] \in Messages
        /\ place[msg[w]] = Held
    BY <1>0, <1>2 DEF TypeOK, Holding, Paid, NotPaid, Busy
  <2>2. \A v \in Workers : v # w /\ pc[v] \in Busy => msg[v] \in Messages /\ msg[v] # msg[w]
    BY <1>0, <2>1 DEF TypeOK, Holding
  <2>3. /\ UNCHANGED <<place, msg>>
        /\ pc' = [pc EXCEPT ![w] = "settling"]
        /\ verdict' = [verdict EXCEPT ![w] = IF Paid(w) THEN "ack" ELSE "reject"]
        /\ \A m \in Messages : m # msg[w] =>
              charged'[m] = charged[m] /\ (m \in late' <=> m \in late)
        /\ Paid(w) => charged'[msg[w]] = 1
        /\ msg[w] \in late' => charged'[msg[w]] = 0
    BY <1>0, <1>2, <2>1 DEF TypeOK, Charging, Free, Paid, NotPaid, Charge, MayChargeLate, stripe,
                            Judge, GoTo
  <2>4. verdict'[w] \in Verdicts /\ (verdict'[w] = "ack" => Paid(w)) /\ verdict'[w] # "requeue"
    BY <1>0, <2>3 DEF TypeOK, Verdicts
  <2>5. \A m \in Messages : place'[m] # Held => m # msg[w]
    BY <2>1, <2>3
  <2> QED
    BY <1>0, <2>1, <2>2, <2>3, <2>4, <2>5 DEF TypeOK, Charging, Free, Held, Busy
<1>3. ASSUME NEW w \in Workers, Settle(w)
      PROVE  Charging'
  <2>1. /\ msg[w] \in Messages
        /\ verdict[w] = "ack" => charged[msg[w]] = 1
        /\ verdict[w] = "requeue" => Free(msg[w])
        /\ verdict[w] \in Verdicts
    BY <1>0, <1>3 DEF TypeOK, Holding, Charging, Settle, Busy
  <2>2. \A v \in Workers : v # w => pc'[v] = pc[v] /\ msg'[v] = msg[v] /\ verdict'[v] = verdict[v]
    BY <1>0, <1>3 DEF TypeOK, Settle, GoTo
  <2>3. pc'[w] = "idle" /\ UNCHANGED <<charged, late>>
    BY <1>0, <1>3 DEF TypeOK, Settle, GoTo, stripe
  <2>4. \A m \in Messages : place'[m] = IF m = msg[w] THEN verdict[w] ELSE place[m]
    BY <1>0, <1>3 DEF TypeOK, Settle
  <2> QED
    BY <1>0, <2>1, <2>2, <2>3, <2>4 DEF Charging, Free, Verdicts
<1>4. ASSUME NEW w \in Workers,
             Stop(w) \/ Count(w) \/ Malformed(w) \/ Admitted(w) \/ Refused(w) \/ ContextDone(w)
               \/ Call(w)
      PROVE  Charging'
  <2>1. /\ UNCHANGED <<place, msg, charged, late>>
        /\ \A v \in Workers : v # w => pc'[v] = pc[v] /\ verdict'[v] = verdict[v]
    BY <1>0, <1>4 DEF TypeOK, Stop, Count, Malformed, Admitted, Refused, ContextDone, Call, Judge,
                      GoTo, stripe
  <2>2. \/ pc'[w] = "stopped"
        \/ /\ pc'[w] \in {"counted", "guarded", "calling"}
           /\ pc[w] \in {"taken", "counted", "guarded"}
        \/ /\ pc'[w] = "settling"
           /\ verdict'[w] \in {"reject", "requeue"}
           /\ pc[w] \in {"counted", "guarded"}
    BY <1>0, <1>4 DEF TypeOK, Stop, Count, Malformed, Admitted, Refused, ContextDone, Call, Judge,
                      GoTo
  <2> QED
    BY <1>0, <2>1, <2>2 DEF Charging, Free, Verdicts
<1>5. CASE Panic \/ ServerCloses \/ Return \/ Close
  <2>1. UNCHANGED <<stripe, msg, verdict>> /\ CloseChannel
    BY <1>5 DEF Panic, ServerCloses, Return, Close, workerVars
  <2>2. \A w \in Workers : pc'[w] = pc[w] \/ pc'[w] = "stopped"
    BY <1>5 DEF Panic, ServerCloses, Return, Close, workerVars
  <2> QED
    BY <1>0, <2>1, <2>2, ClosedPlaces, UnchargedSteps
<1>6. CASE \E m \in Messages : Deliver(m)
  BY <1>0, <1>6, UnchargedSteps DEF TypeOK, Deliver, workerVars
<1>7. CASE Quit \/ Wait \/ Wake \/ Waited \/ TimedOut \/ UNCHANGED vars
  BY <1>0, <1>7, UnchargedSteps DEF Quit, Wait, Wake, Waited, TimedOut, TimesOut, vars, workerVars
<1>8. ASSUME NEW m \in Messages, LateCharge(m)
      PROVE  Charging'
  <2>1. /\ UNCHANGED <<place, pc, msg, verdict>> /\ m \in late /\ m \notin late'
        /\ \A n \in Messages : n # m => charged'[n] = charged[n] /\ (n \in late' <=> n \in late)
    BY <1>0, <1>8 DEF TypeOK, LateCharge, workerVars
  <2>2. charged[m] = 0 /\ ~Free(m)
    BY <1>0, <2>1 DEF Charging, Free
  <2>3. \A n : Free(n) /\ n \in Messages => Free(n)'
    BY <2>1, <2>2 DEF Free
  <2>4. \A w \in Workers : pc[w] \in Busy => msg[w] \in Messages
    BY <1>0 DEF TypeOK, Holding
  <2> QED
    BY <1>0, <2>1, <2>2, <2>3, <2>4 DEF Charging, Busy
<1> QED
  BY <1>1, <1>2, <1>3, <1>4, <1>5, <1>6, <1>7, <1>8 DEF Next, Work, Shutdown

-----------------------------------------------------------------------------
(***************************************************************************)
(* The shutdown.                                                           *)
(***************************************************************************)
(* A waiter that finds the count zero finds no worker in process. *)
LEMMA ZeroMeansNone ==
    ASSUME IInv, main # "panicked", wg = 0
    PROVE  \A w \in Workers : pc[w] \notin {"counted", "guarded", "calling", "settling"}
<1>1. InProcess = {}
  BY InProcessCounts DEF IInv, Counting, CountsAreExact
<1> QED
  BY <1>1 DEF InProcess

(* After the waiter has come back a worker that still takes a message is   *)
(* counted, admitted and then stopped by the context, before its call.     *)
LEMMA QuietStep == IInv /\ [Next]_vars => Quiet'
<1> SUFFICES ASSUME IInv, [Next]_vars
             PROVE  Quiet'
  OBVIOUS
<1>0. TypeOK /\ Holding /\ Charging /\ Quiet
  BY DEF IInv
<1>1. CASE Wait \/ Wake
  <2>1. main # "panicked"
    BY <1>1 DEF IInv, Counting, Panicked, Wait, Wake
  <2>2. waiter' = "done" => \A w \in Workers : pc[w] \notin {"calling", "settling"}
    BY <1>1, <2>1, ZeroMeansNone DEF Wait, Wake
  <2> QED
    BY <1>0, <1>1, <2>1, <2>2 DEF Quiet, Graceful, Wait, Wake, workerVars
<1>2. CASE Panic
  BY <1>0, <1>2 DEF TypeOK, Quiet, Graceful, Panic
<1>3. CASE Quit \/ Close \/ Waited \/ TimedOut \/ Return \/ ServerCloses
             \/ (\E m \in Messages : Deliver(m)) \/ UNCHANGED vars
  BY <1>0, <1>3 DEF Quiet, Graceful, Free, Quit, Close, Waited, TimedOut, TimesOut, Return,
                    ServerCloses, Deliver, vars, workerVars, stripe
<1>4. ASSUME NEW w \in Workers, Work(w)
      PROVE  Quiet'
  <2>1. UNCHANGED <<main, cancelled>> /\ (waiter' = "done" <=> waiter = "done")
        /\ (waiter' = "none" <=> waiter = "none")
    BY <1>4 DEF Work, Take, Stop, Count, Malformed, Admitted, Refused, ContextDone, Call, Paid,
                NotPaid, Settle
  <2>2. SUFFICES ASSUME waiter = "done"
                 PROVE  (\A v \in Workers : /\ pc[v] # "calling"
                                            /\ pc[v] = "settling" => Free(msg[v]))'
    BY <1>0, <2>1, <2>2 DEF Quiet, Graceful
  <2>3. cancelled /\ pc[w] # "calling"
    BY <1>0, <2>2 DEF Quiet
  <2>4. ~ Call(w) /\ ~ Paid(w) /\ ~ NotPaid(w)
    BY <2>3 DEF Call, MayCall, Paid, NotPaid
  <2>5. UNCHANGED <<charged, late>>
    BY <1>4, <2>4 DEF Work, Take, Stop, Count, Malformed, Admitted, Refused, ContextDone, Settle,
                      stripe
  <2>6. \A v \in Workers : v # w => pc'[v] = pc[v] /\ msg'[v] = msg[v]
    BY <1>0, <1>4, <2>4 DEF TypeOK, Work, Take, Stop, Count, Malformed, Admitted, Refused,
                            ContextDone, Settle, Judge, GoTo
  <2>7. pc'[w] # "calling" /\ (pc'[w] = "settling" => Free(msg'[w]))
    BY <1>0, <1>4, <2>4 DEF TypeOK, Charging, Work, Take, Stop, Count, Malformed, Admitted, Refused,
                            ContextDone, Settle, Judge, GoTo
  <2> QED
    BY <1>0, <2>2, <2>5, <2>6, <2>7 DEF Quiet, Free
<1>5. ASSUME NEW m \in Messages, LateCharge(m)
      PROVE  Quiet'
  <2>1. /\ UNCHANGED <<pc, msg, cancelled, main, waiter>> /\ m \in late /\ late' \subseteq late
        /\ \A n \in Messages : n # m => charged'[n] = charged[n]
    BY <1>0, <1>5 DEF TypeOK, LateCharge, workerVars
  <2>2. \A n \in Messages : Free(n) => Free(n)'
    BY <2>1 DEF Free
  <2>3. \A w \in Workers : pc[w] \in Busy => msg[w] \in Messages
    BY <1>0 DEF TypeOK, Holding
  <2> QED
    BY <1>0, <2>1, <2>2, <2>3 DEF Quiet, Graceful, Busy
<1> QED
  BY <1>1, <1>2, <1>3, <1>4, <1>5 DEF Next, Shutdown

-----------------------------------------------------------------------------
(* Every step keeps the inductive invariant. *)
LEMMA IInvStep == IInv /\ [Next]_vars => IInv'
BY TypeOKStep, HoldingStep, ChargingStep, CountingStep, QuietStep DEF IInv

(* IInv is an invariant. *)
LEMMA IInvHolds == Spec => []IInv
BY IInvInit, IInvStep, PTL DEF Spec

(* Each variable keeps its type, whatever the pool and the shutdown do. *)
THEOREM Typed == Spec => []TypeOK
<1>1. IInv => TypeOK
  BY DEF IInv
<1> QED
  BY <1>1, IInvHolds, PTL

(* At most one charge for a message, exactly one for an acknowledged one,  *)
(* none for one that was refused or dropped: processMessage under any      *)
(* number of workers and any shutdown.                                     *)
THEOREM ChargesHold == Spec => []ChargesMatchVerdicts
<1>1. IInv => ChargesMatchVerdicts
  BY DEF IInv, TypeOK, Holding, Charging, Free, ChargesMatchVerdicts
<1> QED
  BY <1>1, IInvHolds, PTL

(* processWg and the breaker's slots are given back on every return path. *)
THEOREM CountsHold == Spec => []CountsAreExact
<1>1. IInv => CountsAreExact
  BY DEF IInv, Counting
<1> QED
  BY <1>1, IInvHolds, PTL

(* A message a graceful shutdown abandons has not been charged. *)
THEOREM AbandonedHolds == Spec => []AbandonedUncharged
<1>1. ASSUME IInv
      PROVE  AbandonedUncharged
  <2> SUFFICES ASSUME Graceful, NEW m \in Messages, place[m] = Held
               PROVE  Free(m)
    BY DEF AbandonedUncharged, Free
  <2>1. main # "panicked" /\ waiter = "done"
    BY <1>1 DEF IInv, Quiet, Graceful
  <2>2. PICK w \in Workers : msg[w] = m
    BY <1>1 DEF IInv, Holding
  <2>3. pc[w] \in Busy
    BY <1>1, <2>1, <2>2, MessagesAssumption DEF IInv, Holding
  <2> QED
    BY <1>1, <2>1, <2>2, <2>3 DEF IInv, Charging, Quiet, Busy
<1> QED
  BY <1>1, IInvHolds, PTL

(* Once Start has seen all workers complete, no step charges anybody but   *)
(* Stripe's for a call that had failed before.                             *)
THEOREM GracefulNeverCharges == Spec => NoChargeAfterGraceful
<1>1. IInv /\ [Next]_vars => [Graceful => /\ late' \subseteq late
                                         /\ \A m \in Messages \ late : charged'[m] = charged[m]]_vars
  <2> SUFFICES ASSUME IInv, [Next]_vars, Graceful
               PROVE  /\ late' \subseteq late
                      /\ \A m \in Messages \ late : charged'[m] = charged[m]
    OBVIOUS
  <2>1. \A w \in Workers : ~ Paid(w) /\ ~ NotPaid(w)
    BY DEF IInv, Quiet, Paid, NotPaid
  <2>2. CASE \E m \in Messages : LateCharge(m)
    BY <2>2 DEF LateCharge, IInv, TypeOK
  <2>3. CASE ~\E m \in Messages : LateCharge(m)
    <3>1. UNCHANGED stripe
      BY <2>1, <2>3
         DEF Next, Work, Shutdown, Deliver, Take, Stop, Count, Malformed, Admitted, Refused,
             ContextDone, Call, Settle, ServerCloses, Quit, Close, Wait, Wake, Panic, Waited,
             TimedOut, TimesOut, Return, vars
    <3> QED
      BY <3>1 DEF stripe
  <2> QED
    BY <2>2, <2>3
<1> QED
  BY <1>1, IInvHolds, PTL DEF Spec, NoChargeAfterGraceful

(***************************************************************************)
(* What the pool does to its breaker is a behaviour of ProbeGate: no       *)
(* return path of a worker reports a call that was not let in, or twice.   *)
(***************************************************************************)
THEOREM GateFollowed == Spec => Gate!Spec
<1>1. Init => Gate!Init
  BY DEF Init
<1>2. [Next]_vars => [Gate!Next]_(Gate!gateVars)
  <2> SUFFICES ASSUME [Next]_vars
               PROVE  Gate!Next \/ UNCHANGED Gate!gateVars
    OBVIOUS
  <2>1. ASSUME NEW w \in Workers,
               Admitted(w) \/ Refused(w) \/ ContextDone(w) \/ Paid(w) \/ NotPaid(w)
        PROVE  Gate!Next
    BY <2>1 DEF Admitted, Refused, ContextDone, Paid, NotPaid, Gate!Next
  <2>2. CASE UNCHANGED gateVars
    BY <2>2 DEF gateVars, Gate!gateVars
  <2> QED
    BY <2>1, <2>2
       DEF Next, Work, Shutdown, Deliver, LateCharge, Take, Stop, Count, Malformed, Call, Settle,
           ServerCloses, Quit, Close, Wait, Wake, Panic, Waited, TimedOut, TimesOut, Return, vars, gateVars
<1> QED
  BY <1>1, <1>2, PTL DEF Spec, Gate!Spec

(***************************************************************************)
(* A half-open breaker that admits nobody has a payment out that decides:  *)
(* the gate keeps a trial until its period is judged, and by the counts    *)
(* that trial is a worker's call.                                          *)
(***************************************************************************)
THEOREM WorkersDecide == Spec => []SomeWorkerDecides
<1>1. Gate!Init => Gate!SomeTrialDecides
  BY DEF Gate!Init, Gate!SomeTrialDecides
<1>2. Gate!SomeTrialDecides /\ [Gate!Next]_(Gate!gateVars) => Gate!SomeTrialDecides'
  <2> SUFFICES ASSUME Gate!SomeTrialDecides, [Gate!Next]_(Gate!gateVars)
               PROVE  Gate!SomeTrialDecides'
    OBVIOUS
  <2>1. CASE UNCHANGED Gate!gateVars
    BY <2>1 DEF Gate!gateVars, Gate!SomeTrialDecides
  <2>2. ASSUME NEW w \in Workers, Gate!Admits(w)
        PROVE  Gate!SomeTrialDecides'
    BY <2>2 DEF Gate!Admits, Gate!Enter, Gate!FirstTrial, Gate!NextTrial, Gate!SomeTrialDecides
  <2>3. ASSUME NEW w \in Workers, Gate!Pass(w)
        PROVE  Gate!SomeTrialDecides'
    BY <2>3 DEF Gate!Pass, Gate!SomeTrialDecides
  <2>4. ASSUME NEW w \in Workers,
               Gate!Leave(w) \/ Gate!Trip(w) \/ Gate!Fail(w) \/ Gate!LastPass(w)
        PROVE  Gate!SomeTrialDecides'
    BY <2>4 DEF Gate!Leave, Gate!Trip, Gate!Fail, Gate!LastPass, Gate!SomeTrialDecides
  <2> QED
    BY <2>1, <2>2, <2>3, <2>4 DEF Gate!Next, Gate!Refuse, Gate!Succeeds, Gate!Fails
<1>3. Spec => []Gate!SomeTrialDecides
  BY <1>1, <1>2, GateFollowed, PTL DEF Gate!Spec
<1>4. IInv /\ Gate!SomeTrialDecides => SomeWorkerDecides
  BY DEF IInv, TypeOK, Counting, CountsAreExact, Gate!SomeTrialDecides, SomeWorkerDecides
<1> QED
  BY <1>3, <1>4, IInvHolds, PTL

=============================================================================
