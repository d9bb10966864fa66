--------------------------- MODULE PaymentConsumer ---------------------------
(***************************************************************************)
(* services/payment/internal/consumer: a pool of workers that take payment *)
(* requests from one RabbitMQ consumer, create Stripe payment intents      *)
(* behind a circuit breaker, and are shut down by a signal.                *)
(*                                                                         *)
(* broker.Consume asks for automatic acknowledgement, so the server        *)
(* forgets a message when it sends it: an Ack or a Reject says nothing to  *)
(* it that it can act on, and it answers one with an error that closes the *)
(* channel, as a lost connection does.  The client library then drops what *)
(* it has not handed over.                                                 *)
(***************************************************************************)
EXTENDS Naturals, FiniteSets

CONSTANTS
    Workers,    \* config.NumWorkers goroutines
    Messages,   \* deliveries, malformed ones included
    MaxTrials   \* the breaker's MaxRequests

VARIABLES
    mode, inside, trial, left,  \* the gate of the breaker
    place,      \* where each message is; once settled, its verdict
    pc, msg,    \* each worker's step and message
    verdict,    \* how it will settle its message
    wg,         \* processWg
    cancelled,  \* c.ctx is done
    main,       \* the goroutine in Start
    waiter,     \* the goroutine it starts to wait for wg
    channel,    \* the AMQP channel
    charged,    \* payment intents Stripe made for each message
    late        \* messages whose failed call Stripe may still carry out

gateVars == <<mode, inside, trial, left>>
workerVars == <<pc, msg, verdict, wg>>
stripe == <<charged, late>>
vars == <<gateVars, workerVars, place, cancelled, main, waiter, channel, stripe>>

Gate == INSTANCE ProbeGate WITH Callers <- Workers

None == "none"
Held == "held"

ASSUME WorkersAssumption == IsFiniteSet(Workers)
ASSUME MessagesAssumption == None \notin Messages
ASSUME TrialsAssumption == MaxTrials \in Nat \ {0}

Init ==
    /\ Gate!Init
    /\ place = [m \in Messages |-> "queue"]
    /\ pc = [w \in Workers |-> "idle"]
    /\ msg = [w \in Workers |-> None]
    /\ verdict = [w \in Workers |-> None]
    /\ wg = 0
    /\ cancelled = FALSE
    /\ main = "running"
    /\ waiter = "none"
    /\ channel = "open"
    /\ charged = [m \in Messages |-> 0]
    /\ late = {}

GoTo(w, step) == pc' = [pc EXCEPT ![w] = step]

Judge(w, v) ==
    /\ GoTo(w, "settling")
    /\ verdict' = [verdict EXCEPT ![w] = v]
    /\ UNCHANGED <<msg, wg>>

-----------------------------------------------------------------------------
(* The server sends a message to the client library's buffer. *)
Deliver(m) ==
    /\ channel = "open"
    /\ place[m] = "queue"
    /\ place' = [place EXCEPT ![m] = "buffer"]
    /\ UNCHANGED <<gateVars, workerVars, cancelled, main, waiter, channel, stripe>>

(* Of two ready cases select takes either: a worker may take one more      *)
(* message after the context was cancelled.                                *)
Take(w) ==
    /\ pc[w] = "idle"
    /\ \E m \in Messages :
          /\ place[m] = "buffer"
          /\ place' = [place EXCEPT ![m] = Held]
          /\ msg' = [msg EXCEPT ![w] = m]
    /\ GoTo(w, "taken")
    /\ UNCHANGED <<gateVars, verdict, wg, cancelled, main, waiter, channel, stripe>>

Stop(w) ==
    /\ pc[w] = "idle"
    /\ cancelled \/ channel = "closed"
    /\ GoTo(w, "stopped")
    /\ UNCHANGED <<gateVars, place, msg, verdict, wg, cancelled, main, waiter, channel, stripe>>

(* processWg.Add(1), after the message was received. *)
Count(w) ==
    /\ pc[w] = "taken"
    /\ wg' = wg + 1
    /\ GoTo(w, "counted")
    /\ UNCHANGED <<gateVars, place, msg, verdict, cancelled, main, waiter, channel, stripe>>

Malformed(w) ==
    /\ pc[w] = "counted"
    /\ Judge(w, "reject")
    /\ UNCHANGED <<gateVars, place, cancelled, main, waiter, channel, stripe>>

Admitted(w) ==
    /\ pc[w] = "counted"
    /\ Gate!Admits(w)
    /\ GoTo(w, "guarded")
    /\ UNCHANGED <<place, msg, verdict, wg, cancelled, main, waiter, channel, stripe>>

Refused(w) ==
    /\ pc[w] = "counted"
    /\ Gate!Refuse(w)
    /\ Judge(w, "requeue")
    /\ UNCHANGED <<place, cancelled, main, waiter, channel, stripe>>

(* ExecuteContext looks at the context once, before it calls. *)
ContextDone(w) ==
    /\ pc[w] = "guarded"
    /\ cancelled
    /\ Gate!Fails(w)
    /\ Judge(w, "reject")
    /\ UNCHANGED <<place, cancelled, main, waiter, channel, stripe>>

BugMayCall == TRUE
MayCall == ~cancelled

Call(w) ==
    /\ pc[w] = "guarded"
    /\ MayCall
    /\ GoTo(w, "calling")
    /\ UNCHANGED <<gateVars, place, msg, verdict, wg, cancelled, main, waiter, channel, stripe>>

Charge(w) == charged' = [charged EXCEPT ![msg[w]] = @ + 1]

(* The request is on its way to Stripe when the client gives it up. *)
MayChargeLate(w) == late' = late \union {msg[w]}

Paid(w) ==
    /\ pc[w] = "calling"
    /\ Charge(w)
    /\ Gate!Succeeds(w)
    /\ Judge(w, "ack")
    /\ UNCHANGED <<late, place, cancelled, main, waiter, channel>>

BugNotPaid(w) ==
    /\ pc[w] = "calling"
    /\ Charge(w) \/ UNCHANGED charged
    /\ UNCHANGED late
    /\ \/ Gate!Fails(w) /\ Judge(w, "reject")
       \/ GoTo(w, "guarded") /\ UNCHANGED <<gateVars, msg, verdict, wg>>
    /\ UNCHANGED <<place, cancelled, main, waiter, channel>>

(* Stripe reports an error, or it made the intent and its reply is lost,   *)
(* or the call fails here before Stripe has made one.                      *)
NotPaid(w) ==
    /\ pc[w] = "calling"
    /\ \/ Charge(w) /\ UNCHANGED late
       \/ UNCHANGED stripe
       \/ MayChargeLate(w) /\ UNCHANGED charged
    /\ Gate!Fails(w)
    /\ Judge(w, "reject")
    /\ UNCHANGED <<place, cancelled, main, waiter, channel>>

LateCharge(m) ==
    /\ m \in late
    /\ late' = late \ {m}
    /\ charged' = [charged EXCEPT ![m] = @ + 1]
    /\ UNCHANGED <<gateVars, workerVars, place, cancelled, main, waiter, channel>>

BugDone(w) == IF verdict[w] = "requeue" THEN wg ELSE wg - 1
Done(w) == wg - 1

(* Ack or Reject, then the deferred Done.  On a closed channel they fail,  *)
(* and the error is ignored.  No verdict brings the message back.          *)
Settle(w) ==
    /\ pc[w] = "settling"
    /\ place' = [place EXCEPT ![msg[w]] = verdict[w]]
    /\ wg' = Done(w)
    /\ waiter' = IF waiter = "blocked" /\ wg' = 0 THEN "woken" ELSE waiter
    /\ msg' = [msg EXCEPT ![w] = None]
    /\ verdict' = [verdict EXCEPT ![w] = None]
    /\ GoTo(w, "idle")
    /\ UNCHANGED <<gateVars, cancelled, main, channel, stripe>>

-----------------------------------------------------------------------------
(* The channel is closed: messages no worker received are dropped. *)
CloseChannel ==
    /\ channel' = "closed"
    /\ place' = [m \in Messages |-> IF place[m] = "buffer" THEN "dropped" ELSE place[m]]

(* The server answers an acknowledgement it did not ask for, or the        *)
(* connection is lost.                                                     *)
ServerCloses ==
    /\ channel = "open"
    /\ CloseChannel
    /\ UNCHANGED <<gateVars, workerVars, cancelled, main, waiter, stripe>>

(* SIGINT or SIGTERM: the context is cancelled and the waiter started. *)
Quit ==
    /\ main = "running"
    /\ cancelled' = TRUE
    /\ main' = "waiting"
    /\ waiter' = "entering"
    /\ UNCHANGED <<gateVars, workerVars, place, channel, stripe>>

BugWait ==
    /\ waiter = "entering"
    /\ waiter' = "done"
    /\ UNCHANGED <<gateVars, workerVars, place, cancelled, main, channel, stripe>>

(* processWg.Wait(). *)
Wait ==
    /\ waiter = "entering"
    /\ waiter' = IF wg = 0 THEN "done" ELSE "blocked"
    /\ UNCHANGED <<gateVars, workerVars, place, cancelled, main, channel, stripe>>

Wake ==
    /\ waiter = "woken"
    /\ wg = 0
    /\ waiter' = "done"
    /\ UNCHANGED <<gateVars, workerVars, place, cancelled, main, channel, stripe>>

(* A waiter that finds the group in use again when it wakes up panics, and *)
(* the process ends.                                                       *)
Panic ==
    /\ waiter = "woken"
    /\ wg > 0
    /\ waiter' = "done"
    /\ main' = "panicked"
    /\ pc' = [w \in Workers |-> "stopped"]
    /\ CloseChannel
    /\ UNCHANGED <<gateVars, msg, verdict, wg, cancelled, stripe>>

Waited ==
    /\ main = "waiting"
    /\ waiter = "done"
    /\ main' = "graceful"
    /\ UNCHANGED <<gateVars, workerVars, place, cancelled, waiter, channel, stripe>>

BugTimesOut == main = "waiting" /\ waiter = "done" /\ main' = "timedout"
TimesOut == main = "waiting" /\ main' = "timedout"

(* Thirty seconds. *)
TimedOut ==
    /\ TimesOut
    /\ UNCHANGED <<gateVars, workerVars, place, cancelled, waiter, channel, stripe>>

(* return c.broker.Close() *)
Return ==
    /\ main \in {"graceful", "timedout"}
    /\ main' = IF main = "graceful" THEN "returnedGracefully" ELSE "returnedLate"
    /\ CloseChannel
    /\ UNCHANGED <<gateVars, workerVars, cancelled, waiter, stripe>>

(* The exported Close, while Start waits for its signal. *)
Close ==
    /\ main = "running"
    /\ cancelled' = TRUE
    /\ CloseChannel
    /\ UNCHANGED <<gateVars, workerVars, main, waiter, stripe>>

Work(w) ==
    \/ Take(w) \/ Stop(w) \/ Count(w) \/ Malformed(w)
    \/ Admitted(w) \/ Refused(w) \/ ContextDone(w) \/ Call(w)
    \/ Paid(w) \/ NotPaid(w) \/ Settle(w)

Shutdown == Waited \/ TimedOut \/ Return

Next ==
    \/ \E m \in Messages : Deliver(m) \/ LateCharge(m)
    \/ \E w \in Workers : Work(w)
    \/ ServerCloses \/ Quit \/ Close \/ Wait \/ Wake \/ Panic \/ Shutdown

(* The goroutine in Start is scheduled and its timer fires.  Nothing is    *)
(* assumed of Stripe, of the broker or of the workers.                     *)
Spec == Init /\ [][Next]_vars /\ WF_vars(Shutdown)

-----------------------------------------------------------------------------
InProcess == {w \in Workers : pc[w] \in {"counted", "guarded", "calling", "settling"}}
Verdicts == {"ack", "requeue", "reject"}
Graceful == main \in {"graceful", "returnedGracefully"}
Returned == main \in {"returnedGracefully", "returnedLate"}

TypeOK ==
    /\ mode \in {"Closed", "Open", "HalfOpen"}
    /\ inside \subseteq Workers
    /\ trial \subseteq inside
    /\ left \in 0 .. MaxTrials
    /\ place \in [Messages -> {"queue", "buffer", Held, "dropped"} \union Verdicts]
    /\ pc \in [Workers -> {"idle", "taken", "counted", "guarded", "calling", "settling", "stopped"}]
    /\ msg \in [Workers -> Messages \union {None}]
    /\ verdict \in [Workers -> Verdicts \union {None}]
    /\ wg \in 0 .. Cardinality(Workers)
    /\ cancelled \in BOOLEAN
    /\ main \in {"running", "waiting", "graceful", "timedout", "panicked",
                 "returnedGracefully", "returnedLate"}
    /\ waiter \in {"none", "entering", "blocked", "woken", "done"}
    /\ channel \in {"open", "closed"}
    /\ charged \in [Messages -> 0 .. 1]
    /\ late \subseteq Messages

(***************************************************************************)
(* A customer is charged at most once for a message, exactly once for one  *)
(* that is acknowledged and never for one that the breaker refused, though *)
(* a failed call may have charged and no idempotency key is sent.          *)
(***************************************************************************)
ChargesMatchVerdicts ==
    /\ \A m \in Messages :
          /\ charged[m] <= 1
          /\ place[m] = "ack" => charged[m] = 1
          /\ place[m] \in {"queue", "buffer", "dropped", "requeue"} => charged[m] = 0
    /\ \A v, w \in Workers : msg[v] = msg[w] /\ msg[v] # None => v = w

(***************************************************************************)
(* The wait group counts the messages in process, on every return path of  *)
(* processMessage, and the breaker holds a slot for exactly the calls that *)
(* have not come back: the pool leaks neither.                             *)
(***************************************************************************)
CountsAreExact == main # "panicked" =>
    /\ wg = Cardinality(InProcess)
    /\ inside = {w \in Workers : pc[w] \in {"guarded", "calling"}}

(***************************************************************************)
(* Once Start has seen all workers complete nobody is charged by a new     *)
(* call, although a worker may take a message and be counted after that:   *)
(* the cancelled context stops it before the call.  Only Stripe may still  *)
(* carry out a call that had failed here before, and no such call is added.*)
(***************************************************************************)
NoChargeAfterGraceful == [][Graceful =>
    /\ late' \subseteq late
    /\ \A m \in Messages \ late : charged'[m] = charged[m]]_vars

(***************************************************************************)
(* Start returns after a signal even when a Stripe call never comes back   *)
(* and the wait group never reaches zero; the one other end is the panic.  *)
(***************************************************************************)
StartReturns == main = "waiting" ~> Returned \/ main = "panicked"

(***************************************************************************)
(* "All workers completed gracefully" is printed while a worker may hold a *)
(* message: it was received before processWg.Add(1) counted it, so Wait    *)
(* did not wait for it.  No customer pays for such a message, then or      *)
(* later: it is given up before its call, and a call that was made has     *)
(* been waited for.                                                        *)
(***************************************************************************)
AbandonedUncharged ==
    Graceful => \A m \in Messages : place[m] = Held => charged[m] = 0 /\ m \notin late

(***************************************************************************)
(* A half-open breaker that refuses every payment waits for one that is    *)
(* out: a refusal, a cancelled context or a failed call never leaves the   *)
(* pool half-open with nobody to decide.                                   *)
(***************************************************************************)
SomeWorkerDecides == main # "panicked" /\ mode = "HalfOpen" /\ left = 0 =>
    \E w \in trial : pc[w] \in {"guarded", "calling"}

=============================================================================
