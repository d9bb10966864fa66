----------------------------- MODULE MessageFlow -----------------------------
(***************************************************************************)
(* What happens to a message after a service hands it to RabbitMQ: the     *)
(* shared broker library (services/broker), the consumer loops of payment  *)
(* (cmd/main.go), reservation (cmd/main.go) and notification (cmd/main.go),*)
(* and the publishers that feed them.                                      *)
(*                                                                         *)
(* Each of the three services declares one durable queue and binds it to   *)
(* one exchange and key, so a queue is named here by its service.  The     *)
(* library publishes messages that are neither persistent nor mandatory    *)
(* and consumes with automatic acknowledgement.                            *)
(***************************************************************************)
EXTENDS Naturals, FiniteSets

CONSTANTS
    Tickets,      \* tickets that messages are about
    Sample,       \* the fixed ticket of SimulateWebhook's mail
    MaxRestarts,  \* bound: services stop this often
    MaxOutages    \* bound: RabbitMQ restarts this often

ASSUME SampleAssumption == Sample \notin Tickets
ASSUME BoundsAssumption == MaxRestarts \in Nat /\ MaxOutages \in Nat

VARIABLES
    declared,   \* queues that exist
    queue,      \* what RabbitMQ holds for each service
    up,         \* the service runs
    listening,  \* its consumer's channel is open
    buffer,     \* delivered, and not yet taken by the loop
    work,       \* the ticket of the message the loop handles
    step,       \* how far it is
    purchased,  \* tickets with a purchase
    charges,    \* payment intents Stripe made for each ticket
    published,  \* publications that returned no error
    mailed,
    restarts, outages

vars == <<declared, queue, up, listening, buffer, work, step, purchased, charges,
          published, mailed, restarts, outages>>

Services == {"payment", "reservation", "notification"}

None == "none"

ASSUME NoneAssumption == None \notin Tickets \union {Sample}

(* The exchange and the key each service binds its queue to. *)
Binding(s) ==
    CASE s = "payment"      -> [exchange |-> "tixie", key |-> "topay"]
      [] s = "reservation"  -> [exchange |-> "tixie", key |-> "payment.confirmed"]
      [] s = "notification" -> [exchange |-> "notification", key |-> "email"]

Publication(exchange, key, t) == [exchange |-> exchange, key |-> key, ticket |-> t]

(* RabbitMQ puts a message into the queues bound for it.  One that no      *)
(* queue is bound for is dropped, and Publish returns no error.            *)
Route(ps) ==
    /\ queue' = [s \in Services |-> queue[s] \union
                    {p.ticket : p \in {q \in ps : /\ s \in declared
                                                  /\ Binding(s).exchange = q.exchange
                                                  /\ Binding(s).key = q.key}}]
    /\ published' = published \union ps

Init ==
    /\ declared = {}
    /\ queue = [s \in Services |-> {}]
    /\ up = [s \in Services |-> FALSE]
    /\ listening = [s \in Services |-> FALSE]
    /\ buffer = [s \in Services |-> {}]
    /\ work = [s \in Services |-> None]
    /\ step = [s \in Services |-> "idle"]
    /\ purchased = {}
    /\ charges = [t \in Tickets |-> 0]
    /\ published = {}
    /\ mailed = {}
    /\ restarts = 0
    /\ outages = 0

bounds == <<restarts, outages>>
loops == <<declared, up, listening, buffer, work, step>>

-----------------------------------------------------------------------------
(* ReserveTicket stores a purchase and publishes to the exchange "payment",*)
(* both messages or none (Reservation has the case between).               *)
Reserve(t) ==
    /\ up["reservation"]
    /\ t \notin purchased
    /\ purchased' = purchased \union {t}
    /\ \E keys \in {{}, {"topay", "email"}} : Route({Publication("payment", k, t) : k \in keys})
    /\ UNCHANGED <<loops, charges, mailed, bounds>>

(* A payment request on the exchange the payment service listens to: no    *)
(* code of the repository publishes one.                                   *)
Request(t) ==
    /\ Publication("tixie", "topay", t) \notin published
    /\ Route({Publication("tixie", "topay", t)})
    /\ UNCHANGED <<loops, purchased, charges, mailed, bounds>>

SimulateWebhook ==
    /\ up["payment"]
    /\ Publication("notification", "email", Sample) \notin published
    /\ Route({Publication("notification", "email", Sample)})
    /\ UNCHANGED <<loops, purchased, charges, mailed, bounds>>

-----------------------------------------------------------------------------
(* NewBroker, DeclareAndBindQueue, Consume. *)
Start(s) ==
    /\ ~up[s]
    /\ up' = [up EXCEPT ![s] = TRUE]
    /\ declared' = declared \union {s}
    /\ listening' = [listening EXCEPT ![s] = TRUE]
    /\ UNCHANGED <<queue, buffer, work, step, purchased, charges, published, mailed, bounds>>

(* Without RabbitMQ the notification service ends and the others run       *)
(* without a consumer.                                                     *)
StartDeaf(s) ==
    /\ ~up[s]
    /\ s # "notification"
    /\ up' = [up EXCEPT ![s] = TRUE]
    /\ UNCHANGED <<declared, listening, queue, buffer, work, step, purchased, charges,
                   published, mailed, bounds>>

Deafen(S) ==
    /\ listening' = [s \in Services |-> listening[s] /\ s \notin S]
    /\ buffer' = [s \in Services |-> IF s \in S THEN {} ELSE buffer[s]]

(* startMessageConsumer of the payment service returns when its loop runs, *)
(* and the deferred Close ends the subscription.                           *)
DeferredClose ==
    /\ listening["payment"]
    /\ Deafen({"payment"})
    /\ UNCHANGED <<declared, up, work, step, queue, purchased, charges, published, mailed, bounds>>

BugDeliver(s, t) ==
    /\ listening[s]
    /\ t \in queue[s]
    /\ buffer' = [buffer EXCEPT ![s] = @ \union {t}]
    /\ UNCHANGED <<declared, up, listening, work, step, queue, purchased, charges, published, mailed, bounds>>

(* RabbitMQ sends a message and, with automatic acknowledgement, forgets it. *)
Deliver(s, t) ==
    /\ listening[s]
    /\ t \in queue[s]
    /\ queue' = [queue EXCEPT ![s] = @ \ {t}]
    /\ buffer' = [buffer EXCEPT ![s] = @ \union {t}]
    /\ UNCHANGED <<declared, up, listening, work, step, purchased, charges, published, mailed, bounds>>

Take(s) ==
    /\ work[s] = None
    /\ \E t \in buffer[s] :
          /\ work' = [work EXCEPT ![s] = t]
          /\ buffer' = [buffer EXCEPT ![s] = @ \ {t}]
    /\ step' = [step EXCEPT ![s] = "received"]
    /\ UNCHANGED <<declared, up, listening, queue, purchased, charges, published, mailed, bounds>>

-----------------------------------------------------------------------------
GoOn(s, to) == step' = [step EXCEPT ![s] = to] /\ UNCHANGED work

NextMessage(s) == step' = [step EXCEPT ![s] = "idle"] /\ work' = [work EXCEPT ![s] = None]

subscriptions == <<declared, up, listening, buffer>>

(* Log and continue: a message that does not parse, or whose handling      *)
(* fails, is gone.                                                         *)
BugAfterError(s) == UNCHANGED <<work, step>>
AfterError(s) == NextMessage(s)

BugRefusedCharge == GoOn("payment", "charged")
RefusedCharge == AfterError("payment")

(* paymentintent.New; a reply that is lost leaves a charge behind. *)
Charge ==
    /\ step["payment"] = "received"
    /\ \/ /\ charges' = [charges EXCEPT ![work["payment"]] = @ + 1]
          /\ GoOn("payment", "charged") \/ AfterError("payment")
       \/ UNCHANGED charges /\ RefusedCharge
    /\ UNCHANGED <<subscriptions, queue, purchased, published, mailed, bounds>>

(* The connection was closed by then, and Publish dials again. *)
Confirm ==
    /\ step["payment"] = "charged"
    /\ \/ Route({Publication("tixie", "payment.confirmed", work["payment"])})
       \/ UNCHANGED <<queue, published>>
    /\ NextMessage("payment")
    /\ UNCHANGED <<subscriptions, purchased, charges, mailed, bounds>>

(* GetPurchaseByTicketID and the two GETs. *)
LookUp ==
    /\ step["reservation"] = "received"
    /\ \/ work["reservation"] \in purchased /\ GoOn("reservation", "found")
       \/ AfterError("reservation")
    /\ UNCHANGED <<subscriptions, queue, purchased, charges, published, mailed, bounds>>

Notify ==
    /\ step["reservation"] = "found"
    /\ \/ Route({Publication("tixie", "email", work["reservation"])})
       \/ UNCHANGED <<queue, published>>
    /\ NextMessage("reservation")
    /\ UNCHANGED <<subscriptions, purchased, charges, mailed, bounds>>

(* SendTicketEmail; an error is logged, and the message is gone. *)
Mail ==
    /\ step["notification"] = "received"
    /\ mailed' = mailed \union {work["notification"]} \/ UNCHANGED mailed
    /\ NextMessage("notification")
    /\ UNCHANGED <<subscriptions, queue, purchased, charges, published, bounds>>

Loop(s) ==
    \/ Take(s)
    \/ s = "payment" /\ (Charge \/ Confirm)
    \/ s = "reservation" /\ (LookUp \/ Notify)
    \/ s = "notification" /\ Mail

-----------------------------------------------------------------------------
Stop(s) ==
    /\ up[s]
    /\ restarts < MaxRestarts
    /\ restarts' = restarts + 1
    /\ up' = [up EXCEPT ![s] = FALSE]
    /\ Deafen({s})
    /\ NextMessage(s)
    /\ UNCHANGED <<declared, queue, purchased, charges, published, mailed, outages>>

(* RabbitMQ restarts.  Queues are durable, messages are not; every         *)
(* subscription ends, and no service subscribes again.                     *)
Outage ==
    /\ outages < MaxOutages
    /\ outages' = outages + 1
    /\ queue' = [s \in Services |-> {}]
    /\ Deafen(Services)
    /\ UNCHANGED <<declared, up, work, step, purchased, charges, published, mailed, restarts>>

Next ==
    \/ \E t \in Tickets : Reserve(t) \/ Request(t)
    \/ SimulateWebhook \/ DeferredClose \/ Outage
    \/ \E s \in Services : Start(s) \/ StartDeaf(s) \/ Stop(s) \/ Loop(s)
    \/ \E s \in Services, t \in Tickets \union {Sample} : Deliver(s, t)

(* The loops are scheduled, and each of their calls returns, with an error *)
(* if need be.  Nothing is assumed of RabbitMQ or of the services.         *)
Spec == Init /\ [][Next]_vars /\ \A s \in Services : WF_vars(Loop(s))

-----------------------------------------------------------------------------
Subjects == Tickets \union {Sample}

TypeOK ==
    /\ declared \subseteq Services
    /\ queue \in [Services -> SUBSET Subjects]
    /\ up \in [Services -> BOOLEAN]
    /\ listening \in [Services -> BOOLEAN]
    /\ \A s \in Services : listening[s] => up[s] /\ s \in declared
    /\ buffer \in [Services -> SUBSET Subjects]
    /\ work \in [Services -> Subjects \union {None}]
    /\ step \in [Services -> {"idle", "received", "charged", "found"}]
    /\ purchased \subseteq Tickets
    /\ charges \in [Tickets -> 0 .. 1]
    /\ published \subseteq [exchange : {"payment", "tixie", "notification"},
                            key : {"topay", "payment.confirmed", "email"}, ticket : Subjects]
    /\ mailed \subseteq Subjects
    /\ restarts \in 0 .. MaxRestarts
    /\ outages \in 0 .. MaxOutages

Was(exchange, key, t) == Publication(exchange, key, t) \in published

(* How far the payment of a ticket has come, read off what it left behind. *)
Stage(t) ==
    IF Was("tixie", "email", t) THEN "notified"
    ELSE IF Was("tixie", "payment.confirmed", t) THEN "confirmed"
    ELSE IF charges[t] > 0 THEN "charged"
    ELSE IF Was("tixie", "topay", t) THEN "requested"
    ELSE "none"

Chain == INSTANCE PaymentChain WITH stage <- [t \in Tickets |-> Stage(t)]

(***************************************************************************)
(* Nothing runs ahead and nothing is undone: a payment is charged only on  *)
(* request, confirmed only when it was charged, and its customer notified  *)
(* only of a confirmed payment for a ticket that was purchased, whichever  *)
(* service or broker stops in between, whatever is lost and delivered late.*)
(***************************************************************************)
ImplementsChain == Chain!Spec

(***************************************************************************)
(* One request is charged at most once, though the payment loop may stop   *)
(* or lose its connection at any step: a message is never in two places.   *)
(***************************************************************************)
RequestedOnce ==
    /\ \A t \in Tickets : charges[t] <= 1
    /\ \A s \in Services :
          /\ queue[s] \intersect buffer[s] = {}
          /\ work[s] \notin queue[s] \union buffer[s]

(***************************************************************************)
(* No message stops a loop: whatever goes wrong with one, the loop comes   *)
(* back for the next.                                                      *)
(***************************************************************************)
LoopsComeBack == \A s \in Services : work[s] # None ~> work[s] = None

(***************************************************************************)
(* "The Email System consumes events from RabbitMQ to send email           *)
(* notifications for ... booking confirmations": an e-mail message about a  *)
(* ticket is in the mail queue, with the mailer, or mailed.                *)
(***************************************************************************)
EmailsReachMailer ==
    \A p \in published : p.key = "email" /\ p.ticket \in Tickets =>
        \/ p.ticket \in queue["notification"] \union buffer["notification"] \union mailed
        \/ p.ticket = work["notification"]

=============================================================================
