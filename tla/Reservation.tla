----------------------------- MODULE Reservation -----------------------------
(***************************************************************************)
(* services/reservation-service ReserveTicket (internal/api/handlers.go)   *)
(* with CreateTicket of services/ticket-service at the other end of its    *)
(* POST: five guarded steps that write to two databases and a broker, with *)
(* no transaction over them and nothing that undoes an earlier step.       *)
(*                                                                         *)
(* The handler's one circuit breaker, shared by all requests and all five  *)
(* steps, is the gate of ProbeGate, which CircuitBreaker implements.       *)
(*                                                                         *)
(* A request that runs inside the gate takes a step of its body and tells  *)
(* the gate the result in one action: between a statement's reply and      *)
(* afterRequest the goroutine touches nothing that others see.             *)
(***************************************************************************)
EXTENDS Naturals, Sequences, FiniteSets

CONSTANTS
    Requests,    \* POST /v1/reserve calls, each handled once
    Bookings,    \* inputs: records of an event and a user
    MaxTrials,   \* the breaker's MaxRequests
    MaxCrashes   \* bound: the service stops and starts again this often

ASSUME RequestsAssumption == IsFiniteSet(Requests)
ASSUME BookingsAssumption == \A b \in Bookings : b = [event |-> b.event, user |-> b.user]
ASSUME TrialsAssumption == MaxTrials \in Nat \ {0}
ASSUME CrashesAssumption == MaxCrashes \in Nat

VARIABLES
    mode, inside, trial, left,  \* the gate
    pc,         \* the step each request is at
    input,      \* its event and user
    ticket,     \* the ticket_id of the ticket service's reply, 0 before it
    answer,     \* what the client is told
    post,       \* the POST to the ticket service, seen from both ends
    tickets,    \* the ticket service's table, by ticket_id
    purchases,  \* the purchases table, by purchase_id
    published,  \* messages handed to the broker
    connected,  \* h.broker is not nil
    crashes

gateVars == <<mode, inside, trial, left>>
vars == <<gateVars, pc, input, ticket, answer, post, tickets, purchases, published,
          connected, crashes>>

Gate == INSTANCE ProbeGate WITH Callers <- Requests

NoBooking == [event |-> "none", user |-> "none"]

NoPost == [status |-> "none", id |-> 0]

Steps == {"event", "user", "ticket", "purchase", "topay", "email"}

Purchase(r) == [ticket |-> ticket[r], event |-> input[r].event, user |-> input[r].user,
                status |-> "confirmed"]

Message(kind, r) == [kind |-> kind, ticket |-> ticket[r]]

Init ==
    /\ Gate!Init
    /\ pc = [r \in Requests |-> "idle"]
    /\ input = [r \in Requests |-> NoBooking]
    /\ ticket = [r \in Requests |-> 0]
    /\ answer = [r \in Requests |-> "none"]
    /\ post = [r \in Requests |-> NoPost]
    /\ tickets = <<>>
    /\ purchases = <<>>
    /\ published = {}
    /\ connected \in BOOLEAN
    /\ crashes = 0

stores == <<tickets, purchases, published>>

At(r, step) == pc[r] = step /\ r \in inside

GoTo(r, step) == pc' = [pc EXCEPT ![r] = step]

Finish(r, a) == GoTo(r, "done") /\ answer' = [answer EXCEPT ![r] = a]

-----------------------------------------------------------------------------
(* A valid request arrives. *)
Arrive(r) ==
    /\ pc[r] = "idle"
    /\ \E b \in Bookings : input' = [input EXCEPT ![r] = b]
    /\ GoTo(r, "event")
    /\ UNCHANGED <<gateVars, ticket, answer, post, stores, connected, crashes>>

(* The breaker runs the step; in the ticket step the POST goes out. *)
Execute(r) ==
    /\ pc[r] \in Steps
    /\ Gate!Admits(r)
    /\ post' = IF pc[r] = "ticket" THEN [post EXCEPT ![r].status = "sent"] ELSE post
    /\ UNCHANGED <<pc, input, ticket, answer, stores, connected, crashes>>

(* IsCircuitBreakerError: the request ends with 503 or 429. *)
Refused(r) ==
    /\ pc[r] \in {"event", "user", "ticket", "purchase"}
    /\ Gate!Refuse(r)
    /\ Finish(r, "refused")
    /\ UNCHANGED <<input, ticket, post, stores, connected, crashes>>

(* The publishing step is refused: a warning in the log, and 201. *)
PublishRefused(r) ==
    /\ pc[r] = "topay"
    /\ Gate!Refuse(r)
    /\ Finish(r, "created")
    /\ UNCHANGED <<input, ticket, post, stores, connected, crashes>>

(* GET of the event, GET of the user. *)
Fetched(r) ==
    /\ \/ At(r, "event") /\ GoTo(r, "user")
       \/ At(r, "user") /\ GoTo(r, "ticket")
    /\ Gate!Succeeds(r)
    /\ UNCHANGED <<input, ticket, answer, post, stores, connected, crashes>>

FetchFails(r) ==
    /\ At(r, "event") \/ At(r, "user")
    /\ Gate!Fails(r)
    /\ Finish(r, "error")
    /\ UNCHANGED <<input, ticket, post, stores, connected, crashes>>

-----------------------------------------------------------------------------
(* The ticket service's CreateTicket, in its own process: it works on a    *)
(* POST it received whether or not the client still waits.                 *)
Insert(r) == tickets' = Append(tickets, input[r])

InsertTicket(r) ==
    /\ post[r].status = "sent"
    /\ Insert(r)
    /\ post' = [post EXCEPT ![r] = [status |-> "replied", id |-> Len(tickets) + 1]]
    /\ UNCHANGED <<gateVars, pc, input, ticket, answer, purchases, published, connected, crashes>>

(* The event or the user does not validate, its breaker refuses, or the    *)
(* database fails; in the last case the row may be there all the same.     *)
TicketRejected(r) ==
    /\ post[r].status = "sent"
    /\ Insert(r) \/ UNCHANGED tickets
    /\ post' = [post EXCEPT ![r].status = "rejected"]
    /\ UNCHANGED <<gateVars, pc, input, ticket, answer, purchases, published, connected, crashes>>

Replied(r) == post[r].status = "replied"

(* 201 with the ticket reaches the handler. *)
TicketCreated(r) ==
    /\ At(r, "ticket")
    /\ Replied(r)
    /\ ticket' = [ticket EXCEPT ![r] = post[r].id]
    /\ GoTo(r, "purchase")
    /\ Gate!Succeeds(r)
    /\ UNCHANGED <<input, answer, post, stores, connected, crashes>>

BugTimesOut(r) == Replied(r)
TimesOut(r) == post[r].status = "sent" \/ Replied(r)

BugTicketFails(r) ==
    /\ At(r, "ticket")
    /\ post[r].status = "rejected" \/ TimesOut(r)
    /\ Gate!Fails(r)
    /\ UNCHANGED <<pc, input, ticket, answer, post, stores, connected, crashes>>

(* Another status than 201, or five seconds without the reply. *)
TicketFails(r) ==
    /\ At(r, "ticket")
    /\ post[r].status = "rejected" \/ TimesOut(r)
    /\ Gate!Fails(r)
    /\ Finish(r, "error")
    /\ UNCHANGED <<input, ticket, post, stores, connected, crashes>>

-----------------------------------------------------------------------------
(* CreatePurchase, then the handler goes on to publish if it has a broker. *)
BugStore(r) == purchases' = Append(purchases, [Purchase(r) EXCEPT !.ticket = Len(tickets)])
Store(r) == purchases' = Append(purchases, Purchase(r))

BugPurchaseStored(r) ==
    /\ At(r, "purchase")
    /\ UNCHANGED purchases
    /\ IF connected THEN GoTo(r, "topay") /\ UNCHANGED answer ELSE Finish(r, "created")
    /\ Gate!Succeeds(r)
    /\ UNCHANGED <<input, ticket, post, tickets, published, connected, crashes>>

PurchaseStored(r) ==
    /\ At(r, "purchase")
    /\ Store(r)
    /\ IF connected THEN GoTo(r, "topay") /\ UNCHANGED answer ELSE Finish(r, "created")
    /\ Gate!Succeeds(r)
    /\ UNCHANGED <<input, ticket, post, tickets, published, connected, crashes>>

BugPurchaseFails(r) ==
    /\ At(r, "purchase")
    /\ UNCHANGED purchases
    /\ Gate!Fails(r)
    /\ GoTo(r, "topay") /\ answer' = [answer EXCEPT ![r] = "error"]
    /\ UNCHANGED <<input, ticket, post, tickets, published, connected, crashes>>

(* The INSERT fails, or it is carried out and its reply is lost. *)
PurchaseFails(r) ==
    /\ At(r, "purchase")
    /\ Store(r) \/ UNCHANGED purchases
    /\ Gate!Fails(r)
    /\ Finish(r, "error")
    /\ UNCHANGED <<input, ticket, post, tickets, published, connected, crashes>>

-----------------------------------------------------------------------------
(* One guarded function publishes both messages, "topay" first. *)
PublishPayment(r) ==
    /\ At(r, "topay")
    /\ published' = published \union {Message("topay", r)}
    /\ GoTo(r, "email")
    /\ UNCHANGED <<gateVars, input, ticket, answer, post, tickets, purchases, connected, crashes>>

PublishEmail(r) ==
    /\ At(r, "email")
    /\ published' = published \union {Message("email", r)}
    /\ Gate!Succeeds(r)
    /\ Finish(r, "created")
    /\ UNCHANGED <<input, ticket, post, tickets, purchases, connected, crashes>>

PublishFails(r) ==
    /\ At(r, "topay") \/ At(r, "email")
    /\ Gate!Fails(r)
    /\ Finish(r, "created")
    /\ UNCHANGED <<input, ticket, post, stores, connected, crashes>>

(* The process stops: its goroutines and its breaker are gone, and POSTs   *)
(* on their way stay on their way.  It starts again with a new breaker.    *)
Crash ==
    /\ crashes < MaxCrashes
    /\ crashes' = crashes + 1
    /\ pc' = [r \in Requests |-> IF pc[r] \in Steps THEN "lost" ELSE pc[r]]
    /\ mode' = "Closed" /\ inside' = {} /\ trial' = {} /\ left' = 0
    /\ connected' \in BOOLEAN
    /\ UNCHANGED <<input, ticket, answer, post, stores>>

Ended(r) == pc[r] \in {"done", "lost"}

AllEnded ==
    /\ \A r \in Requests : Ended(r) /\ post[r].status # "sent"
    /\ UNCHANGED vars

Handle(r) ==
    \/ Execute(r) \/ Refused(r) \/ PublishRefused(r)
    \/ Fetched(r) \/ FetchFails(r)
    \/ TicketCreated(r) \/ TicketFails(r)
    \/ PurchaseStored(r) \/ PurchaseFails(r)
    \/ PublishPayment(r) \/ PublishEmail(r) \/ PublishFails(r)

TicketService(r) == InsertTicket(r) \/ TicketRejected(r)

Next ==
    \/ \E r \in Requests : Arrive(r) \/ Handle(r) \/ TicketService(r)
    \/ Crash
    \/ AllEnded

(* The handler's own steps end: the HTTP client times out after five       *)
(* seconds and a statement or a publish returns.  Nothing is assumed of    *)
(* the ticket service.                                                     *)
Spec == Init /\ [][Next]_vars /\ \A r \in Requests : WF_vars(Handle(r))

-----------------------------------------------------------------------------
TicketIds == 1 .. Len(tickets)
PurchaseIds == 1 .. Len(purchases)

TypeOK ==
    /\ mode \in {"Closed", "Open", "HalfOpen"}
    /\ inside \subseteq Requests
    /\ trial \subseteq inside
    /\ left \in 0 .. MaxTrials
    /\ pc \in [Requests -> Steps \union {"idle", "done", "lost"}]
    /\ input \in [Requests -> Bookings \union {NoBooking}]
    /\ ticket \in [Requests -> Nat]
    /\ answer \in [Requests -> {"none", "refused", "error", "created"}]
    /\ post \in [Requests -> [status : {"none", "sent", "replied", "rejected"}, id : Nat]]
    /\ tickets \in Seq(Bookings)
    /\ purchases \in Seq([ticket : Nat, event : {b.event : b \in Bookings},
                          user : {b.user : b \in Bookings}, status : {"confirmed"}])
    /\ published \subseteq [kind : {"topay", "email"}, ticket : Nat]
    /\ connected \in BOOLEAN
    /\ crashes \in 0 .. MaxCrashes

(***************************************************************************)
(* A purchase names a ticket that exists and was issued for the same event *)
(* and user, and no ticket is sold twice, whatever the order in which the  *)
(* requests and the ticket service run.                                    *)
(***************************************************************************)
PurchasesMatchTickets ==
    /\ \A i \in PurchaseIds :
          /\ purchases[i].ticket \in TicketIds
          /\ tickets[purchases[i].ticket] =
                [event |-> purchases[i].event, user |-> purchases[i].user]
    /\ \A i, j \in PurchaseIds : purchases[i].ticket = purchases[j].ticket => i = j

Purchased(t) == \E i \in PurchaseIds : purchases[i].ticket = t

(***************************************************************************)
(* A client that is told 201 has a ticket and the purchase of it is stored,*)
(* even if the breaker opened, the broker failed or the service restarted. *)
(***************************************************************************)
CreatedMeansStored ==
    \A r \in Requests : answer[r] = "created" => ticket[r] \in TicketIds /\ Purchased(ticket[r])

(***************************************************************************)
(* Nothing is to be paid or mailed that was not purchased, and the mail is *)
(* sent only for a ticket whose payment was asked for.                     *)
(***************************************************************************)
MessagesFollowPurchases ==
    \A m \in published :
        /\ Purchased(m.ticket)
        /\ m.kind = "email" => [m EXCEPT !.kind = "topay"] \in published

(* How far a request's booking has come, read off the ticket service's     *)
(* reply, the purchases table and the messages.                            *)
Asked(kind, r) == [kind |-> kind, ticket |-> post[r].id] \in published

Stage(r) ==
    IF ~Replied(r) THEN "none"
    ELSE IF Asked("email", r) THEN "mailed"
    ELSE IF Asked("topay", r) THEN "billed"
    ELSE IF Purchased(post[r].id) THEN "bought"
    ELSE "issued"

Booking == INSTANCE BookingChain WITH stage <- [r \in Requests |-> Stage(r)], told <- answer

(***************************************************************************)
(* Each client is told once, and what the tables and the broker hold of    *)
(* its booking: 201 only of a purchase, an error or a refusal never of a   *)
(* ticket it is asked to pay for.  What was told stays so: no step of this *)
(* or another request, late, repeated or lost, moves the booking after it. *)
(***************************************************************************)
ImplementsBooking == Booking!Spec

(***************************************************************************)
(* A client that is told of an error is not asked to pay: its ticket, if   *)
(* one was issued, is in no message.                                       *)
(***************************************************************************)
FailedMeansNoMessage ==
    \A r \in Requests : answer[r] \in {"error", "refused"} =>
        \A m \in published : m.ticket # ticket[r]

(***************************************************************************)
(* While the breaker on trial refuses every step of every request, one of  *)
(* them is at a step whose result will close or open it, also after a late *)
(* reply, a refusal half way through or a restart.                         *)
(***************************************************************************)
SomeStepDecides ==
    mode = "HalfOpen" /\ left = 0 => \E r \in trial : pc[r] \in Steps

(***************************************************************************)
(* A request whose client was told of its end stays as it was told: the    *)
(* answer never changes, no purchase and no message follows it, and all    *)
(* that may still come is the ticket of a POST that timed out.             *)
(***************************************************************************)
ToldStays ==
    [][\A r \in Requests : answer[r] # "none" =>
          /\ answer'[r] = answer[r]
          /\ Stage(r)' # Stage(r) => Stage(r) = "none" /\ Stage(r)' = "issued"]_vars

(***************************************************************************)
(* Every request that arrives ends, though the ticket service may never    *)
(* reply and the breaker may refuse any of the five steps.                 *)
(***************************************************************************)
RequestsEnd == \A r \in Requests : pc[r] = "event" ~> Ended(r)

(***************************************************************************)
(* "Ensures data consistency for event and ticket records during booking   *)
(* operations" is not so: a request that fails after the ticket service's  *)
(* INSERT leaves a ticket nobody bought, and nothing removes it.  What     *)
(* does hold is that each such ticket is the work of one request of its    *)
(* event and user that was not told 201: no request leaves two, whichever  *)
(* of refusal, timeout, lost reply or crash ends it.                       *)
(***************************************************************************)
NotCreated(b) ==
    {r \in Requests : input[r] = b /\ answer[r] # "created" /\ post[r].status # "none"}

OrphansHaveFailures ==
    \A b \in Bookings :
        Cardinality({t \in TicketIds : tickets[t] = b /\ ~Purchased(t)})
            <= Cardinality(NotCreated(b))

=============================================================================
