# Tixie in TLA+

Tixie sells tickets: a gateway in front of Go services that call each other over
HTTP, keep their rows in separate databases, and pass payment and mail requests
through RabbitMQ. This directory holds TLA+ models of the parts where requests,
failures and restarts interleave, the TLC runs that check them, and TLAPS proofs.
Paths below are relative to the repository; `services/` stands for `src/services/`.

## The system

| Component | State it keeps | Operations | Hard behaviour |
|---|---|---|---|
| Circuit breaker, `services/common` | state, counts, generation, expiry under one mutex | `Execute`, `ExecuteContext` | calls that end in another period than they began in; probes that must decide; no timer of its own |
| Event service | table `events` | create, get, list, `UpdateTicketsSold` | SELECT, then UPDATE of an absolute value, no transaction, and no constraint in `event.sql`: an INSERT takes any total, a stale sum is written as it is |
| Reservation service | table `purchases`, one breaker, one broker connection | `ReserveTicket`, `VerifyTicket`, consumer of confirmations | five guarded steps over two databases and a broker; nothing undoes a step; it neither checks nor changes the event's `sold_tickets` |
| Ticket service | table `tickets`, one breaker | `CreateTicket`, `GetTicketByCode`, `UpdateTicketStatus`, lists, WebSocket streams | works on after its client gave up; status changes while a ticket is checked |
| Payment service | none of its own; Stripe's intents | consumer loop of `cmd/main.go`, `SimulateWebhook`, `CreatePaymentIntent`; a worker pool in `internal/consumer` | charge and confirmation are two steps; shutdown races the workers; automatic acknowledgement |
| Notification service | none | consumer loop that mails | a failed mail is gone |
| Broker library and RabbitMQ | exchanges, queues, bindings, connections | `Publish`, `DeclareAndBindQueue`, `Consume`, `Close` | transient messages in durable queues, no resubscription, unroutable messages vanish |
| Gateway | Redis counters, shared by all gateway processes | concurrency limiter, rate limiter, JWT and vendor checks, retrying proxy, WebSocket upgrade | INCR, expiry, DECR and DEL are separate commands; clients leave; retries of POSTs |
| User, vendor and auth services | tables `users`, `vendors`; three breakers | CRUD, credentials, `Login`, Google login, `CreateVendorEvent` | uniqueness only by table constraints; refusals and errors relayed as 401 or 404; a POST without timeout inside a breaker |
| HAProxy, monitoring, compose files, mains, schemas | configuration | | |

How they interact. A client's request reaches a gateway process, passes the two
limiters, the JWT check and, for some paths, the vendor check, and is proxied to a
service. `ReserveTicket` GETs the event and the user, POSTs a ticket to the ticket
service, which makes the same two GETs of its own, inserts a purchase and publishes
"topay" and "email". The payment loop consumes "topay", charges, and publishes
"payment.confirmed"; the reservation loop consumes that and publishes a
notification; the notification loop mails. Every HTTP handler and most
repositories make their calls through one `Breaker` per service (or per repository),
so unrelated requests meet in its counts.

What makes each part correct: the breaker admits and counts every call once, ignores
late ones and recovers when its calls end; an event is not sold beyond its total, which the code
keeps only for buyers that do not overlap, and only where the event service is asked at all
(`ReserveTicket` issues tickets without looking at `sold_tickets`); a purchase names a ticket
issued for the same event and user, and who is told 201 has one; a customer is charged at
most once per request, and confirmed and notified only after the step before; every shutdown
ends; as long as no Redis command fails the gateway serves at most the limit and locks nobody
out for ever, and each command that fails takes at most one place; its window lets through no
more than interleaved commands explain; a visitor is let in only with a ticket that was active
during the scan; a login succeeds with the password the account has, which the code does not
keep for vendors, and with no other; who is told an account was created has it.

## Modules and how they correspond to the code

`PROJECT.json` maps every definition to its lines. Definitions named `Bug...` are
mistakes that could be made at the definition that follows them; no action uses one,
and replacing the definition by it makes the property named there fail.

**ProbeGate** is the abstract specification of a breaker as a caller sees it: a gate
that is closed, open, or on trial, with a set of calls inside. It has no counters and
no clock.

**CircuitBreaker** is `circuitbreaker.go`. Every method holds the mutex from beginning
to end and is one action; the guarded call runs between `BeforeRequest` and
`AfterRequest`. The generation stamp of a call is kept as the outcome of the only
comparison made with it (`call[c]` is `"current"` or `"stale"`), and the expiry as one
bit. It implements ProbeGate (`ImplementsGate`), so the modules below that only need
what a breaker promises use ProbeGate, and EventService uses CircuitBreaker itself.

**EventService** is `event_repository.go` behind its breaker, with the handlers.
Every SQL statement is an action; `seen` is the row a SELECT returned and the buyer's
UPDATE computes from. INSERT and UPDATE may be carried out and their replies be lost.
`taken` and `overlapped` are history.

**Reservation** is `ReserveTicket`, with `CreateTicket` of the ticket service as the
other end of its POST (`post`): the reply may arrive, be an error, or come too late.
`Crash` is a restart of the reservation service.

**BookingChain** is what a call of `POST /v1/reserve` promises, with no breaker, timeout,
restart or table: a booking is issued, bought, billed and mailed one stage at a time, and
its client is told once, in keeping with the stage; what was told ends it, except for a
ticket that is issued too late. Reservation implements it (`ImplementsBooking`): `Stage(r)`
reads the stage off the ticket service's reply, the purchases and the messages.

**TicketCheck** is `VerifyTicket` against `GetTicketByCode` and `UpdateTicketStatus`,
with two gates, one per service. `seen[s]` collects the statuses the scanned ticket has
had since the code was read. `Readers` are the ticket service's lists, single tickets and
WebSocket streams: they change no row, but each SELECT takes a slot of the same breaker.
A stream is `"selecting"`, `"sending"` or `"waiting"` for its ticker, and ends when a read
is refused or fails or its client has left.

**PaymentConsumer** is the worker pool `payment/internal/consumer/consumer.go`: workers,
wait group, breaker, the Stripe call, settlement of the delivery, and the shutdown in
`Start` with its two goroutines. A call that fails here may be one that Stripe carries out
after that (`late`, `LateCharge`), and the channel may be lost at any time. No main of the
repository starts this pool (the one that runs is the loop in MessageFlow), but it is the
code the payment service exports for it.

**MessageFlow** is the broker library with the three consumer loops and their
publishers. A queue is a set of tickets per service; `Binding` and the exchange given to
`Publication` at each publishing site are the names in the code, so that a mismatch
between publisher and queue is in the model. `Request` stands for a payment request on
the exchange the payment service listens to; no code of the repository publishes there.

**PaymentChain** is what the three loops promise together: a ticket's payment is
requested, charged, confirmed and notified, one stage at a time and never back, and
notified only if the ticket was bought. It knows no queue, service or failure.
MessageFlow implements it (`ImplementsChain`); `Stage(t)` reads the stage off the charges
and the publications, so that a confirmation without a charge is a step the abstract
chain does not have.

**Limiters** is what the gateway's two limiters have in common: requests at the steps of
an asynchronous middleware, and Redis commands that may fail. Gateway and RateLimiter
extend it.

**Gateway** is the concurrency limiter and the proxy with its retries. There is one
counter because the key is built before `req.user` is set. Rate limiter, JWT check and
vendor check are the step `AnswerEarly` or the passage through `"chain"`. A Redis command may
fail, with or without having been carried out (`RedisFails`; in a 'finish' handler the
rejection ends the process: `Crash`), and ioredis sends one whose reply was lost again
(`ReplyLost`). `gone` are requests whose client has left: middlewares and retries go on with
them, and their 'finish' never comes. `Holders` are the requests for which the counter should
stand: those in the limiter, those with a handler to come and those that were left.

**RateLimiter** is `rate_limiter.js`, the next in that chain: one action per Redis
command, for all gateway processes, over one sorted set (its key, too, has no user).
`now[r]` is what `Date.now()` gave the request, so `recorded` is a set of requests, and
the clock goes on between its commands. `Keep` is Redis' deletion of an empty set and
`Tick` its key expiry. `AtOnce` is the number of requests the concurrency limiter lets in
at a time, which Gateway's `LimitHolds` is about. `added`, `together` and `forgotten` are
history.

**Accounts** is the user service with the auth service's `Login` in front of it, or the
vendor service with `CreateVendorEvent`: `service` says which, and the definitions name it
where they differ (`Hashed`, `Refusal`, `Found`). A request is one guarded statement; a
stored password is a text and how often it was hashed, which is what
`CompareHashAndPassword` can tell. The vendor service has a second gate for its POSTs to
the event service. `secret` is the password last given for an account; `stood[r]` collects how
a login's credentials stood at each moment while it ran (`Standing`): right, wrong, or right
for an account whose column an update without a password has emptied.

Composition: EventService instantiates CircuitBreaker; Reservation, PaymentConsumer,
TicketCheck (twice) and Accounts (twice) instantiate ProbeGate; CircuitBreaker instantiates
ProbeGate, Reservation BookingChain and MessageFlow PaymentChain, each under a refinement
mapping. A module `X_proofs` extends module `X` and holds the proofs about it;
`EventService_proofs` also instantiates `CircuitBreaker_proofs`, to use what is proved of
the breaker, and `Gateway_proofs` extends both Gateway and RateLimiter. The `MC...` modules
give the model values and symmetry sets.

## What the runs check

Passing runs:

| Run | Instance | What it shows |
|---|---|---|
| `breaker` | 4 goroutines, the code's 5 probes, at most 10 calls per closed period | every admitted call is counted once and in its own period; late calls change nothing; it closes only after all probes succeeded; with traffic Open and HalfOpen end; it implements ProbeGate |
| `events` | 4 requests, 2 events (one exists, one to be created or read as missing), 1 probe | buyers that did not overlap are never sold more than the event has, through failures and lost replies; `tickets_left` belongs to the `sold_tickets` beside it; only written sales count; the record is exact without overlap; each error path gives its breaker slot back |
| `reservation` | 2 requests, 2 users, 2 probes, 1 restart | purchases match tickets one to one; 201 means stored; messages follow purchases; the saga implements BookingChain; a ticket nobody bought is the work of one request that failed; every request ends |
| `consumer` | 2 workers, 3 messages, 2 probes | charges match verdicts, late ones included; wait group and breaker slots are exact; a message that is given up was not paid for; after a graceful end no new call charges anybody; `Start` returns |
| `flow` | 2 tickets, 1 stop, 1 RabbitMQ restart | the loops implement PaymentChain; a message is in one place and charged once; no message stops a loop |
| `gateway` | 4 requests over 2 processes, limit 2, 1 retry, 1 Redis command that fails or is carried out twice | the counter exceeds the requests that hold a place by no more than the commands that failed; while none does, the limit holds until a key is lost, there is no lock-out, and every end of a request returns its place once |
| `ratelimiter` | 6 requests, 2 at a time, limit 2 in a window of 3 ticks, 1 failing Redis command | a window lets through at most `MAX_REQUESTS + 2 * (AtOnce - 1)`; a request that met no other is judged as by an ideal limiter; the key keeps an expiry |
| `tickets` | 2 scans, 1 update, 1 reader, 1 ticket and an unknown code, 2 probes, 1 database error | a valid ticket was active during the scan; an invalid one was not; both breakers hold slots for exactly the calls that are out, however long a client keeps a stream |
| `accounts` | 3 requests to either service, 2 names, 1 password and the empty one, 1 probe, 1 failing statement | a login is accepted only with the account's password; the user service rejects one only without it, after an update that emptied it, or because a breaker or database failed; answers to creations agree with the table; an event service that hangs wedges only its own breaker, and only while it hangs |

The type invariant of a module is among a run's properties only for the breaker, whose
`TypeOK` says that the unsigned `Failures` never wraps; in the other modules `TypeOK`
documents the variables and is proved. Proved and in no run are also, as each says less or
something other than what a run checks: `FailedMeansNoMessage`, which the refinement of
BookingChain contains, `ToldStays`, and the `Some...Decides` of six modules (TLC
confirmed each of them on the instances above before it was proved).

Runs that find a violation, each of one property that says what a document, a comment
or a message of the repository says:

| Run | Statement | What the code does |
|---|---|---|
| `events_oversold` | "must prevent double booking when two users attempt to book the same ticket simultaneously", "prevents double booking" (`docs/ADRs/Connection_ADR.md:4`, `33`) | of an event with 3 tickets, 1 sold, buyers of 1 and of 2 read the same row and are both told "Tickets sold updated successfully" (`event-service/internal/api/handlers.go:102`): 4 are sold and the record says at most 3 |
| `flow_email` | the mail system consumes events of payments and bookings (`CommunicationBetweenServices_ADR.md:57`) | they are published to exchanges the mail queue is not bound to |
| `vendor_logins` | users "login as normal users or vendors" (`Ticketing_System_SRS.md:8`, `39`, `swagger.yaml:13`), and `Test-VendorService.ps1:48-77` authenticates a vendor with the password of its creation | handler and repository both hash (`handlers.go:47`, `vendor_repository.go:27`): no vendor's credentials are ever accepted; an update without a password empties the column besides (`vendor_repository.go:86`) |

More statements of the repository are not what the code does. Two are the subject of an
invariant that says what holds instead:

- `docs/ADRs/CommunicationBetweenServices_ADR.md:69` "Ensures data consistency for event
  and ticket records": a ticket whose purchase is refused or fails, or whose request timed
  out before the late INSERT, stays behind, active. `OrphansHaveFailures` bounds what is
  left: no request leaves two.
- `consumer.go:176` "All workers completed gracefully": a worker that has received a
  message and not yet called `Add(1)` (line 123) is not waited for. `AbandonedUncharged`:
  what it gives up was not paid for.

And three no property here holds them to; the models take the code's behaviour as a step:

- `gateway/README.md:5` has all limits "based on the authenticated user's JWT token". Both
  limiters run before the JWT check, so their keys hold no user and all users share one
  counter and one window. Gateway and RateLimiter have the one key.
- `docs/ADRs/MessageBroker_ADR.md:42-43` ("Messages persist until acknowledged by a consumer",
  "no message loss if the Email System is temporarily unavailable") and
  `CommunicationBetweenServices_ADR.md:92` ("persisting events in RabbitMQ until processed").
  The consumers acknowledge automatically, so a message is gone when it is delivered to a
  service that stops or fails; messages are transient, so a restart of RabbitMQ drops those in
  its queues; and a message no queue is bound for is dropped. In MessageFlow these are steps,
  and a lost message is a stage of PaymentChain that does not come: `ImplementsChain` and
  `RequestedOnce` hold of what is not lost and say nothing of what is.
- `docs/ADRs/PaymentAPI_ADR.md:4` and `40-41` have payments "processed only once" and
  idempotency keys keep "network failures from causing overcharges". `CreatePaymentIntent`
  makes a new key for every call, and the worker pool sends none, so that a POST the gateway
  sends again, or a client after a lost reply, makes another intent. `ChargesMatchVerdicts`
  and `RequestedOnce` say what holds without keys: one charge for one message.

Three things the models show of code on which no document says a word: a login is a 401 also
when the user service's breaker is open or its database fails (`LoginsAreTrue`); so it is
after a PUT of the user service without a password, which stores the empty string (the same);
and a window of the rate limiter lets through twice the requests that meet in it beyond the
limit, since one that stalls between its ZREMRANGEBYSCORE and its ZRANGE counts a set trimmed
for a later time (`WindowBound`).

### Bounds, and why they are enough

- *Breaker.* Five probes is the code's setting. `ClosedBound` limits the calls of one
  closed period; ten is past three requests (the first count that can trip) and
  leaves room for every ratio around 0.6, and successes that forgive failures, in both
  orders. Four goroutines allow a stale, a current and two competing calls. The bound
  is why deadlock is not checked there: a closed breaker with the bound spent and all
  callers idle takes no further step in the model.
- *Events.* A lost update takes two buyers, and a third and a fourth request are there
  to trip the breaker while they run (it trips at three requests), to create the other event
  and to buy of it, or to buy after the others. The created event has two tickets or, as
  nothing forbids, minus one. One probe keeps the
  half-open period short; the number of probes is the subject of `breaker`. The
  requests are interchangeable and no liveness property is checked, so symmetry is sound.
- *Reservation, TicketCheck.* Two requests are what it takes to take each other's breaker
  slots and tickets. `MaxTrials` 2 makes a half-open period with a probe still to come.
  One restart, or one database error, before or after any step is a single fault at
  every point of the saga.
- *PaymentConsumer.* Two workers, one of which can be between receive and `Add(1)` while
  the other is in any step, and a third message that may be taken during shutdown. How often
  calls fail, and how many of them Stripe carries out late, is bounded by the messages only.
- *MessageFlow.* Two tickets can be at two services at once. One stop and one RabbitMQ
  restart, at any point and in either order.
- *RateLimiter.* The limit, and the two requests each of the two overlaps can slip past it,
  need four to pass one window; two more fill the window before or are refused after it.
  The clock goes past one window and one expiry. `MIN_INTERVAL` is one tick, so that two
  requests of the same tick are too close and the window can be filled in its length.
- *Accounts.* Three requests: an account, one that changes it or takes its name, and a login
  or a read; or three POSTs, one of which is the trial of a breaker that another opened. Two
  names make a rename and a conflict, the empty password a PUT without one. One failing
  statement is a lost reply or a failure at any point.
- *Gateway.* Limit 2 with four requests: two within, one refused, one that comes while
  the third is rolled back. One failed command, carried out or not, sent again or not, at any
  step: it can make at most one phantom place, and the proof covers any number. The requests of
  one process are interchangeable.

Deadlock is checked in `events`, `reservation`, `tickets` and `accounts`, whose
`AllAnswered`, `AllEnded` and `AllDone` steps exist only when every request has ended; it
is not in `consumer`, `flow`, `gateway` and `ratelimiter`, where the process ends,
everything may be stopped at the bound, or all requests are over.

### Fairness

- *CircuitBreaker (`FairSpec`).* Guarded calls end, the clock advances, and clients keep
  arriving. The last is needed: the breaker has no timer, and only a call moves it out of Open.
  The first is true of calls through the HTTP clients with a five-second timeout. It is not
  guaranteed of the vendor service's `http.Post`, which has no timeout, nor of statements
  without a context, which end only when the database or the connection does: `HalfOpenEnds`
  and `OpenProbes` say nothing of a breaker whose probe hangs there. What holds without the
  assumption is `PostsAccounted` of Accounts (wedged only by POSTs that are out) and the
  `Some...Decides` of the other modules.
- *Reservation.* Only the handler's own steps are fair; the ticket service may never reply.
- *PaymentConsumer.* Only `Start`'s goroutine and its thirty-second timer. Stripe, the
  broker and the workers may stall, and `StartReturns` holds all the same.
- *MessageFlow.* Only the consumer loops: each call in them returns, if with an error.
- *EventService, Gateway, RateLimiter, TicketCheck and Accounts* check safety only and
  assume no fairness. For streams and vendors' POSTs none is justified: nothing makes a
  client read or the event service answer.

## What is proved

Every safety property of the passing runs, invariants and action properties alike, and the
three refinements (`ImplementsGate`, `ImplementsBooking`, `ImplementsChain`) are theorems
for all values of the constants; the runs check them on their instances. The constants are
assumed to be what the named assumptions of each module say, which TLC evaluates: that
limits and windows are natural numbers (the code's are positive literals), that the
requests or workers of a run of the program are finitely many where they are counted, that
bounds are natural numbers, and that a "none" is none of the values it stands beside.
Nothing is assumed about how many there are, which tickets, users, rows or quantities they
ask for, or in which order things fail.

Each proof has the same shape: an invariant that is a conjunction of named parts, one lemma
per part or per action that shows that a step keeps it, a theorem for each property that
follows from it. What the parts are and why the property alone is not inductive:

### The breaker and its services

`CircuitBreaker_proofs`, for every finite set of callers and every
`MaxRequests \in Nat \ {0}`:

| Theorem | Statement |
|---|---|
| `TypeCorrect` | `Spec => []TypeOK`; in particular the unsigned `Failures` never goes below zero |
| `AccountsHold`, `CallsAccounted` | counts and running calls agree: `ClosedAccounting`, `ProbeAccounting`, and, proved only, `OpenIsClean` and `FailuresAreNet` in every state |
| `ClosesAfterAllProbes` | the breaker closes only on the success of the last of exactly `MaxRequests` probes |
| `StaleIgnored` | a call of an earlier generation changes nothing when it ends |
| `GateImplemented` | every behaviour of the breaker is one of ProbeGate |
| `ProbesDecide` | a half-open breaker that refuses everyone has a probe running whose result counts |

None of the accounting invariants is inductive alone: that closing
leaves no probe behind needs to know that the admitted probes are the successful ones
plus the running ones, which needs that opening left no call current, which needs
that a change of state makes every call stale. The inductive invariant is `TypeOK` together
with `Accounts`, the conjunction of the four; lemmas say what `CountSuccess`,
`CountFailure`, `NextGeneration` and `Idle` do to counts and to the call table, and how the
cardinality of `InFlight` changes. `ClosesAfterAllProbes` follows at the
step: the last success makes `Successes + 1 = MaxRequests`, the bound on `Requests`
then leaves exactly one call in flight. The refinement maps each action to the gate's
(a stale or closed-period call to `Leave`, a tripping failure to `Trip`, and so on),
again under `Accounts`.

`ProbesDecide` is the safety half of `HalfOpenEnds`: liveness needs that some call can still
decide, which holds because the probes admitted are the successful ones, fewer than
`MaxRequests`, and those in flight. The modules that use a breaker state the same of
their callers: `MethodsDecide`, `StepsDecide`, `CallsDecide`, `WorkersDecide`,
`StatementsDecide` and, for vendors' POSTs, a part of `PostsHold`. There it needs in addition
that no return path forgets its slot, since a trial that nobody is making would never be
judged.

`EventService_proofs`, for every finite set of requests, every set of events, all initial
rows in which no event is oversold (an assumption, `RowsAssumption`), any quantities and any
totals of new events, and every setting of the breaker:

| Theorem | Statement |
|---|---|
| `OversellingNeedsOverlap` | the tickets of all UPDATEs carried out are not more than an event has, unless two of its buyers read before either wrote; the run `events_oversold` shows that they can be more then |
| `LeftHolds` | `tickets_left` belongs to the `sold_tickets` beside it |
| `WrittenHolds` | no more sales are on record than the UPDATEs carried out took |
| `ExactHolds` | where no two buyers of an event overlapped, all of them are |
| `SlotsHold` | the breaker holds a slot for exactly the requests inside a repository method |
| `BreakerFollowed` | what the service does to its breaker is a behaviour of CircuitBreaker |
| `BreakerAccounted` | the breaker's `ClosedAccounting` and `ProbeAccounting`, in the service |
| `MethodsDecide` | a half-open breaker that refuses everyone waits for a method that counts |
| `Typed` | all variables keep their types |

A buyer writes a sum computed from a row that others may have changed. The invariant
`Safe` says what such a buyer still knows (`BuyerOK`): the event exists, its total is the
total read, and the sum fits in that total. Totals never change and rows never disappear,
so every other buyer's write keeps this, and the number written fits, however stale. That
is no more than a property of the record (`RowOK`), and with lost updates the record says
less than was sold. `OversellingNeedsOverlap` joins it with exactness: where no two buyers
overlapped, what was sold is what the record says, and that fits. `Tally` adds that what a
buyer has read is no more than was taken (`taken` only grows, so this survives the others'
writes), and `Fresh` that an event without overlap has one buyer at a time, whose row is
still the current one. For the slots, the invariant adds only that the call table is one:
a change of state makes calls stale and never idle (`GenerationKeepsCalls`), so an
admission takes one slot and the report of a result, on time or late, gives back one.

The last three are compositional. `BreakerInvariant` takes the inductive invariant that
`CircuitBreaker_proofs` establishes, with the service's requests for callers: each step of
the service is a step of the breaker or leaves it alone (`BreakerSteps`), so the invariant
carries over without being proved again. `MethodsDecide` then joins the breaker's
`SpentProbesRun` with `SlotsMatchRequests`, and `Typed` takes the breaker's types from there
and needs only that what a buyer writes is a row again (`WrittenRow`).

`Reservation_proofs`, for every finite set of requests, all bookings and any number of
restarts:

| Theorem | Statement |
|---|---|
| `PurchasesHold` | purchases name tickets issued for the same event and user, one each |
| `CreatedHolds` | 201 means that ticket and purchase are stored |
| `MessagesHold`, `FailuresHold` | messages follow purchases, in their order; who was told of an error is not asked to pay |
| `OrphansHold` | there are no more tickets that nobody bought than requests that failed |
| `BookingImplemented` | the saga implements BookingChain |
| `ToldHolds` | who was told keeps the answer, and nothing but a late ticket follows it |
| `StepsDecide` | a half-open breaker that refuses every step waits for one that decides |

Two databases and a broker are tied together only by what the handler carries from one to
the next, so the invariant follows that: a reply names a ticket inserted for its request's
booking that no other reply names (`Posting`), the handler's ticket is that of its reply
(`Ticketed`), each purchase is that of a request past its INSERT (`Purchasing`), each message
of one past its publication that can end only with 201 or in a restart (`Publishing`).
`OrphansHold` is a counting argument: each ticket was written for some request and no request
wrote two (`Authored`), so that sending an orphan to its author is an injection into the
requests that failed.

For the refinement, the stage of a request is read off four tables, and a step must be shown
to move no other request's. `TracesAreOwn` says that a purchase or a message of the ticket in
a request's reply is that request's own, so that `OthersStay` holds of every
action; `Unmailed` adds that a request that has yet to publish "email" has not, which makes
the two publications come in order. Then there is one lemma for each kind of step
(`InsertsBook`, `PurchasesBook`, `PublicationsBook`, `WarningsBook`, `RejectionsBook`), which
names the step of the chain it is, and one for those that move no booking (`NothingMoves`): the
guards, the replies, a restart. `ToldHolds` follows from the refinement and not from the saga
again: a step of BookingChain has it.

`TicketCheck_proofs`, for any scans, updates, readers and tickets:

| Theorem | Statement |
|---|---|
| `ValidHolds` | who is let in has a ticket that was active at some moment of the scan |
| `InvalidHolds` | while the database answers, a ticket called invalid was not |
| `SlotsHold` | both breakers hold slots for exactly the calls that are out |
| `CallsDecide` | neither breaker is half-open, spent and without a call that decides |
| `GatesFollowed` | what both services do to their breakers are behaviours of ProbeGate |
| `Typed` | all variables keep their types |

The status may change after the SELECT and before the answer, so the invariant `Seeing` says
that the present status of the scanned ticket and the one a reply carries are both in `seen`;
`Scanning` and `Updating` say when a code and a reply are there at all. The slots need the two
gates' own invariants (`RGateOK`, `TGateOK`) and that an abandoned GET and a stream keep
theirs.

`PaymentConsumer_proofs`, for every finite pool and any messages:

| Theorem | Statement |
|---|---|
| `ChargesHold` | an acknowledged message is charged once, a dropped or requeued one never |
| `CountsHold` | wait group and breaker slots are exact |
| `AbandonedHolds` | a message that a graceful end gives up was not charged and will not be |
| `GracefulNeverCharges` | after a graceful end nobody is charged but by Stripe for a call that had failed before, and no such call is added |
| `GateFollowed` | what the pool does to its breaker is a behaviour of ProbeGate |
| `WorkersDecide` | a half-open breaker that refuses every payment waits for one that decides |

`Holding` ties messages to workers (one each, and none to a worker that is not busy unless
the process panicked), `Charging` ties the charge to the worker's step and verdict,
`Counting` is the accounting with what a panic leaves. `WorkersDecide` is proved of
ProbeGate and carried over by `GateFollowed`. A message that Stripe may still charge late
is one whose call failed and that is being rejected or was, each such call at most once;
so `Free(m)`, which says that `m` is neither charged nor to be, is what a message needs
that is given up. Graceful means that the wait group once was zero with the context
cancelled. That is no statement about the present, since a worker may call `Add(1)` after
it, so `Quiet` says what remains true: nobody is at the Stripe call, nobody is about to
settle a message that is not free, and nobody will call.

`Accounts_proofs`, for both services, any requests, names and passwords:

| Theorem | Statement |
|---|---|
| `LoginsHold` | a login is accepted only with credentials that were right at some moment of it, and the user service rejects one only with credentials that were wrong or emptied, or because a breaker or the database failed |
| `AnswersHold` | what a creation is told is so of the table, and names stay unique |
| `PostsHold` | answers of `CreateVendorEvent` are so of its POST; its breaker is wedged only by POSTs that are out |
| `StatementsDecide` | the table's breaker, half-open and spent, waits for a statement that runs |
| `GatesFollowed` | what the handlers do to both breakers are behaviours of ProbeGate |

`LoginsAreTrue` relates a verdict to the password last given, while the table holds hashes:
`Stored` says that a row's password is `Hashed(secret)`, or the empty text of an update
without one, `Seen` that how a login's credentials stand now is in `stood`, and that a reply on
its way agrees with it, `Asked` that only a request's
own steps change what it asks for. `Kept` is for the answers: a row is in the table until a
request that is in `written` changes it.

### Messages and the gateway

`MessageFlow_proofs`, for any tickets, stops and restarts of RabbitMQ:

| Theorem | Statement |
|---|---|
| `RequestedOnceHolds` | a message is in one place and a payment request is charged at most once |
| `ChainImplemented` | the three loops with their queues implement PaymentChain |

`Working` says when a loop has a message, `Apart` that no message is twice in a service,
`Origins` that what a service holds was published to the exchange and key of its queue,
`Paying` and `Notifying` how far a held message's ticket can be, `Staged` that no stage is
without the one before. The refinement then has one lemma for each step of the chain
(`ReserveBuys`, `RequestAsks`, `ChargePays`, `ConfirmApproves`, `NotifyTells`) and one for
everything else (`RestStutters`): a stop, a lost message or a reconnection leaves every
`Stage(t)` as it is. `RouteNowhere` and `RouteOne` say what a publication does to the queues
for which `Binding` has its exchange, or not.

`Gateway_proofs`, for any finite set of requests, any processes, any limit and number of Redis
commands that fail, carried out or not, or are carried out twice:

| Theorem | Statement |
|---|---|
| `CountHolds` | the shared counter exceeds the requests that hold a place by at most one for each failed command |
| `PlacesHold` | while no command fails and no key is lost the counter is exact: each end of a request returns its place, once |
| `LockoutNever` | while no command fails a positive counter has an expiry, or a request about to set it |
| `LimitAlwaysHolds` | while Redis answers and no key is lost, at most `MaxConcurrent` are served |
| `Typed` | the counter stays within the requests and failed commands of zero, and each request is sent at most `MaxRetries + 1` times |
| `WindowHolds` | RateLimiter: a window lets through at most `MAX_REQUESTS + 2 * (AtOnce - 1)` |
| `AloneHolds` | RateLimiter: a request that met no other is judged exactly |
| `ExpiryHolds` | RateLimiter: while Redis answers, the sorted set has an expiry or will |

A failed command is one more in `failures` and at most one more in the counter, or one holder
fewer; all else keeps both sides of `CountHolds`, which is why it is inductive with the types
alone. The limit needs the counter to be exact as long as nothing fails (`PlacesAreReturned`),
and those let in to include the one that has yet to set the expiry (`Limited`). `Handled` ties
the places to the 'finish' handlers, and `Bounded` keeps the counter from below: every
decrement is one request's or a failed command's.

The window's bound is the one theorem whose number is not in the code. It counts, for each
window, the requests that are on (through the checks) and those ahead of them. As long as no
recorded member of the window was trimmed (`Whole`), a request that reads fewer than
`MAX_REQUESTS` finds all that are on among the recorded ones and the `AtOnce - 1` that are in
the limiter with it, so that at most `MAX_REQUESTS + AtOnce - 1` are on. The trim that ends
this belongs to a request after the window, which leaves at most `AtOnce - 1` ahead and lets
nobody else arrive in it; an expiry that forgets nothing that counts leaves none. For
`AloneHolds`, `Remembered` says that what is missing from the set is outdated also for a
request that is alone, and `Trimmed` that such a one reads nothing outdated.

### What stays with TLC

- Everything under fairness: `HalfOpenEnds`, `OpenProbes`, `RequestsEnd`, `StartReturns` and
  `LoopsComeBack`. Liveness and ENABLED are outside the prover.
- The three statements that runs refute; a counterexample is all there is to show.

## What is not modelled

- Google login. `OAuth2Callback` exchanges its code with Google and POSTs the user to
  `USER_SERVICE_URL`, without the `/v1` under which the user service has its routes, so no
  state changes whatever the code is.
- Tokens: `GenerateJWT` and `verifyJWT` keep no state, and a token outlives the account it
  names by up to an hour. The auth service's tokens carry a user name and no role.
- `CreatePaymentIntent` of the payment service: one guarded Stripe call with an idempotency
  key made anew for every call, and no state; what its breaker does is CircuitBreaker.
  `handlePayment` and `UpdatePurchaseStatus` of the reservation service are called by nothing.
- The WebSocket upgrade of the ticket service and the rows a list or a stream shows.
- The gateway's vendor check keeps no state. Its WebSocket upgrade
  calls `verification.verifyToken` (`index.js:141`), which `jwt.js` does not export, so it
  ends before it does anything.
- The content of tickets, mails, QR codes and prices. `int(price * 100)`
  (reservation handlers, line 241) is floating point, which TLC has not.
- Goroutines that share one AMQP connection without a lock (`broker.go:57`): the outcome
  is the client library's; in the model any publication may fail.
- HAProxy, monitoring, compose files, connections: configuration and plain I/O. (The
  HAProxy configuration balances by `uri whole` and by `source`, where
  `gateway/README.md:16` says least connections; neither is visible in Gateway, where
  any request may reach any process.)
- The width of numbers. A `tickets_to_buy` for which Go's 64-bit sum wraps passes the check of
  the capacity with a sum far outside the column's INT, as does any sum beyond it, so that the
  database refuses the UPDATE: `DatabaseFails`.
- `Interval` of the breaker's settings is stored and never read, so the counts of a
  closed period are never reset and four consecutive failures after a healthy
  history do not open it, as `Ticketing_System_SRS.md:297` would have it.

## Plan

Done in this order, the most central first: CircuitBreaker with ProbeGate and its
proofs; EventService with its proofs; Reservation; PaymentConsumer; MessageFlow; Gateway;
TicketCheck; RateLimiter; Accounts; the readers of TicketCheck; PaymentChain. Then the
proofs of PaymentConsumer, Reservation, TicketCheck, MessageFlow with its refinement,
Gateway, Accounts, the sums of EventService, and RateLimiter; and last BookingChain with its
refinement, the composition of EventService with the proofs of its breaker, and the
invariants of the half-open breakers.

Left for proof: that Reservation follows ProbeGate between two restarts, each of which makes
a new breaker. That a stage is never skipped and an open gate admits nobody but a trial is
how PaymentChain and ProbeGate are written, and no theorem repeats it.

Left for modelling: a retried POST of the gateway joined with ReserveTicket (two
reservations from one click), for which no document states what should hold.
