----------------------------- MODULE TicketCheck -----------------------------
(***************************************************************************)
(* Checking a ticket at the door while its status changes: VerifyTicket of *)
(* the reservation service, with the ticket service's GetTicketByCode at   *)
(* the other end of its GET, and the ticket service's UpdateTicketStatus.  *)
(* Readers take part by what they share with them, the ticket service's    *)
(* breaker: the lists, and the WebSocket streams that read again and again.*)
(*                                                                         *)
(* Each service has one circuit breaker for all that its handlers do: two  *)
(* gates of ProbeGate.  A GET outlives the client that gave up on it.      *)
(***************************************************************************)
EXTENDS Naturals, FiniteSets

CONSTANTS
    Scans,        \* POST /v1/verify requests
    Updates,      \* PUT /v1/:id/status requests
    Readers,      \* GETs of a ticket or a list, and WebSocket connections
    Tickets,      \* tickets of the table
    Unknown,      \* a well-formed code of no ticket
    MaxTrials,    \* both breakers' MaxRequests
    MaxDBErrors   \* bound: SELECTs of the ticket database that fail

ASSUME UnknownAssumption == Unknown \notin Tickets
ASSUME RequestsAssumption ==
    Scans \intersect Updates = {} /\ Scans \intersect Readers = {} /\ Updates \intersect Readers = {}
ASSUME BoundsAssumption == MaxTrials \in Nat \ {0} /\ MaxDBErrors \in Nat

VARIABLES
    rMode, rInside, rTrial, rLeft,  \* the reservation service's gate
    tMode, tInside, tTrial, tLeft,  \* the ticket service's gate
    status,       \* the ticket table
    pc,           \* each request's step
    code,         \* the scanned code, or the ticket to update
    wanted,       \* the status an update asks for
    get,          \* the GET of each scan at the ticket service
    answer,
    dbErrors,
    seen          \* statuses the ticket of a scan has had since the scan arrived

rGate == <<rMode, rInside, rTrial, rLeft>>
tGate == <<tMode, tInside, tTrial, tLeft>>
vars == <<rGate, tGate, status, pc, code, wanted, get, answer, dbErrors, seen>>

R == INSTANCE ProbeGate WITH Callers <- Scans,
        mode <- rMode, inside <- rInside, trial <- rTrial, left <- rLeft
T == INSTANCE ProbeGate WITH Callers <- Scans \union Updates \union Readers,
        mode <- tMode, inside <- tInside, trial <- tTrial, left <- tLeft

None == "none"
ASSUME NoneAssumption == None \notin Tickets \union {Unknown}

Statuses == {"active", "used", "cancelled"}
Requests == Scans \union Updates \union Readers

Init ==
    /\ R!Init /\ T!Init
    /\ status \in [Tickets -> Statuses]
    /\ pc = [r \in Requests |-> "idle"]
    /\ code = [r \in Requests |-> None]
    /\ wanted = [u \in Updates |-> None]
    /\ get = [s \in Scans |-> None]
    /\ answer = [r \in Requests |-> None]
    /\ dbErrors = 0
    /\ seen = [s \in Scans |-> {}]

GoTo(r, step) == pc' = [pc EXCEPT ![r] = step]

Answer(r, a) == GoTo(r, "done") /\ answer' = [answer EXCEPT ![r] = a]

Found(t) == IF t \in Tickets THEN {status[t]} ELSE {"missing"}

-----------------------------------------------------------------------------
(* A QR code, as a file or a URL, goes to the QR service. *)
Scan(s) ==
    /\ pc[s] = "idle"
    /\ R!Admits(s)
    /\ GoTo(s, "reading")
    /\ UNCHANGED <<tGate, status, code, wanted, get, answer, dbErrors, seen>>

(* 503 or 429, from either guarded call. *)
ScanRefused(s) ==
    /\ pc[s] \in {"idle", "read"}
    /\ R!Refuse(s)
    /\ Answer(s, "refused")
    /\ UNCHANGED <<tGate, status, code, wanted, get, dbErrors, seen>>

(* The answer holds a code, or text of another format. *)
Read(s) ==
    /\ pc[s] = "reading"
    /\ R!Succeeds(s)
    /\ \/ \E c \in Tickets \union {Unknown} :
             /\ code' = [code EXCEPT ![s] = c]
             /\ seen' = [seen EXCEPT ![s] = Found(c)]
          /\ GoTo(s, "read") /\ UNCHANGED answer
       \/ Answer(s, "badRequest") /\ UNCHANGED <<code, seen>>
    /\ UNCHANGED <<tGate, status, wanted, get, dbErrors>>

ReadFails(s) ==
    /\ pc[s] = "reading"
    /\ R!Fails(s)
    /\ Answer(s, "error")
    /\ UNCHANGED <<tGate, status, code, wanted, get, dbErrors, seen>>

Ask(s) ==
    /\ pc[s] = "read"
    /\ R!Admits(s)
    /\ get' = [get EXCEPT ![s] = "sent"]
    /\ GoTo(s, "asking")
    /\ UNCHANGED <<tGate, status, code, wanted, answer, dbErrors, seen>>

-----------------------------------------------------------------------------
Reply(s, what) == get' = [get EXCEPT ![s] = what]

elsewhere == <<rGate, status, pc, code, wanted, answer, seen>>

(* GetTicketByCode. *)
LookUp(s) ==
    /\ get[s] = "sent"
    /\ T!Admits(s)
    /\ Reply(s, "inside")
    /\ UNCHANGED <<elsewhere, dbErrors>>

LookUpRefused(s) ==
    /\ get[s] = "sent"
    /\ T!Refuse(s)
    /\ Reply(s, "unavailable")
    /\ UNCHANGED <<elsewhere, dbErrors>>

LookUpFinds(s) ==
    /\ get[s] = "inside"
    /\ code[s] \in Tickets
    /\ Reply(s, status[code[s]])
    /\ T!Succeeds(s)
    /\ UNCHANGED <<elsewhere, dbErrors>>

(* A code of no ticket is an error to the breaker, and any error but the   *)
(* breaker's is answered with 404.                                         *)
LookUpFails(s) ==
    /\ get[s] = "inside"
    /\ \/ code[s] = Unknown /\ UNCHANGED dbErrors
       \/ dbErrors < MaxDBErrors /\ dbErrors' = dbErrors + 1
    /\ Reply(s, "missing")
    /\ T!Fails(s)
    /\ UNCHANGED elsewhere

-----------------------------------------------------------------------------
BugVerdict(reply) ==
    CASE reply \in Statuses -> "valid"
      [] reply = "missing" -> "invalid"
      [] OTHER -> "error"

BugVerdict2(reply) == IF reply = "active" THEN "valid" ELSE "invalid"

(* 200 with a status, 404, any other. *)
Verdict(reply) ==
    CASE reply = "active" -> "valid"
      [] reply \in {"used", "cancelled", "missing"} -> "invalid"
      [] OTHER -> "error"

Replied(s) == get[s] \in Statuses \union {"missing", "unavailable"}

(* The reply reaches VerifyTicket.  404 is a failure to the breaker, a     *)
(* ticket that is not active is none.                                      *)
Judge(s) ==
    /\ pc[s] = "asking"
    /\ Replied(s)
    /\ IF get[s] \in Statuses THEN R!Succeeds(s) ELSE R!Fails(s)
    /\ Answer(s, Verdict(get[s]))
    /\ UNCHANGED <<tGate, status, code, wanted, get, dbErrors, seen>>

BugGiveUp(s) == UNCHANGED rGate
GiveUp(s) == R!Fails(s)

(* Five seconds, or the connection breaks. *)
NoReply(s) ==
    /\ pc[s] = "asking"
    /\ GiveUp(s)
    /\ Answer(s, "error")
    /\ UNCHANGED <<tGate, status, code, wanted, get, dbErrors, seen>>

-----------------------------------------------------------------------------
Accepted == Statuses

(* UpdateTicketStatus: a SELECT, then an UPDATE, each in the breaker. *)
Update(u) ==
    /\ pc[u] = "idle"
    /\ T!Admits(u)
    /\ \E t \in Tickets \union {Unknown}, st \in Accepted :
          code' = [code EXCEPT ![u] = t] /\ wanted' = [wanted EXCEPT ![u] = st]
    /\ GoTo(u, "checking")
    /\ UNCHANGED <<rGate, status, get, answer, dbErrors, seen>>

UpdateRefused(u) ==
    /\ pc[u] \in {"idle", "checked"}
    /\ T!Refuse(u)
    /\ Answer(u, "refused")
    /\ UNCHANGED <<rGate, status, code, wanted, get, dbErrors, seen>>

(* No row is no error here: 404, and a success to the breaker. *)
Checked(u) ==
    /\ pc[u] = "checking"
    /\ T!Succeeds(u)
    /\ IF code[u] \in Tickets THEN GoTo(u, "checked") /\ UNCHANGED answer
       ELSE Answer(u, "missing")
    /\ UNCHANGED <<rGate, status, code, wanted, get, dbErrors, seen>>

BeginWrite(u) ==
    /\ pc[u] = "checked"
    /\ T!Admits(u)
    /\ GoTo(u, "writing")
    /\ UNCHANGED <<rGate, status, code, wanted, get, answer, dbErrors, seen>>

SetStatus(u) ==
    /\ status' = [status EXCEPT ![code[u]] = wanted[u]]
    /\ seen' = [s \in Scans |->
                  IF code[s] = code[u] THEN seen[s] \union {wanted[u]} ELSE seen[s]]

Written(u) ==
    /\ pc[u] = "writing"
    /\ SetStatus(u)
    /\ T!Succeeds(u)
    /\ Answer(u, "ok")
    /\ UNCHANGED <<rGate, code, wanted, get, dbErrors>>

(* The SELECT fails, or the UPDATE does, or the UPDATE's reply is lost. *)
UpdateFails(u) ==
    /\ \/ pc[u] \in {"checking", "writing"} /\ UNCHANGED <<status, seen>>
       \/ pc[u] = "writing" /\ SetStatus(u)
    /\ T!Fails(u)
    /\ Answer(u, "error")
    /\ UNCHANGED <<rGate, code, wanted, get, dbErrors>>

-----------------------------------------------------------------------------
quiet == <<rGate, status, code, wanted, get, seen>>

(* A list, a ticket by its id, or what a stream sends first and then with  *)
(* every tick of its ticker.                                               *)
Select(v) ==
    /\ pc[v] \in {"idle", "waiting"}
    /\ T!Admits(v)
    /\ GoTo(v, "selecting")
    /\ UNCHANGED <<quiet, answer, dbErrors>>

(* 503 or 429; the end of a stream. *)
SelectRefused(v) ==
    /\ pc[v] \in {"idle", "waiting"}
    /\ T!Refuse(v)
    /\ Answer(v, "refused")
    /\ UNCHANGED <<quiet, dbErrors>>

Selected(v) ==
    /\ pc[v] = "selecting"
    /\ T!Succeeds(v)
    /\ GoTo(v, "sending")
    /\ UNCHANGED <<quiet, answer, dbErrors>>

(* 500; the end of a stream. *)
SelectFails(v) ==
    /\ pc[v] = "selecting"
    /\ dbErrors < MaxDBErrors
    /\ dbErrors' = dbErrors + 1
    /\ T!Fails(v)
    /\ Answer(v, "error")
    /\ UNCHANGED quiet

(* The rows are sent outside the breaker, by GetEventsWithTickets after it *)
(* asked the event service for each name, and without a deadline: to a     *)
(* client that reads nothing, never.  A GET is over, a stream waits for    *)
(* its ticker, and the stream of a client that has left ends.              *)
Send(v) ==
    /\ pc[v] = "sending"
    /\ \/ Answer(v, "ok")
       \/ GoTo(v, "waiting") /\ UNCHANGED answer
       \/ Answer(v, "error")
    /\ UNCHANGED <<quiet, tGate, dbErrors>>

Show(v) == Select(v) \/ SelectRefused(v) \/ Selected(v) \/ SelectFails(v) \/ Send(v)

VerifyTicket(s) ==
    \/ Scan(s) \/ ScanRefused(s) \/ Read(s) \/ ReadFails(s)
    \/ Ask(s) \/ Judge(s) \/ NoReply(s)

GetTicketByCode(s) == LookUp(s) \/ LookUpRefused(s) \/ LookUpFinds(s) \/ LookUpFails(s)

UpdateTicketStatus(u) ==
    \/ Update(u) \/ UpdateRefused(u) \/ Checked(u)
    \/ BeginWrite(u) \/ Written(u) \/ UpdateFails(u)

AllDone ==
    /\ \A r \in Requests : pc[r] = "done"
    /\ \A s \in Scans : get[s] \notin {"sent", "inside"}
    /\ UNCHANGED vars

Next ==
    \/ \E s \in Scans : VerifyTicket(s) \/ GetTicketByCode(s)
    \/ \E u \in Updates : UpdateTicketStatus(u)
    \/ \E v \in Readers : Show(v)
    \/ AllDone

Spec == Init /\ [][Next]_vars

-----------------------------------------------------------------------------
TypeOK ==
    /\ rMode \in {"Closed", "Open", "HalfOpen"} /\ tMode \in {"Closed", "Open", "HalfOpen"}
    /\ rInside \subseteq Scans /\ rTrial \subseteq rInside /\ rLeft \in 0 .. MaxTrials
    /\ tInside \subseteq Requests /\ tTrial \subseteq tInside /\ tLeft \in 0 .. MaxTrials
    /\ status \in [Tickets -> Statuses]
    /\ pc \in [Requests -> {"idle", "reading", "read", "asking", "checking", "checked",
                            "writing", "selecting", "sending", "waiting", "done"}]
    /\ code \in [Requests -> Tickets \union {Unknown, None}]
    /\ wanted \in [Updates -> Statuses \union {None}]
    /\ get \in [Scans -> Statuses \union {None, "sent", "inside", "missing", "unavailable"}]
    /\ answer \in [Requests -> {None, "refused", "badRequest", "error", "valid", "invalid",
                                "missing", "ok"}]
    /\ dbErrors \in 0 .. MaxDBErrors
    /\ seen \in [Scans -> SUBSET (Statuses \union {"missing"})]

(***************************************************************************)
(* A visitor is let in only with a ticket that exists and was active at    *)
(* some moment between the scan and the answer: a ticket that was used or  *)
(* cancelled before the scan is never valid.                               *)
(***************************************************************************)
ValidWasActive == \A s \in Scans : answer[s] = "valid" => "active" \in seen[s]

(***************************************************************************)
(* As long as the database answers, a visitor is told that the ticket is   *)
(* invalid only if it was not active at some moment of the scan, and never *)
(* because a breaker refused or a call failed.                             *)
(***************************************************************************)
InvalidWasInactive ==
    dbErrors = 0 => \A s \in Scans : answer[s] = "invalid" => seen[s] # {"active"}

(***************************************************************************)
(* Both breakers hold a slot for exactly the calls that are out, also when *)
(* the reservation service has given up on a GET that the ticket service   *)
(* still works on, and when a stream is stuck on a client that reads       *)
(* nothing or waits for its next tick.                                     *)
(***************************************************************************)
SlotsMatchCalls ==
    /\ rInside = {s \in Scans : pc[s] \in {"reading", "asking"}}
    /\ tInside = {s \in Scans : get[s] = "inside"} \union
                 {u \in Updates : pc[u] \in {"checking", "writing"}} \union
                 {v \in Readers : pc[v] = "selecting"}

(***************************************************************************)
(* A half-open breaker of either service that refuses everyone waits for a *)
(* call that is out and whose result will close or open it, also when      *)
(* clients have given up or a stream is stuck: neither is ever left        *)
(* half-open with nobody to decide.                                        *)
(***************************************************************************)
SomeCallDecides ==
    /\ rMode = "HalfOpen" /\ rLeft = 0 =>
          \E s \in rTrial : pc[s] \in {"reading", "asking"}
    /\ tMode = "HalfOpen" /\ tLeft = 0 =>
          \/ \E s \in tTrial \intersect Scans : get[s] = "inside"
          \/ \E r \in tTrial : pc[r] \in {"checking", "writing", "selecting"}

=============================================================================
