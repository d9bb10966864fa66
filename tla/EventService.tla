---------------------------- MODULE EventService ----------------------------
(***************************************************************************)
(* services/event-service: the handlers of internal/api/handlers.go over   *)
(* the repository of internal/db/repos/event_repository.go, whose methods  *)
(* all run through one circuit breaker.                                    *)
(*                                                                         *)
(* A request is one goroutine of the HTTP server that serves one call.     *)
(* Every SQL statement is one step of its own, since nothing wraps them in *)
(* a transaction; the values a statement returned are kept in seen.        *)
(***************************************************************************)
EXTENDS Integers, FiniteSets, FiniteSetsExt

CONSTANTS
    Requests,     \* HTTP requests, each served once
    Events,       \* event ids, those that exist and those still to be created
    InitialRows,  \* the rows of event.sql
    NewTotals,    \* values of total_tickets of a new event, which nobody checks
    Quantities,   \* values of tickets_to_buy
    NoRow, Null,
    MaxRequests, ClosedBound  \* of the breaker

Rows == [total : Int, sold : Nat, left : Int \union {Null}]

ASSUME RowsAssumption ==
    /\ InitialRows \in [Events -> Rows \union {NoRow}]
    /\ NoRow \notin Rows
    /\ \A e \in Events : InitialRows[e] # NoRow =>
          /\ InitialRows[e].sold <= InitialRows[e].total
          /\ InitialRows[e].left = InitialRows[e].total - InitialRows[e].sold
ASSUME QuantitiesAssumption == Quantities \subseteq Int
ASSUME NewTotalsAssumption == NewTotals \subseteq Int
ASSUME RequestsAssumption == IsFiniteSet(Requests)
ASSUME BreakerAssumption == MaxRequests \in Nat \ {0} /\ ClosedBound \in Nat
ASSUME NullAssumption == Null \notin Int

VARIABLES
    state, counts, expired, call,  \* the repository's breaker
    table,       \* the events table
    pc,          \* where each request is
    op,          \* what it asked for
    seen,        \* the row its SELECT returned
    answer,      \* what it is told
    taken,       \* history: tickets of an event that UPDATEs carried out took
    overlapped   \* history: events two buyers read before either wrote

breakerVars == <<state, counts, expired, call>>
historyVars == <<taken, overlapped>>
vars == <<breakerVars, table, pc, op, seen, answer, historyVars>>

CB == INSTANCE CircuitBreaker WITH Callers <- Requests

Ops == [kind : {"buy"}, event : Events, qty : Quantities]
         \union [kind : {"get"}, event : Events]
         \union [kind : {"create"}, total : NewTotals]
         \union [kind : {"list"}]

NoOp == [kind |-> "none"]

Answers == {"none", "ok", "not_found", "not_enough", "db_error", "invalid", "unavailable"}

Init ==
    /\ CB!Init
    /\ table = InitialRows
    /\ pc = [r \in Requests |-> "idle"]
    /\ op = [r \in Requests |-> NoOp]
    /\ seen = [r \in Requests |-> NoRow]
    /\ answer = [r \in Requests |-> "none"]
    /\ taken = [e \in Events |-> 0]
    /\ overlapped = {}

Buys(r) == op[r].kind = "buy"

-----------------------------------------------------------------------------
(* The handler's own check, before the repository is called. *)
BadInput(o) == o.kind = "buy" /\ o.qty <= 0

RejectInput(r, o) ==
    /\ pc[r] = "idle"
    /\ BadInput(o)
    /\ pc' = [pc EXCEPT ![r] = "done"]
    /\ op' = [op EXCEPT ![r] = o]
    /\ answer' = [answer EXCEPT ![r] = "invalid"]
    /\ UNCHANGED <<breakerVars, table, seen, historyVars>>

(* breaker.Execute lets the repository method run. *)
Admit(r, o) ==
    /\ pc[r] = "idle"
    /\ ~BadInput(o)
    /\ CB!BeforeRequest(r)
    /\ pc' = [pc EXCEPT ![r] = "admitted"]
    /\ op' = [op EXCEPT ![r] = o]
    /\ UNCHANGED <<table, seen, answer, historyVars>>

(* breaker.Execute returns an error of its own and the method is not run. *)
Unavailable(r, o) ==
    /\ pc[r] = "idle"
    /\ ~BadInput(o)
    /\ CB!Refuse(r)
    /\ pc' = [pc EXCEPT ![r] = "done"]
    /\ op' = [op EXCEPT ![r] = o]
    /\ answer' = [answer EXCEPT ![r] = "unavailable"]
    /\ UNCHANGED <<table, seen, historyVars>>

(* The guarded function returns; the breaker has yet to be told. *)
Returns(r, a) ==
    /\ pc' = [pc EXCEPT ![r] = "returning"]
    /\ answer' = [answer EXCEPT ![r] = a]

(* A statement fails before it changes anything. *)
DatabaseFails(r) ==
    /\ pc[r] \in {"admitted", "read"}
    /\ Returns(r, "db_error")
    /\ UNCHANGED <<breakerVars, table, op, seen, historyVars>>

GetEvent(r) ==
    /\ pc[r] = "admitted"
    /\ op[r].kind = "get"
    /\ Returns(r, IF table[op[r].event] = NoRow THEN "not_found" ELSE "ok")
    /\ UNCHANGED <<breakerVars, table, op, seen, historyVars>>

GetAllEvents(r) ==
    /\ pc[r] = "admitted"
    /\ op[r].kind = "list"
    /\ Returns(r, "ok")
    /\ UNCHANGED <<breakerVars, table, op, seen, historyVars>>

(* INSERT leaves sold_tickets at its default and tickets_left NULL.  It    *)
(* may be carried out and its reply be lost.                               *)
CreateEvent(r) ==
    /\ pc[r] = "admitted"
    /\ op[r].kind = "create"
    /\ \E e \in Events :
          /\ table[e] = NoRow
          /\ table' = [table EXCEPT ![e] = [total |-> op[r].total, sold |-> 0, left |-> Null]]
    /\ Returns(r, "ok") \/ Returns(r, "db_error")
    /\ UNCHANGED <<breakerVars, op, seen, historyVars>>

-----------------------------------------------------------------------------
(***************************************************************************)
(* UpdateTicketsSold: SELECT, the checks on what it returned, UPDATE.  Its *)
(* check that ticketsToBuy is positive repeats the handler's.              *)
(***************************************************************************)
BugFits(row, qty) == row.sold <= row.total
Fits(row, qty) == row.sold + qty <= row.total

(* Buyers that have read the row of event e and not yet written it. *)
Reading(e) == {q \in Requests : pc[q] = "read" /\ Buys(q) /\ op[q].event = e}

SelectEvent(r) ==
    /\ pc[r] = "admitted"
    /\ Buys(r)
    /\ LET e == op[r].event
           row == table[e]
       IN  \/ row = NoRow /\ Returns(r, "not_found") /\ UNCHANGED <<seen, overlapped>>
           \/ /\ row # NoRow /\ ~Fits(row, op[r].qty)
              /\ Returns(r, "not_enough") /\ UNCHANGED <<seen, overlapped>>
           \/ /\ row # NoRow /\ Fits(row, op[r].qty)
              /\ pc' = [pc EXCEPT ![r] = "read"]
              /\ seen' = [seen EXCEPT ![r] = row]
              /\ overlapped' = IF Reading(e) = {} THEN overlapped ELSE overlapped \union {e}
              /\ UNCHANGED answer
    /\ UNCHANGED <<breakerVars, table, op, taken>>

BugSoldRow(row, read, qty) == [row EXCEPT !.sold = read.sold + qty]
BugSoldTwice(row, read, qty) ==
    [total |-> row.total, sold |-> read.sold + 2 * qty, left |-> read.total - (read.sold + 2 * qty)]
SoldRow(row, read, qty) ==
    [total |-> row.total, sold |-> read.sold + qty, left |-> read.total - (read.sold + qty)]

WriteSold(r) ==
    LET e == op[r].event
    IN  /\ table' = [table EXCEPT ![e] = SoldRow(@, seen[r], op[r].qty)]
        /\ taken' = [taken EXCEPT ![e] = @ + op[r].qty]

UpdateEvent(r) ==
    /\ pc[r] = "read"
    /\ WriteSold(r)
    /\ Returns(r, "ok")
    /\ UNCHANGED <<breakerVars, op, seen, overlapped>>

(* The database carries the UPDATE out and the connection breaks before    *)
(* the reply: Exec returns an error.                                       *)
UpdateReplyLost(r) ==
    /\ pc[r] = "read"
    /\ WriteSold(r)
    /\ Returns(r, "db_error")
    /\ UNCHANGED <<breakerVars, op, seen, overlapped>>

(* Execute tells the breaker and the handler answers.  A missing event and *)
(* a sold-out one are errors like any other to the breaker.                *)
BugReported(r) == IF answer[r] = "not_enough" THEN UNCHANGED breakerVars
                  ELSE CB!AfterRequest(r, answer[r] = "ok") \/ CB!AfterRequestStale(r)
Reported(r) == CB!AfterRequest(r, answer[r] = "ok") \/ CB!AfterRequestStale(r)

Answer(r) ==
    /\ pc[r] = "returning"
    /\ Reported(r)
    /\ pc' = [pc EXCEPT ![r] = "done"]
    /\ UNCHANGED <<table, op, seen, answer, historyVars>>

TimeoutPasses == CB!TimeoutPasses /\ UNCHANGED <<table, pc, op, seen, answer, historyVars>>

AllAnswered == (\A r \in Requests : pc[r] = "done") /\ UNCHANGED vars

Serve(r) ==
    \/ \E o \in Ops : RejectInput(r, o) \/ Admit(r, o) \/ Unavailable(r, o)
    \/ DatabaseFails(r)
    \/ GetEvent(r)
    \/ GetAllEvents(r)
    \/ CreateEvent(r)
    \/ SelectEvent(r)
    \/ UpdateEvent(r)
    \/ UpdateReplyLost(r)
    \/ Answer(r)

Next == (\E r \in Requests : Serve(r)) \/ TimeoutPasses \/ AllAnswered

Spec == Init /\ [][Next]_vars

-----------------------------------------------------------------------------
TypeOK ==
    /\ CB!TypeOK
    /\ table \in [Events -> Rows \union {NoRow}]
    /\ pc \in [Requests -> {"idle", "admitted", "read", "returning", "done"}]
    /\ op \in [Requests -> Ops \union {NoOp}]
    /\ seen \in [Requests -> Rows \union {NoRow}]
    /\ answer \in [Requests -> Answers]
    /\ taken \in [Events -> Nat]
    /\ overlapped \subseteq Events

(***************************************************************************)
(* tickets_left always belongs to the sold_tickets next to it, whichever   *)
(* buyer wrote last; it is NULL only while nothing was sold.               *)
(***************************************************************************)
LeftMatchesSold ==
    \A e \in Events : table[e] # NoRow =>
        IF table[e].left = Null THEN table[e].sold = 0
        ELSE table[e].left = table[e].total - table[e].sold

InitialSold(e) == IF InitialRows[e] = NoRow THEN 0 ELSE InitialRows[e].sold

SoldNow(e) == IF table[e] = NoRow THEN 0 ELSE table[e].sold

(***************************************************************************)
(* Every recorded sale was written by some request: a request refused by   *)
(* the breaker, by the check or by the database adds nothing.              *)
(***************************************************************************)
OnlyWrittenSalesCount ==
    \A e \in Events : SoldNow(e) <= InitialSold(e) + taken[e]

(***************************************************************************)
(* As long as no two buyers of an event have read before either wrote, the *)
(* record is exact: initial sales plus every sale written.                 *)
(***************************************************************************)
ExactWithoutOverlap ==
    \A e \in Events \ overlapped :
        SoldNow(e) = InitialSold(e) + taken[e]

(***************************************************************************)
(* Nothing but overlapping buyers sells more tickets than an event has:    *)
(* not sales whose reply was lost, nor failures, nor any order of buyers   *)
(* that each read after the last one wrote.                                *)
(***************************************************************************)
OversoldOnlyByOverlap ==
    \A e \in Events \ overlapped :
        taken[e] > 0 => InitialSold(e) + taken[e] <= table[e].total

(***************************************************************************)
(* The breaker holds a slot for exactly the requests inside a repository   *)
(* method: each of the many error returns gives its slot back, once.       *)
(***************************************************************************)
SlotsMatchRequests ==
    \A r \in Requests : CB!Running(r) <=> pc[r] \in {"admitted", "read", "returning"}

(***************************************************************************)
(* A repository whose half-open breaker refuses every request waits for a  *)
(* method that runs and whose result the breaker will count.               *)
(***************************************************************************)
SomeMethodDecides ==
    state = "HalfOpen" /\ CB!ProbesSpent(counts) =>
        \E r \in Requests : call[r] = "current" /\ pc[r] \in {"admitted", "read", "returning"}

BuyersIn(S, e) == {r \in S : Buys(r) /\ op[r].event = e}

Tickets(S) == MapThenSumSet(LAMBDA r : op[r].qty, S)

Told == {r \in Requests : pc[r] = "done" /\ answer[r] = "ok"}

(***************************************************************************)
(* "The solution must prevent double booking": the tickets of the buyers   *)
(* that were told "Tickets sold updated successfully", and those sold      *)
(* before, are not more than the event has.                                *)
(***************************************************************************)
NoOverselling ==
    \A e \in Events :
        LET buyers == BuyersIn(Told, e)
        IN  buyers # {} => InitialSold(e) + Tickets(buyers) <= table[e].total

=============================================================================
