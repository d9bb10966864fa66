--------------------------- MODULE CircuitBreaker ---------------------------
(***************************************************************************)
(* services/common/circuitbreaker.go: one breaker shared by the goroutines *)
(* of a service that make calls through Execute.                           *)
(*                                                                         *)
(* Every method holds cb.mutex from its first line to its last, so each    *)
(* is one step here; the guarded call req() runs between BeforeRequest and *)
(* AfterRequest with the mutex free.                                       *)
(*                                                                         *)
(* The code stamps a call with cb.generation and only ever compares the    *)
(* stamp with the present value, which setState increments.  The model     *)
(* keeps the outcome of that comparison in place of the number: a running  *)
(* call is "current" until the next change of state and "stale" after it.  *)
(*                                                                         *)
(* Time is one bit: expired says whether time.Now() is after cb.expiry.    *)
(***************************************************************************)
EXTENDS Naturals, FiniteSets

CONSTANTS
    Callers,      \* goroutines that share the breaker
    MaxRequests,  \* Settings.MaxRequests: probes of a half-open period
    ClosedBound   \* bound: a closed period admits at most this many calls

ASSUME CallersAssumption == IsFiniteSet(Callers)
ASSUME MaxRequestsAssumption == MaxRequests \in Nat \ {0}
ASSUME ClosedBoundAssumption == ClosedBound \in Nat

VARIABLES
    state,    \* cb.state
    counts,   \* cb.counts
    expired,  \* now.After(cb.expiry)
    call      \* what each goroutine is doing

vars == <<state, counts, expired, call>>

States == {"Closed", "Open", "HalfOpen"}

Counts == [Requests : Nat, TotalFailures : Nat, Failures : Nat, Successes : Nat]

ZeroCounts == [Requests |-> 0, TotalFailures |-> 0, Failures |-> 0, Successes |-> 0]

(***************************************************************************)
(* DefaultSettings.ReadyToTrip: at least three requests and a ratio of     *)
(* Failures to Requests of 0.6 or more.                                    *)
(***************************************************************************)
ReadyToTrip(n) == n.Requests >= 3 /\ 5 * n.Failures >= 3 * n.Requests

(***************************************************************************)
(* A definition named Bug... stands before the one it resembles: it is a   *)
(* mistake that could be made there, by which a property is shown to be    *)
(* able to fail.  No action uses it.                                       *)
(***************************************************************************)
BugProbesSpent(n) == n.Requests > MaxRequests
ProbesSpent(n) == n.Requests >= MaxRequests

BugProbesPassed(n) == n.Successes > MaxRequests
BugEarlyProbesPassed(n) == n.Successes >= 1
ProbesPassed(n) == n.Successes >= MaxRequests

Running(c) == call[c] # "idle"

(* The calls whose generation is still cb.generation. *)
InFlight == {c \in Callers : call[c] = "current"}

Init ==
    /\ state = "Closed"
    /\ counts = ZeroCounts
    /\ expired = TRUE      \* the zero time.Time is in the past
    /\ call = [c \in Callers |-> "idle"]

-----------------------------------------------------------------------------
(* generation++: no call of the table tab keeps the current generation. *)
NextGeneration(tab) == [c \in Callers |-> IF tab[c] = "current" THEN "stale" ELSE tab[c]]

BugResetCounts(n) == [n EXCEPT !.Requests = 0]
ResetCounts(n) == ZeroCounts

(***************************************************************************)
(* setState to another state.  tab is the call table and n the counts the  *)
(* caller of setState has when it makes the call.                          *)
(***************************************************************************)
SetState(to, tab, n) ==
    /\ state' = to
    /\ expired' = IF to = "Open" THEN FALSE ELSE expired
    /\ counts' = ResetCounts(n)
    /\ call' = NextGeneration(tab)

(* beforeRequest, StateClosed: every call is admitted. *)
BeforeRequestClosed(c) ==
    /\ ~Running(c)
    /\ state = "Closed"
    /\ counts.Requests < ClosedBound
    /\ counts' = [counts EXCEPT !.Requests = @ + 1]
    /\ call' = [call EXCEPT ![c] = "current"]
    /\ UNCHANGED <<state, expired>>

BugTimeoutOver == ~expired
TimeoutOver == expired

(* beforeRequest, StateOpen after the expiry: the first probe. *)
BeforeRequestOpen(c) ==
    /\ ~Running(c)
    /\ state = "Open"
    /\ TimeoutOver
    /\ state' = "HalfOpen"
    /\ counts' = [ZeroCounts EXCEPT !.Requests = 1]
    /\ call' = [NextGeneration(call) EXCEPT ![c] = "current"]
    /\ UNCHANGED expired

(* beforeRequest, StateHalfOpen: one of the MaxRequests probes. *)
BeforeRequestHalfOpen(c) ==
    /\ ~Running(c)
    /\ state = "HalfOpen"
    /\ ~ProbesSpent(counts)
    /\ counts' = [counts EXCEPT !.Requests = @ + 1]
    /\ call' = [call EXCEPT ![c] = "current"]
    /\ UNCHANGED <<state, expired>>

(* beforeRequest refuses: ErrCircuitBreakerOpen or ErrTooManyRequests.  The *)
(* caller gets its error and the breaker keeps its state.                   *)
Refuse(c) ==
    /\ ~Running(c)
    /\ \/ state = "Open" /\ ~TimeoutOver
       \/ state = "HalfOpen" /\ ProbesSpent(counts)
    /\ UNCHANGED vars

-----------------------------------------------------------------------------
Idle(c) == [call EXCEPT ![c] = "idle"]

(* onSuccess *)
BugForgive(failures) == failures - 1
Forgive(failures) == IF failures > 0 THEN failures - 1 ELSE failures

CountSuccess(n) == [n EXCEPT !.Successes = @ + 1]

OnSuccess(c) ==
    LET n == CountSuccess(counts)
    IN  \/ /\ state = "Closed"
           /\ counts' = [n EXCEPT !.Failures = Forgive(@)]
           /\ call' = Idle(c)
           /\ UNCHANGED <<state, expired>>
        \/ /\ state = "HalfOpen"
           /\ ~ProbesPassed(n)
           /\ counts' = n
           /\ call' = Idle(c)
           /\ UNCHANGED <<state, expired>>
        \/ /\ state = "HalfOpen"
           /\ ProbesPassed(n)
           /\ SetState("Closed", Idle(c), n)

(* onFailure *)
CountFailure(n) ==
    LET f == [n EXCEPT !.Failures = @ + 1]
    IN  [f EXCEPT !.TotalFailures = @ + 1]

OnFailure(c) ==
    LET n == CountFailure(counts)
    IN  \/ /\ state = "Closed"
           /\ ~ReadyToTrip(n)
           /\ counts' = n
           /\ call' = Idle(c)
           /\ UNCHANGED <<state, expired>>
        \/ /\ state = "Closed"
           /\ ReadyToTrip(n)
           /\ SetState("Open", Idle(c), n)
        \/ /\ state = "HalfOpen"
           /\ SetState("Open", Idle(c), counts)

BugSameGeneration(c) == Running(c)
SameGeneration(c) == call[c] = "current"

(* afterRequest: success is err = nil; an error of req() and a panic, which *)
(* Execute recovers and raises again, both come here with success FALSE.    *)
AfterRequest(c, success) ==
    /\ SameGeneration(c)
    /\ IF success THEN OnSuccess(c) ELSE OnFailure(c)

(* afterRequest of a call that an earlier generation admitted. *)
AfterRequestStale(c) ==
    /\ Running(c)
    /\ ~SameGeneration(c)
    /\ call' = Idle(c)
    /\ UNCHANGED <<state, counts, expired>>

(* cb.timeout passes after the breaker opened. *)
TimeoutPasses ==
    /\ ~expired
    /\ expired' = TRUE
    /\ UNCHANGED <<state, counts, call>>

-----------------------------------------------------------------------------
BeforeRequest(c) ==
    \/ BeforeRequestClosed(c)
    \/ BeforeRequestOpen(c)
    \/ BeforeRequestHalfOpen(c)

Completes(c) ==
    \/ \E success \in BOOLEAN : AfterRequest(c, success)
    \/ AfterRequestStale(c)

Next ==
    \/ \E c \in Callers : BeforeRequest(c) \/ Refuse(c) \/ Completes(c)
    \/ TimeoutPasses

Spec == Init /\ [][Next]_vars

(***************************************************************************)
(* Every guarded call ends.  That is so of the calls made with an HTTP     *)
(* client that times out after five seconds; it is not so of the vendor    *)
(* service's http.Post, which has no timeout, and of SQL statements and    *)
(* publishes, which take no context, it is so as long as the database or   *)
(* the connection answers or breaks.  The clock advances.  Clients keep    *)
(* arriving: the breaker has no timer of its own, so nothing leaves Open   *)
(* or HalfOpen without traffic.                                            *)
(***************************************************************************)
Fairness ==
    /\ \A c \in Callers : WF_vars(Completes(c))
    /\ WF_vars(TimeoutPasses)
    /\ WF_vars(\E c \in Callers : BeforeRequest(c))

FairSpec == Spec /\ Fairness

-----------------------------------------------------------------------------
TypeOK ==
    /\ state \in States
    /\ counts \in Counts
    /\ expired \in BOOLEAN
    /\ call \in [Callers -> {"idle", "current", "stale"}]

(***************************************************************************)
(* While closed, every admitted call of the period is either counted as a  *)
(* success, counted as a failure, or still running: none is lost or        *)
(* counted twice, whatever calls of earlier periods do meanwhile.          *)
(***************************************************************************)
ClosedAccounting ==
    state = "Closed" =>
        counts.Requests = counts.Successes + counts.TotalFailures + Cardinality(InFlight)

(***************************************************************************)
(* While half-open, the probes admitted are the ones that succeeded and    *)
(* the ones running, and never exceed MaxRequests: the recovering service  *)
(* sees at most that many calls until the breaker decides.                 *)
(***************************************************************************)
ProbeAccounting ==
    state = "HalfOpen" =>
        /\ counts.Requests = counts.Successes + Cardinality(InFlight)
        /\ counts.Requests <= MaxRequests
        /\ counts.Successes < MaxRequests

(***************************************************************************)
(* An open breaker carries nothing over from the period before: its counts *)
(* are zero and no running call can still report to it.  Outside Open, the *)
(* timeout of the last opening has passed.                                 *)
(***************************************************************************)
OpenIsClean ==
    /\ state = "Open" => counts = ZeroCounts /\ InFlight = {}
    /\ ~expired => state = "Open"

(***************************************************************************)
(* Failures is the failures of the closed period less the successes that   *)
(* forgave one of them, so it never passes TotalFailures and never forgives*)
(* more than the successes counted.                                        *)
(***************************************************************************)
FailuresAreNet ==
    state = "Closed" =>
        /\ counts.Failures <= counts.TotalFailures
        /\ counts.TotalFailures <= counts.Failures + counts.Successes

(***************************************************************************)
(* The breaker closes only on the success of the last of MaxRequests       *)
(* probes: all of them were admitted, all the others succeeded, and none   *)
(* is still running when it lets the full traffic in again.                *)
(***************************************************************************)
ClosesOnlyAfterAllProbes ==
    [][(state = "HalfOpen" /\ state' = "Closed") =>
          /\ counts.Requests = MaxRequests
          /\ counts.Successes + 1 = MaxRequests
          /\ \E c \in Callers : InFlight = {c}]_vars

(***************************************************************************)
(* A call that was admitted before the last change of state has no effect  *)
(* on the breaker when it ends, however late that is.                      *)
(***************************************************************************)
StaleCallsAreIgnored ==
    [][\A c \in Callers : (call[c] = "stale" /\ call'[c] = "idle")
          => UNCHANGED <<state, counts, expired>>]_vars

(***************************************************************************)
(* A half-open breaker that refuses everyone waits for a probe that runs   *)
(* and whose result will count: it is never left with nobody to decide.    *)
(***************************************************************************)
SomeProbeDecides == state = "HalfOpen" /\ ProbesSpent(counts) => InFlight # {}

(***************************************************************************)
(* With traffic, and calls that all end, a half-open period always ends:   *)
(* the limit on probes never leaves the breaker refusing everyone with no  *)
(* probe left to decide.  In front of a call that may hang for ever, the   *)
(* vendor service's POST of an event, the period may last as long as the   *)
(* POST; PostsAccounted of Accounts says what holds there instead.         *)
(***************************************************************************)
HalfOpenEnds == (state = "HalfOpen") ~> (state # "HalfOpen")

(* With traffic, and calls that all end, an open breaker eventually tries  *)
(* the service again: the first caller after the timeout is its probe.     *)
OpenProbes == (state = "Open") ~> (state = "HalfOpen")

(***************************************************************************)
(* The breaker implements the gate of ProbeGate: the calls inside are the  *)
(* running ones, the trials are the probes of the present half-open period.*)
(***************************************************************************)
Gate == INSTANCE ProbeGate WITH
    MaxTrials <- MaxRequests,
    mode <- state,
    inside <- {c \in Callers : Running(c)},
    trial <- IF state = "HalfOpen" THEN InFlight ELSE {},
    left <- IF state = "HalfOpen" THEN MaxRequests - counts.Requests ELSE 0

ImplementsGate == Gate!Spec
=============================================================================
