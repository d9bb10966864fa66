------------------------------- MODULE Gateway -------------------------------
(***************************************************************************)
(* src/gateway: the concurrency limiter that all gateway instances share   *)
(* through one Redis counter, and the proxy with its retries behind it.    *)
(*                                                                         *)
(* index.js installs the limiter before the JWT check that sets req.user,  *)
(* so the limiter's key is "concurrency:undefined" for every request and   *)
(* there is one counter.  Each await of the limiter is a step, and the     *)
(* requests' steps interleave.                                             *)
(***************************************************************************)
EXTENDS Limiters

CONSTANTS
    Instance,       \* the gateway process each request is sent to
    MaxConcurrent,  \* MAX_CONCURRENT
    MaxRetries      \* maxRetries of retryOptions

ASSUME LimitAssumption == MaxConcurrent \in Nat \ {0}
ASSUME RetriesAssumption == MaxRetries \in Nat

VARIABLES
    exists, count, ttl,  \* the Redis key: whether it exists, its value (0 when
                         \* it does not), and whether it has an expiry
    handled,   \* requests with a 'finish' handler
    gone,      \* requests that are worked on although their client left
    attempts,  \* times each was sent to its service
    lost       \* history: the key was removed while requests held a place in it

key == <<exists, count, ttl>>
vars == <<key, pc, handled, gone, attempts, lost, failures>>

Init ==
    /\ exists = FALSE /\ count = 0 /\ ttl = FALSE
    /\ pc = [r \in Requests |-> "idle"]
    /\ handled = {}
    /\ gone = {}
    /\ attempts = [r \in Requests |-> 0]
    /\ lost = FALSE
    /\ failures = 0

InFlight == {r \in Requests : pc[r] \in {"chain", "forwarded", "backoff"}}

(***************************************************************************)
(* Requests that hold a place in the counter: those in the limiter, those  *)
(* with a handler that will return it, and those whose client left.        *)
(***************************************************************************)
Holders ==
    {r \in Requests : \/ pc[r] \in {"expire", "rollback", "left"}
                      \/ r \in handled /\ pc[r] \in {"chain", "forwarded", "backoff", "answered"}}

-----------------------------------------------------------------------------
(* The commands of Redis.  INCR and DECR create a key that does not exist, *)
(* without an expiry, and PEXPIRE does nothing to one.                     *)
IncrKey == exists' = TRUE /\ count' = count + 1 /\ UNCHANGED <<ttl, lost>>
DecrKey == exists' = TRUE /\ count' = count - 1 /\ UNCHANGED <<ttl, lost>>
ExpireKey == ttl' = exists /\ UNCHANGED <<exists, count, lost>>

RemoveKey ==
    /\ exists' = FALSE /\ count' = 0 /\ ttl' = FALSE
    /\ lost' = (lost \/ Holders # {})

Expire ==
    /\ ttl
    /\ RemoveKey
    /\ UNCHANGED <<pc, handled, gone, attempts, failures>>

-----------------------------------------------------------------------------
BugFirst(n) == n = 0
First(n) == n = 1

BugOverLimit(n) == n > MaxConcurrent + 1
OverLimit(n) == n > MaxConcurrent

(* The middleware admits a request and registers its handler. *)
BugAdmit(r) == GoTo(r, "chain") /\ UNCHANGED handled
Admit(r) == GoTo(r, "chain") /\ handled' = handled \union {r}

(* redis.incr, up to the next await. *)
Incr(r) ==
    /\ pc[r] = "idle"
    /\ IncrKey
    /\ IF First(count') THEN GoTo(r, "expire") /\ UNCHANGED handled
       ELSE IF OverLimit(count') THEN GoTo(r, "rollback") /\ UNCHANGED handled
       ELSE Admit(r)
    /\ UNCHANGED <<gone, attempts, failures>>

(* redis.pexpire *)
SetExpiry(r) ==
    /\ pc[r] = "expire"
    /\ ExpireKey
    /\ Admit(r)
    /\ UNCHANGED <<gone, attempts, failures>>

BugTakeBack == UNCHANGED <<key, lost>>
TakeBack == DecrKey

(* redis.decr, then 429. *)
Rollback(r) ==
    /\ pc[r] = "rollback"
    /\ TakeBack
    /\ GoTo(r, "refused")
    /\ UNCHANGED <<handled, gone, attempts, failures>>

(* 'finish': redis.decr, and the key is deleted if nothing remains. *)
Finish(r) ==
    /\ pc[r] = "answered"
    /\ IF r \in handled
       THEN DecrKey /\ GoTo(r, IF count' <= 0 THEN "delete" ELSE "done")
       ELSE GoTo(r, "done") /\ UNCHANGED <<key, lost>>
    /\ UNCHANGED <<handled, gone, attempts, failures>>

(* redis.del, a command of its own. *)
Delete(r) ==
    /\ pc[r] = "delete"
    /\ RemoveKey
    /\ GoTo(r, "done")
    /\ UNCHANGED <<handled, gone, attempts, failures>>

-----------------------------------------------------------------------------
(***************************************************************************)
(* Failing commands.  In each case Redis may have carried the command out. *)
(***************************************************************************)
AwaitsFinish(r) == pc[r] = "delete" \/ (pc[r] = "answered" /\ r \in handled)

(* Redis carries out the command that the request waits for. *)
CarryOut(r) ==
    \/ pc[r] = "idle" /\ IncrKey
    \/ pc[r] = "expire" /\ ExpireKey
    \/ pc[r] = "rollback" /\ DecrKey
    \/ pc[r] = "answered" /\ r \in handled /\ DecrKey
    \/ pc[r] = "delete" /\ RemoveKey

Fails == failures < MaxFailures /\ failures' = failures + 1

(* The reply is lost with the connection, and the client will send the     *)
(* command again: it is carried out twice.                                 *)
ReplyLost(r) ==
    /\ Fails
    /\ CarryOut(r)
    /\ UNCHANGED <<pc, handled, gone, attempts>>

(* The client gives up: next() is called with no handler registered. *)
RedisFails(r) ==
    /\ pc[r] \in {"idle", "expire", "rollback"}
    /\ Fails
    /\ CarryOut(r) \/ UNCHANGED <<key, lost>>
    /\ GoTo(r, "chain")
    /\ UNCHANGED <<handled, gone, attempts>>

(* It gives up in a 'finish' handler: nothing catches the rejection, and   *)
(* that ends the process with all its requests.                            *)
Crash(r) ==
    /\ AwaitsFinish(r)
    /\ Fails
    /\ CarryOut(r) \/ UNCHANGED <<key, lost>>
    /\ pc' = [q \in Requests |->
                IF Instance[q] = Instance[r] /\ pc[q] \notin {"idle", "refused", "done"}
                THEN "left" ELSE pc[q]]
    /\ UNCHANGED <<handled, gone, attempts>>

-----------------------------------------------------------------------------
(* A response ends the request; without a client 'finish' is not emitted. *)
Ends(r) == GoTo(r, IF r \in gone THEN "left" ELSE "answered")

(* The rate limiter, the JWT check or the vendor check answers.  *)
AnswerEarly(r) ==
    /\ pc[r] = "chain"
    /\ Ends(r)
    /\ UNCHANGED <<key, handled, gone, attempts, lost, failures>>

(* They pass the request on, or the backoff is over: proxy.web. *)
Forward(r) ==
    /\ pc[r] \in {"chain", "backoff"}
    /\ attempts' = [attempts EXCEPT ![r] = @ + 1]
    /\ GoTo(r, "forwarded")
    /\ UNCHANGED <<key, handled, gone, lost, failures>>

(* The service's response, of any status, is passed to the client, or the  *)
(* connection fails in a way that is not retried.                          *)
Respond(r) ==
    /\ pc[r] = "forwarded"
    /\ Ends(r)
    /\ UNCHANGED <<key, handled, gone, attempts, lost, failures>>

MayRetry(r) == attempts[r] <= MaxRetries

(* ECONNREFUSED or ETIMEDOUT, the latter perhaps of a request the service  *)
(* carried out: it is sent again, or the client gets 503.                  *)
ConnectionFails(r) ==
    /\ pc[r] = "forwarded"
    /\ IF MayRetry(r) THEN GoTo(r, "backoff") ELSE Ends(r)
    /\ UNCHANGED <<key, handled, gone, attempts, lost, failures>>

(* The client goes away before its response.  The middlewares and the      *)
(* retries go on without it.                                               *)
ClientLeaves(r) ==
    /\ r \in InFlight \ gone
    /\ gone' = gone \union {r}
    /\ UNCHANGED <<key, pc, handled, attempts, lost, failures>>

Limiter(r) == Incr(r) \/ SetExpiry(r) \/ Rollback(r) \/ Finish(r) \/ Delete(r)
              \/ ReplyLost(r) \/ RedisFails(r) \/ Crash(r)

Proxy(r) ==
    \/ AnswerEarly(r) \/ Forward(r) \/ Respond(r)
    \/ ConnectionFails(r) \/ ClientLeaves(r)

Next == Expire \/ \E r \in Requests : Limiter(r) \/ Proxy(r)

Spec == Init /\ [][Next]_vars

-----------------------------------------------------------------------------
TypeOK ==
    /\ exists \in BOOLEAN /\ ttl \in BOOLEAN
    /\ LET most == Cardinality(Requests) + MaxFailures IN count \in -most .. most
    /\ ~exists => count = 0 /\ ~ttl
    /\ pc \in [Requests -> {"idle", "expire", "rollback", "chain", "forwarded", "backoff",
                            "answered", "delete", "refused", "left", "done"}]
    /\ handled \subseteq Requests
    /\ gone \subseteq Requests
    /\ attempts \in [Requests -> 0 .. MaxRetries + 1]
    /\ lost \in BOOLEAN
    /\ failures \in 0 .. MaxFailures

(***************************************************************************)
(* Phantom places come from failed commands alone, and each leaves at most *)
(* one: an INCR carried out twice, or whose request was let in without a   *)
(* handler, a DECR that was not carried out.  Whatever key expiry, deletes *)
(* and retries do besides, only a request whose client or process went     *)
(* away keeps its place when it is over.                                   *)
(***************************************************************************)
CountsHolders == count <= Cardinality(Holders) + failures

(***************************************************************************)
(* As long as no key was removed under the requests it counted and Redis   *)
(* answers, at most MaxConcurrent requests are served at a time: expiry    *)
(* and the delete after the decrement are the only ways past the limit.    *)
(***************************************************************************)
LimitHolds == ~lost /\ failures = 0 => Cardinality(InFlight) <= MaxConcurrent

(***************************************************************************)
(* As long as no command fails, a counter that clients who left have run   *)
(* up does not refuse forever: it has an expiry, or the request that is to *)
(* set it is on its way.                                                   *)
(***************************************************************************)
NoLockout == failures = 0 /\ count >= 1 => ttl \/ \E r \in Requests : pc[r] = "expire"

(***************************************************************************)
(* As long as no command fails and no key was removed under the requests   *)
(* it counted, the counter is exact: every way a request can end, retries  *)
(* that failed and early answers included, gives its place back once.      *)
(***************************************************************************)
PlacesAreReturned == ~lost /\ failures = 0 => count = Cardinality(Holders)

=============================================================================
