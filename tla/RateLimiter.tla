----------------------------- MODULE RateLimiter -----------------------------
(***************************************************************************)
(* gateway/limiters/rate_limiter.js: a sliding window of request times in  *)
(* a Redis sorted set, read and written by commands of their own.  Each    *)
(* await is a step, and the steps of requests that are in the limiter at   *)
(* the same time interleave, in one gateway process or in several.         *)
(*                                                                         *)
(* Like the concurrency limiter it runs before req.user is set, so the key *)
(* is "rate_limiter:undefined" for everyone and there is one sorted set.   *)
(*                                                                         *)
(* Time is a count of ticks, the same for all processes; now[r] is what    *)
(* Date.now() gave the request when it came, and every command happens at  *)
(* a time of its own.                                                      *)
(***************************************************************************)
EXTENDS Limiters

CONSTANTS
    WINDOW_SIZE, MAX_REQUESTS, MIN_INTERVAL,
    AtOnce,      \* requests the concurrency limiter lets through at a time
    MaxTime      \* bound: the clock stops here

ASSUME WindowAssumption == WINDOW_SIZE \in Nat \ {0} /\ MIN_INTERVAL \in 0 .. WINDOW_SIZE
ASSUME CrowdAssumption == MAX_REQUESTS \in Nat /\ AtOnce \in Nat \ {0}
ASSUME TimeAssumption == MaxTime \in Nat \ {0}

VARIABLES
    clock,
    recorded,  \* the sorted set: the requests whose member is in it
    deadline,  \* when the key expires, 0 if it has no expiry
    now,       \* each request's time, 0 before it comes
    added,     \* history: requests whose ZADD was carried out
    together,  \* history: requests that were in the limiter with another
    forgotten  \* history: the key expired with a member that still counts

windowVars == <<clock, recorded, deadline, pc, now, added, together, forgotten, failures>>

WindowInit ==
    /\ clock = 1
    /\ recorded = {}
    /\ deadline = 0
    /\ pc = [r \in Requests |-> "idle"]
    /\ now = [r \in Requests |-> 0]
    /\ added = {}
    /\ together = {}
    /\ forgotten = FALSE
    /\ failures = 0

InLimiter == {r \in Requests : pc[r] \in {"trim", "read", "add", "expire"}}

(* A sorted set that loses its last member is deleted, with its expiry. *)
Keep(members) ==
    /\ recorded' = members
    /\ deadline' = IF members = {} THEN 0 ELSE deadline

-----------------------------------------------------------------------------
Arrive(r) ==
    /\ pc[r] = "idle"
    /\ Cardinality(InLimiter) < AtOnce
    /\ now' = [now EXCEPT ![r] = clock]
    /\ together' = IF InLimiter = {} THEN together ELSE together \union InLimiter \union {r}
    /\ GoTo(r, "trim")
    /\ UNCHANGED <<clock, recorded, deadline, added, forgotten, failures>>

BugOutdated(r) == {q \in Requests : now[q] < now[r] - WINDOW_SIZE}
Outdated(r) == {q \in Requests : now[q] <= now[r] - WINDOW_SIZE}

(* redis.zremrangebyscore *)
Trim(r) ==
    /\ pc[r] = "trim"
    /\ Keep(recorded \ Outdated(r))
    /\ GoTo(r, "read")
    /\ UNCHANGED <<clock, now, added, together, forgotten, failures>>

BugWindowFull(members) == Cardinality(members) > MAX_REQUESTS
WindowFull(members) == Cardinality(members) >= MAX_REQUESTS

(* Less than MIN_INTERVAL after the latest of them, or before it. *)
TooSoon(r, members) == \E q \in members : now[r] - now[q] < MIN_INTERVAL

(* redis.zrange and the two checks: 429, or on to the next command. *)
Read(r) ==
    /\ pc[r] = "read"
    /\ GoTo(r, IF WindowFull(recorded) \/ TooSoon(r, recorded) THEN "refused" ELSE "add")
    /\ UNCHANGED <<clock, recorded, deadline, now, added, together, forgotten, failures>>

Record(r) ==
    /\ recorded' = recorded \union {r}
    /\ added' = added \union {r}

(* redis.zadd *)
Add(r) ==
    /\ pc[r] = "add"
    /\ Record(r)
    /\ GoTo(r, "expire")
    /\ UNCHANGED <<clock, deadline, now, together, forgotten, failures>>

BugExpiry == deadline
Expiry == IF recorded # {} THEN clock + WINDOW_SIZE ELSE 0

(* redis.pexpire, which does nothing to a key that is gone; then next(). *)
RenewExpiry(r) ==
    /\ pc[r] = "expire"
    /\ deadline' = Expiry
    /\ GoTo(r, "passed")
    /\ UNCHANGED <<clock, recorded, now, added, together, forgotten, failures>>

(* A command fails, or it is carried out and its reply is lost: 500. *)
CommandFails(r) ==
    /\ r \in InLimiter
    /\ failures < MaxFailures
    /\ failures' = failures + 1
    /\ \/ UNCHANGED <<recorded, deadline, added>>
       \/ pc[r] = "trim" /\ Keep(recorded \ Outdated(r)) /\ UNCHANGED added
       \/ pc[r] = "add" /\ Record(r) /\ UNCHANGED deadline
       \/ pc[r] = "expire" /\ deadline' = Expiry /\ UNCHANGED <<recorded, added>>
    /\ GoTo(r, "failed")
    /\ UNCHANGED <<clock, now, together, forgotten>>

(* In the window of the present, or of a request that is in the limiter. *)
StillCounts(q) ==
    \E t \in {clock + 1} \union {now[r] : r \in InLimiter} : now[q] > t - WINDOW_SIZE

(* Time passes, and the key is gone when its expiry has come. *)
Tick ==
    /\ clock < MaxTime
    /\ clock' = clock + 1
    /\ IF deadline = clock'
       THEN /\ Keep({})
            /\ forgotten' = (forgotten \/ \E q \in recorded : StillCounts(q))
       ELSE UNCHANGED <<recorded, deadline, forgotten>>
    /\ UNCHANGED <<pc, now, added, together, failures>>

Limit(r) == Arrive(r) \/ Trim(r) \/ Read(r) \/ Add(r) \/ RenewExpiry(r) \/ CommandFails(r)

WindowNext == Tick \/ \E r \in Requests : Limit(r)

WindowSpec == WindowInit /\ [][WindowNext]_windowVars

-----------------------------------------------------------------------------
WindowTypeOK ==
    /\ clock \in 1 .. MaxTime
    /\ recorded \subseteq added /\ added \subseteq Requests
    /\ deadline \in 0 .. MaxTime + WINDOW_SIZE
    /\ pc \in [Requests -> {"idle", "trim", "read", "add", "expire", "refused", "passed",
                            "failed"}]
    /\ now \in [Requests -> 0 .. MaxTime]
    /\ together \subseteq Requests
    /\ forgotten \in BOOLEAN
    /\ failures \in 0 .. MaxFailures

Passed == {r \in Requests : pc[r] = "passed"}

(***************************************************************************)
(* Requests that are in the limiter together all count before any of them  *)
(* is added, and one that stalls there until others have trimmed the set   *)
(* counts what is left.  As long as no expiry forgot a member, that is all *)
(* there is: a window lets at most the limit through, and twice the other  *)
(* requests the concurrency limiter lets in at a time.                     *)
(***************************************************************************)
WindowBound ==
    ~forgotten =>
        \A t \in 0 .. MaxTime :
            Cardinality({r \in Passed : now[r] \in t + 1 .. t + WINDOW_SIZE})
                <= MAX_REQUESTS + 2 * (AtOnce - 1)

Busy(r) ==
    \/ Cardinality({q \in added : now[q] > now[r] - WINDOW_SIZE}) >= MAX_REQUESTS
    \/ \E q \in added : now[r] - now[q] < MIN_INTERVAL

(***************************************************************************)
(* A request that no other met in the limiter is judged as by an ideal     *)
(* limiter that remembers every time: it is refused only if MAX_REQUESTS   *)
(* were recorded in its window or one in the minimum interval, and let on  *)
(* only if not, unless an expiry forgot one.  A refused request is not     *)
(* recorded, so asking again and again does not prolong a refusal.         *)
(***************************************************************************)
AloneIsExact ==
    [][\A r \in Requests : pc[r] = "read" /\ r \notin together =>
          /\ pc'[r] = "refused" => Busy(r)
          /\ pc'[r] = "add" /\ ~forgotten => ~Busy(r)]_windowVars

(***************************************************************************)
(* The key does not stay in Redis for ever: as long as Redis answers, it   *)
(* has an expiry or the request that is to set it is on its way, though    *)
(* trimming and expiry remove the key, and its expiry, under requests.     *)
(***************************************************************************)
KeyExpires ==
    failures = 0 /\ recorded # {} => deadline > clock \/ \E r \in Requests : pc[r] = "expire"

=============================================================================
