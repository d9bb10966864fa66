--------------------------- MODULE Gateway_proofs ---------------------------
(***************************************************************************)
(* Proofs about Gateway, for all requests, instances and limits:           *)
(* what the shared counter counts, who keeps a place in it, that it is     *)
(* not left without an expiry, that the limit holds, and how often the     *)
(* proxy sends a request; and about RateLimiter, the next in the chain,    *)
(* how many requests a window lets through.                                *)
(***************************************************************************)
EXTENDS Gateway, RateLimiter, FiniteSetTheorems, TLAPS

Steps == {"idle", "expire", "rollback", "chain", "forwarded", "backoff", "answered", "delete",
          "refused", "left", "done"}

(* Types, but for the ranges of count and attempts. *)
Shape ==
    /\ exists \in BOOLEAN /\ ttl \in BOOLEAN /\ lost \in BOOLEAN
    /\ count \in Int
    /\ ~exists => count = 0 /\ ~ttl
    /\ pc \in [Requests -> Steps]
    /\ handled \subseteq Requests /\ gone \subseteq Requests
    /\ failures \in 0 .. MaxFailures

(* While no command fails, every request that is passed on has its handler. *)
Handled == failures = 0 =>
    \A r \in Requests : pc[r] \in {"chain", "forwarded", "backoff", "answered"} => r \in handled

(* Those the limiter let in, the one that is to set the expiry included. *)
LetIn == {r \in Requests : pc[r] \in {"expire", "chain", "forwarded", "backoff"}}

Limited == ~lost /\ failures = 0 => Cardinality(LetIn) <= MaxConcurrent

(* Every decrement is of a request of its own, or of a failed command. *)
Ended == {r \in Requests : pc[r] \in {"delete", "refused", "left", "done"}}

Bounded == count >= -Cardinality(Ended) - failures

(* A request is sent again only MaxRetries times. *)
Retried ==
    /\ attempts \in [Requests -> 0 .. MaxRetries + 1]
    /\ \A r \in Requests :
          /\ pc[r] \in {"idle", "expire", "rollback", "chain"} => attempts[r] = 0
          /\ pc[r] = "backoff" => attempts[r] <= MaxRetries

IInv == /\ Shape /\ Handled /\ CountsHolders /\ PlacesAreReturned /\ NoLockout
        /\ Limited /\ Bounded /\ Retried

-----------------------------------------------------------------------------
(* What a request's step does to pc. *)
LEMMA Moves ==
    ASSUME Shape, NEW r \in Requests, NEW to \in Steps, GoTo(r, to)
    PROVE  /\ pc' \in [Requests -> Steps]
           /\ \A q \in Requests : pc'[q] = IF q = r THEN to ELSE pc[q]
BY DEF Shape, GoTo

(* Sizes of sets of requests. *)
LEMMA Sizes ==
    ASSUME NEW S, S \subseteq Requests
    PROVE  /\ Cardinality(S) \in Nat
           /\ \A T : T \subseteq S => Cardinality(T) \in Nat /\ Cardinality(T) <= Cardinality(S)
           /\ \A r \in Requests :
                 /\ Cardinality(S \union {r}) = IF r \in S THEN Cardinality(S) ELSE Cardinality(S) + 1
                 /\ Cardinality(S \ {r}) = IF r \in S THEN Cardinality(S) - 1 ELSE Cardinality(S)
<1>1. IsFiniteSet(S)
  BY RequestsAssumption, FS_Subset
<1>2. Cardinality(S) \in Nat
  BY <1>1, FS_CardinalityType
<1>3. ASSUME NEW T, T \subseteq S
      PROVE  Cardinality(T) \in Nat /\ Cardinality(T) <= Cardinality(S)
  <2>1. IsFiniteSet(T)
    BY <1>1, <1>3, FS_Subset
  <2> QED
    BY <1>1, <1>3, <2>1, FS_Subset, FS_CardinalityType
<1>4. ASSUME NEW r \in Requests
      PROVE  /\ Cardinality(S \union {r}) = IF r \in S THEN Cardinality(S) ELSE Cardinality(S) + 1
             /\ Cardinality(S \ {r}) = IF r \in S THEN Cardinality(S) - 1 ELSE Cardinality(S)
  BY <1>1, FS_AddElement, FS_RemoveElement
<1> QED
  BY <1>2, <1>3, <1>4

(* The key after the commands that change it. *)
LEMMA KeyRemoved ==
    ASSUME Shape, RemoveKey
    PROVE  /\ exists' \in BOOLEAN /\ ttl' \in BOOLEAN /\ lost' \in BOOLEAN
           /\ ~exists' /\ ~ttl' /\ count' = 0
           /\ ~lost' => ~lost /\ Holders = {}
<1>1. exists' = FALSE /\ ttl' = FALSE /\ lost' = (lost \/ Holders # {}) /\ count' = 0
  BY DEF RemoveKey
<1>2. lost' \in BOOLEAN
  BY <1>1, Zenon
<1>3. ~lost' => ~lost /\ Holders = {}
  BY <1>1, Zenon
<1> QED
  BY <1>1, <1>2, <1>3, Zenon

(* INCR and DECR change the counter by one. *)
LEMMA KeyCounted ==
    ASSUME Shape, IncrKey \/ DecrKey
    PROVE  /\ exists' \in BOOLEAN /\ exists' /\ ttl' \in BOOLEAN /\ lost' \in BOOLEAN
           /\ UNCHANGED <<ttl, lost>> /\ count' \in Int
           /\ IncrKey => count' = count + 1
           /\ DecrKey => count' = count - 1
<1>1. /\ exists' = TRUE /\ UNCHANGED <<ttl, lost>>
      /\ IncrKey => count' = count + 1
      /\ DecrKey => count' = count - 1
  BY DEF IncrKey, DecrKey
<1>2. count' \in Int
  BY <1>1 DEF Shape
<1>3. exists' \in BOOLEAN /\ exists' /\ ttl' \in BOOLEAN /\ lost' \in BOOLEAN
  BY <1>1, Zenon DEF Shape
<1> QED
  BY <1>1, <1>2, <1>3

(* PEXPIRE leaves the counter alone. *)
LEMMA KeyExpiring ==
    ASSUME Shape, ExpireKey
    PROVE  /\ exists' \in BOOLEAN /\ ttl' \in BOOLEAN /\ lost' \in BOOLEAN
           /\ UNCHANGED <<exists, count, lost>>
           /\ ~exists' => ~ttl'
<1>1. ttl' = exists /\ UNCHANGED <<exists, count, lost>>
  BY DEF ExpireKey
<1>2. exists' \in BOOLEAN /\ ttl' \in BOOLEAN /\ lost' \in BOOLEAN /\ (~exists' => ~ttl')
  BY <1>1, Zenon DEF Shape
<1> QED
  BY <1>1, <1>2

(* A command whose reply is lost keeps the key in order and counts at most *)
(* one request more, and that only if it is an INCR.                       *)
LEMMA KeyCarriedOut ==
    ASSUME Shape, NEW r \in Requests, CarryOut(r) \/ UNCHANGED <<key, lost>>
    PROVE  /\ exists' \in BOOLEAN /\ ttl' \in BOOLEAN /\ lost' \in BOOLEAN
           /\ count' \in Int
           /\ ~exists' => count' = 0 /\ ~ttl'
           /\ count' <= count + 1 \/ count' = 0
           /\ count' >= count - 1 \/ count' = 0
           /\ pc[r] # "idle" => count' <= count \/ count' = 0
<1>1. CASE pc[r] = "idle" /\ IncrKey
  BY <1>1, KeyCounted DEF Shape
<1>2. CASE pc[r] = "expire" /\ ExpireKey
  BY <1>2, KeyExpiring DEF Shape
<1>3. CASE pc[r] # "idle" /\ DecrKey
  BY <1>3, KeyCounted DEF Shape
<1>4. CASE pc[r] = "delete" /\ RemoveKey
  BY <1>4, KeyRemoved DEF Shape
<1>5. CASE UNCHANGED <<key, lost>>
  BY <1>5 DEF Shape, key
<1> QED
  BY <1>1, <1>2, <1>3, <1>4, <1>5 DEF CarryOut

-----------------------------------------------------------------------------
(***************************************************************************)
(* The inductive invariant, one part after the other.                      *)
(***************************************************************************)
LEMMA InitHolds == Init => IInv
<1> SUFFICES ASSUME Init
             PROVE  IInv
  OBVIOUS
<1>1. Cardinality({}) = 0
  BY FS_EmptySet
<1>2. Shape /\ Handled /\ NoLockout /\ Retried
  <2>1. exists \in BOOLEAN /\ ttl \in BOOLEAN /\ lost \in BOOLEAN /\ ~ttl /\ ~lost /\ count = 0
    BY Zenon DEF Init
  <2> QED
    BY <2>1, RetriesAssumption, FailuresAssumption DEF Init, Shape, Handled, NoLockout, Retried, Steps
<1>3. Ended = {} /\ LetIn = {} /\ Holders = {}
  BY DEF Init, Ended, LetIn, Holders
<1>4. CountsHolders /\ PlacesAreReturned /\ Bounded
  BY <1>1, <1>3 DEF Init, CountsHolders, PlacesAreReturned, Bounded
<1>5. Limited
  BY <1>1, <1>3, LimitAssumption DEF Limited
<1> QED
  BY <1>2, <1>4, <1>5 DEF IInv

(* Every step keeps the types. *)
LEMMA ShapeStep == ASSUME IInv, Next PROVE Shape'
<1>0. Shape /\ MaxFailures \in Nat
  BY FailuresAssumption DEF IInv
<1>1. CASE Expire
  BY <1>0, <1>1, KeyRemoved DEF Shape, Expire
<1>2. ASSUME NEW r \in Requests, Limiter(r)
      PROVE  Shape'
  <2>1. CASE Incr(r)
    BY <1>0, <2>1, KeyCounted DEF Shape, Incr, Admit, GoTo, Steps
  <2>2. CASE SetExpiry(r)
    BY <1>0, <2>2, KeyExpiring DEF Shape, SetExpiry, Admit, GoTo, Steps
  <2>3. CASE Rollback(r)
    BY <1>0, <2>3, KeyCounted DEF Shape, Rollback, TakeBack, GoTo, Steps
  <2>4. CASE ReplyLost(r)
    BY <1>0, <2>4, KeyCarriedOut DEF Shape, ReplyLost, Fails
  <2>5. CASE RedisFails(r)
    BY <1>0, <2>5, KeyCarriedOut DEF Shape, RedisFails, Fails, GoTo, Steps
  <2>6. CASE Finish(r)
    BY <1>0, <2>6, KeyCounted DEF Shape, Finish, GoTo, Steps, key
  <2>7. CASE Delete(r)
    BY <1>0, <2>7, KeyRemoved DEF Shape, Delete, GoTo, Steps
  <2>8. CASE Crash(r)
    BY <1>0, <2>8, KeyCarriedOut DEF Shape, Crash, Fails, Steps
  <2> QED
    BY <1>2, <2>1, <2>2, <2>3, <2>4, <2>5, <2>6, <2>7, <2>8 DEF Limiter
<1>3. ASSUME NEW r \in Requests, Proxy(r)
      PROVE  Shape'
  BY <1>0, <1>3 DEF Shape, Proxy, AnswerEarly, Forward, Respond, ConnectionFails, ClientLeaves,
                    Ends, InFlight, GoTo, Steps, key
<1> QED
  BY <1>1, <1>2, <1>3 DEF Next

(* The handler is registered in the step that passes a request on. *)
LEMMA HandledStep == ASSUME IInv, Next PROVE Handled'
<1>0. Shape /\ Handled /\ failures \in Nat /\ pc \in [Requests -> Steps]
  BY FailuresAssumption DEF IInv, Shape
<1> SUFFICES ASSUME failures' = 0
             PROVE  Handled'
  BY DEF Handled
<1>1. CASE Expire
  BY <1>0, <1>1 DEF Expire, Handled
<1>2. ASSUME NEW r \in Requests, Limiter(r)
      PROVE  Handled'
  <2>1. ~ReplyLost(r) /\ ~RedisFails(r) /\ ~Crash(r)
    BY <1>0 DEF ReplyLost, RedisFails, Crash, Fails
  <2> QED
    BY <1>0, <1>2, <2>1
       DEF Limiter, Incr, SetExpiry, Rollback, Finish, Delete, Admit, GoTo, Handled
<1>3. ASSUME NEW r \in Requests, Proxy(r)
      PROVE  Handled'
  BY <1>0, <1>3 DEF Proxy, AnswerEarly, Forward, Respond, ConnectionFails, ClientLeaves,
                    Ends, GoTo, Handled
<1> QED
  BY <1>1, <1>2, <1>3 DEF Next

(* A place is taken with the increment and given back by whatever ends the *)
(* request; a failed command leaves at most one behind.                    *)
LEMMA CountStep == ASSUME IInv, Next PROVE CountsHolders' /\ PlacesAreReturned'
<1>0. /\ Shape /\ Handled /\ CountsHolders /\ PlacesAreReturned
      /\ count \in Int /\ count' \in Int /\ failures \in Nat /\ failures' \in Nat
      /\ pc \in [Requests -> Steps]
  BY ShapeStep, FailuresAssumption DEF IInv, Shape
<1>1. Holders \subseteq Requests /\ Holders' \subseteq Requests
  BY DEF Holders
<1>2. /\ Cardinality(Holders) \in Nat /\ Cardinality(Holders') \in Nat /\ Cardinality({}) = 0
      /\ Holders \subseteq Holders' => Cardinality(Holders) <= Cardinality(Holders')
      /\ \A r \in Requests :
            /\ r \notin Holders => Cardinality(Holders \union {r}) = Cardinality(Holders) + 1
            /\ r \in Holders => Cardinality(Holders \ {r}) = Cardinality(Holders) - 1
            /\ Holders \ {r} \subseteq Holders' => Cardinality(Holders') >= Cardinality(Holders) - 1
  <2>1. ASSUME NEW r \in Requests, Holders \ {r} \subseteq Holders'
        PROVE  Cardinality(Holders') >= Cardinality(Holders) - 1
    <3>1. Cardinality(Holders \ {r}) <= Cardinality(Holders')
      BY <1>1, <2>1, Sizes
    <3>2. Cardinality(Holders \ {r}) >= Cardinality(Holders) - 1
      BY <1>1, Sizes
    <3>3. Cardinality(Holders \ {r}) \in Nat
      BY <1>1, Sizes
    <3> QED
      BY <1>1, <3>1, <3>2, <3>3, Sizes
  <2> QED
    BY <1>1, <2>1, Sizes, FS_EmptySet
<1>3. ASSUME RemoveKey, Holders' = Holders, UNCHANGED failures
      PROVE  CountsHolders' /\ PlacesAreReturned'
  <2>1. count' = 0 /\ (~lost' => Holders = {})
    BY <1>0, <1>3, KeyRemoved
  <2>2. Cardinality(Holders)' = Cardinality(Holders)
    BY <1>3
  <2> QED
    BY <1>0, <1>2, <1>3, <2>1, <2>2 DEF CountsHolders, PlacesAreReturned
<1>4. ASSUME failures' = failures + 1, Holders \subseteq Holders',
             count' <= count + 1 \/ count' = 0
      PROVE  CountsHolders' /\ PlacesAreReturned'
  BY <1>0, <1>2, <1>4 DEF CountsHolders, PlacesAreReturned
<1>5. CASE Expire
  <2>1. Holders' = Holders
    BY <1>5 DEF Expire, Holders
  <2> QED
    BY <1>3, <1>5, <2>1 DEF Expire
<1>6. ASSUME NEW r \in Requests, Limiter(r)
      PROVE  CountsHolders' /\ PlacesAreReturned'
  <2>1. CASE Incr(r)
    <3>1. r \notin Holders /\ Holders' = Holders \union {r}
      BY <1>0, <2>1 DEF Incr, Admit, GoTo, Holders, Shape
    <3>2. count' = count + 1 /\ UNCHANGED <<lost, failures>>
      BY <1>0, <2>1, KeyCounted DEF Incr
    <3> QED
      BY <1>0, <1>2, <3>1, <3>2 DEF CountsHolders, PlacesAreReturned
  <2>2. CASE SetExpiry(r)
    <3>1. Holders' = Holders
      BY <1>0, <2>2 DEF SetExpiry, Admit, GoTo, Holders, Shape
    <3>2. UNCHANGED <<count, lost, failures>>
      BY <1>0, <2>2, KeyExpiring DEF SetExpiry
    <3> QED
      BY <1>0, <3>1, <3>2 DEF CountsHolders, PlacesAreReturned
  <2>3. ASSUME DecrKey, r \in Holders, Holders' = Holders \ {r}, UNCHANGED failures
        PROVE  CountsHolders' /\ PlacesAreReturned'
    <3>1. count' = count - 1 /\ UNCHANGED lost
      BY <1>0, <2>3, KeyCounted
    <3> QED
      BY <1>0, <1>2, <2>3, <3>1 DEF CountsHolders, PlacesAreReturned
  <2>4. CASE Rollback(r)
    <3>1. r \in Holders /\ Holders' = Holders \ {r}
      BY <1>0, <2>4 DEF Rollback, GoTo, Holders
    <3> QED
      BY <2>3, <2>4, <3>1 DEF Rollback, TakeBack
  <2>5. CASE Finish(r) /\ r \in handled
    <3>1. r \in Holders /\ Holders' = Holders \ {r}
      BY <1>0, <2>5 DEF Finish, GoTo, Holders
    <3> QED
      BY <2>3, <2>5, <3>1 DEF Finish
  <2>6. CASE Finish(r) /\ r \notin handled
    <3>1. Holders' = Holders /\ UNCHANGED <<count, lost, failures>>
      BY <1>0, <2>6 DEF Finish, GoTo, Holders, key
    <3> QED
      BY <1>0, <3>1 DEF CountsHolders, PlacesAreReturned
  <2>7. CASE Delete(r)
    <3>1. Holders' = Holders
      BY <1>0, <2>7 DEF Delete, GoTo, Holders
    <3> QED
      BY <1>3, <2>7, <3>1 DEF Delete
  <2>8. CASE ReplyLost(r)
    <3>1. Holders' = Holders
      BY <2>8 DEF ReplyLost, Holders
    <3> QED
      BY <1>0, <1>4, <2>8, <3>1, KeyCarriedOut DEF ReplyLost, Fails
  <2>9. CASE RedisFails(r)
    <3>1. failures' = failures + 1 /\ (CarryOut(r) \/ UNCHANGED <<key, lost>>)
      BY <2>9 DEF RedisFails, Fails
    <3>2. CASE pc[r] = "idle"
      <4>1. Holders \subseteq Holders'
        BY <1>0, <2>9, <3>2 DEF RedisFails, GoTo, Holders
      <4> QED
        BY <1>0, <1>4, <3>1, <4>1, KeyCarriedOut
    <3>3. CASE pc[r] # "idle"
      <4>1. Holders \ {r} \subseteq Holders'
        BY <1>0, <2>9 DEF RedisFails, GoTo, Holders
      <4>2. count' <= count \/ count' = 0
        BY <1>0, <3>1, <3>3, KeyCarriedOut
      <4>3. Cardinality(Holders') >= Cardinality(Holders) - 1
        BY <1>2, <4>1
      <4> QED
        BY <1>0, <1>2, <3>1, <4>2, <4>3 DEF CountsHolders, PlacesAreReturned
    <3> QED
      BY <3>2, <3>3
  <2>10. CASE Crash(r)
    <3>1. Holders \subseteq Holders'
      BY <1>0, <2>10 DEF Crash, Holders
    <3> QED
      BY <1>0, <1>4, <2>10, <3>1, KeyCarriedOut DEF Crash, Fails
  <2> QED
    BY <1>6, <2>1, <2>2, <2>4, <2>5, <2>6, <2>7, <2>8, <2>9, <2>10 DEF Limiter
<1>7. ASSUME NEW r \in Requests, Proxy(r)
      PROVE  CountsHolders' /\ PlacesAreReturned'
  <2>1. UNCHANGED <<count, lost, failures>>
    BY <1>7 DEF Proxy, AnswerEarly, Forward, Respond, ConnectionFails, ClientLeaves, key
  <2>2. Holders \subseteq Holders'
    BY <1>0, <1>7 DEF Proxy, AnswerEarly, Forward, Respond, ConnectionFails, ClientLeaves,
                      Ends, GoTo, Holders
  <2>3. failures = 0 => Holders' = Holders
    BY <1>0, <1>7 DEF Proxy, AnswerEarly, Forward, Respond, ConnectionFails, ClientLeaves,
                      Ends, GoTo, Holders, Handled
  <2> QED
    BY <1>0, <1>2, <2>1, <2>2, <2>3 DEF CountsHolders, PlacesAreReturned
<1> QED
  BY <1>5, <1>6, <1>7 DEF Next

(* Only the increment makes the counter positive again, and then its       *)
(* request is the one to set the expiry.                                   *)
LEMMA LockoutStep == ASSUME IInv, Next PROVE NoLockout'
<1>0. Shape /\ NoLockout /\ failures \in Nat
  BY RetriesAssumption, FailuresAssumption DEF IInv, Shape
<1>1. failures' >= failures
  BY <1>0 DEF Next, Expire, Limiter, Proxy, Incr, SetExpiry, Rollback, ReplyLost, RedisFails,
              Finish, Delete, Crash, Fails, AnswerEarly, Forward, Respond, ConnectionFails,
              ClientLeaves
<1> SUFFICES ASSUME failures' = 0, count' >= 1
             PROVE  ttl' \/ \E r \in Requests : pc'[r] = "expire"
  BY DEF NoLockout
<1>2. failures = 0 /\ pc \in [Requests -> Steps] /\ count \in Int
  BY <1>0, <1>1 DEF Shape
<1>3. ASSUME RemoveKey
      PROVE  FALSE
  BY <1>0, <1>3, KeyRemoved
<1>4. count' >= 1 /\ count' \in Int
  BY ShapeStep DEF Shape
<1>5. ASSUME NEW r \in Requests, pc[r] # "expire", count' <= count, UNCHANGED ttl,
             \A q \in Requests : q # r => pc'[q] = pc[q]
      PROVE  ttl' \/ \E q \in Requests : pc'[q] = "expire"
  <2>1. count >= 1
    BY <1>2, <1>5, <1>4
  <2>2. CASE ttl
    BY <1>5, <2>2, Zenon
  <2>3. CASE \E q \in Requests : pc[q] = "expire"
    BY <1>5, <2>3
  <2> QED
    BY <1>0, <1>2, <2>1, <2>2, <2>3 DEF NoLockout
<1>6. ASSUME NEW r \in Requests, Limiter(r)
      PROVE  ttl' \/ \E q \in Requests : pc'[q] = "expire"
  <2>1. CASE Incr(r)
    <3>1. count' = count + 1 /\ ttl' = ttl /\ pc[r] = "idle"
      BY <1>0, <2>1, KeyCounted DEF Incr
    <3>2. CASE count' = 1
      BY <1>2, <2>1, <3>2 DEF Incr, First, GoTo
    <3>3. CASE count' # 1
      <4>1. count >= 1
        BY <1>2, <3>1, <3>3
      <4>2. \A q \in Requests : q # r => pc'[q] = pc[q]
        BY <1>2, <2>1 DEF Incr, Admit, GoTo
      <4>3. CASE ttl
        BY <3>1, <4>3, Zenon
      <4>4. CASE \E q \in Requests : pc[q] = "expire"
        BY <3>1, <4>2, <4>4
      <4> QED
        BY <1>0, <1>2, <4>1, <4>3, <4>4 DEF NoLockout
    <3> QED
      BY <3>2, <3>3
  <2>2. CASE SetExpiry(r)
    <3>1. ttl' = exists /\ count' = count
      BY <2>2 DEF SetExpiry, ExpireKey
    <3>2. exists
      BY <1>0, <3>1 DEF Shape
    <3> QED
      BY <3>1, <3>2, Zenon
  <2>3. DecrKey => count' <= count /\ UNCHANGED ttl
    BY <1>0, <1>2, KeyCounted
  <2>4. CASE Rollback(r)
    BY <1>2, <1>5, <2>3, <2>4 DEF Rollback, TakeBack, GoTo
  <2>5. CASE Finish(r)
    <3>1. count' <= count /\ UNCHANGED ttl /\ pc[r] = "answered"
      BY <1>2, <2>3, <2>5 DEF Finish, key
    <3>2. \A q \in Requests : q # r => pc'[q] = pc[q]
      BY <1>2, <2>5 DEF Finish, GoTo
    <3> QED
      BY <1>5, <3>1, <3>2
  <2>6. CASE Delete(r)
    BY <1>3, <2>6 DEF Delete
  <2>7. ~ReplyLost(r) /\ ~RedisFails(r) /\ ~Crash(r)
    BY <1>0, <1>2 DEF ReplyLost, RedisFails, Crash, Fails
  <2> QED
    BY <1>6, <2>1, <2>2, <2>4, <2>5, <2>6, <2>7 DEF Limiter
<1>7. ASSUME NEW r \in Requests, Proxy(r)
      PROVE  ttl' \/ \E q \in Requests : pc'[q] = "expire"
  <2>1. UNCHANGED <<count, ttl>> /\ pc[r] # "expire"
    BY <1>7 DEF Proxy, AnswerEarly, Forward, Respond, ConnectionFails, ClientLeaves, InFlight, key
  <2>2. \A q \in Requests : q # r => pc'[q] = pc[q]
    BY <1>2, <1>7 DEF Proxy, AnswerEarly, Forward, Respond, ConnectionFails, ClientLeaves, Ends,
                      GoTo
  <2> QED
    BY <1>2, <1>5, <2>1, <2>2
<1> QED
  BY <1>3, <1>6, <1>7 DEF Next, Expire

(* Only the increment lets a request in, and only within the limit.        *)
LEMMA LimitStep == ASSUME IInv, Next PROVE Limited'
<1>0. Shape /\ Limited /\ failures \in Nat /\ pc \in [Requests -> Steps]
  BY RetriesAssumption, FailuresAssumption DEF IInv, Shape
<1>1. failures' >= failures /\ (~lost' => ~lost)
  <2>1. RemoveKey => (~lost' => ~lost)
    BY <1>0, KeyRemoved
  <2>2. ASSUME NEW r \in Requests
        PROVE  CarryOut(r) => (~lost' => ~lost)
    BY <2>1 DEF CarryOut, IncrKey, DecrKey, ExpireKey
  <2> QED
    BY <1>0, <2>1, <2>2
       DEF Next, Expire, Limiter, Proxy, Incr, SetExpiry, Rollback, ReplyLost, RedisFails, Finish,
           Delete, Crash, Fails, TakeBack, IncrKey, DecrKey, ExpireKey, AnswerEarly, Forward,
           Respond, ConnectionFails, ClientLeaves
<1> SUFFICES ASSUME failures' = 0, ~lost'
             PROVE  Cardinality(LetIn') <= MaxConcurrent
  BY DEF Limited
<1>2. failures = 0 /\ ~lost /\ LetIn \subseteq Requests /\ Cardinality(LetIn) <= MaxConcurrent
  BY <1>0, <1>1 DEF Limited, LetIn
<1>3. ASSUME LetIn' \subseteq LetIn
      PROVE  Cardinality(LetIn') <= MaxConcurrent
  <2>1. Cardinality(LetIn') <= Cardinality(LetIn) /\ Cardinality(LetIn') \in Nat
    BY <1>2, <1>3, Sizes
  <2> QED
    BY <1>2, <2>1, Sizes, LimitAssumption
<1>4. ASSUME NEW r \in Requests, Incr(r)
      PROVE  Cardinality(LetIn') <= MaxConcurrent
  <2>1. CASE count' <= MaxConcurrent
    <3>1. count' = Cardinality(Holders')
      BY CountStep DEF PlacesAreReturned
    <3>2. LetIn' \subseteq Holders' /\ Holders' \subseteq Requests
      BY HandledStep DEF Handled, LetIn, Holders
    <3>3. Cardinality(LetIn') <= Cardinality(Holders') /\ Cardinality(LetIn') \in Nat
             /\ Cardinality(Holders') \in Nat
      BY <3>2, Sizes
    <3> QED
      BY <2>1, <3>1, <3>3, LimitAssumption
  <2>2. CASE ~(count' <= MaxConcurrent)
    <3>1. count' # 1 /\ count' > MaxConcurrent
      BY <2>2, ShapeStep, LimitAssumption DEF Shape
    <3>2. GoTo(r, "rollback")
      BY <1>4, <3>1 DEF Incr, First, OverLimit
    <3>3. LetIn' \subseteq LetIn
      BY <1>0, <3>2 DEF GoTo, LetIn
    <3> QED
      BY <1>3, <3>3
  <2> QED
    BY <2>1, <2>2
<1>5. ASSUME NEW r \in Requests, Limiter(r), ~Incr(r)
      PROVE  LetIn' \subseteq LetIn
  <2>1. ~ReplyLost(r) /\ ~RedisFails(r) /\ ~Crash(r)
    BY <1>0, <1>2 DEF ReplyLost, RedisFails, Crash, Fails
  <2> QED
    BY <1>0, <1>5, <2>1
       DEF Limiter, SetExpiry, Rollback, Finish, Delete, Admit, GoTo, LetIn
<1>6. ASSUME NEW r \in Requests, Proxy(r)
      PROVE  LetIn' \subseteq LetIn
  BY <1>0, <1>6 DEF Proxy, AnswerEarly, Forward, Respond, ConnectionFails, ClientLeaves, Ends,
                    GoTo, LetIn
<1>7. CASE Expire
  BY <1>3, <1>7 DEF Expire, LetIn
<1> QED
  BY <1>3, <1>4, <1>5, <1>6, <1>7 DEF Next

(* Each decrement is paid for by a request that ended or by a failure. *)
LEMMA BoundStep == ASSUME IInv, Next PROVE Bounded'
<1>0. /\ Shape /\ Bounded /\ count \in Int /\ count' \in Int /\ pc \in [Requests -> Steps]
      /\ failures \in Nat /\ failures' \in Nat
  BY ShapeStep, FailuresAssumption DEF IInv, Shape
<1>1. Ended \subseteq Requests /\ Ended' \subseteq Requests
  BY DEF Ended
<1>2. /\ Cardinality(Ended) \in Nat /\ Cardinality(Ended') \in Nat
      /\ Ended \subseteq Ended' => Cardinality(Ended) <= Cardinality(Ended')
  BY <1>1, Sizes
<1>3. Ended \subseteq Ended'
  BY <1>0 DEF Next, Expire, Limiter, Proxy, Incr, SetExpiry, Rollback, ReplyLost, RedisFails, Finish,
              Delete, Crash, AnswerEarly, Forward, Respond, ConnectionFails, ClientLeaves, Ends,
              Admit, GoTo, Ended
<1>4. ASSUME count' >= count \/ count' = 0, failures' >= failures
      PROVE  Bounded'
  BY <1>0, <1>2, <1>3, <1>4 DEF Bounded
<1>5. ASSUME NEW r \in Requests, DecrKey, r \notin Ended, r \in Ended', UNCHANGED failures
      PROVE  Bounded'
  <2>1. count' = count - 1
    BY <1>0, <1>5, KeyCounted
  <2>2. Cardinality(Ended \union {r}) = Cardinality(Ended) + 1
    BY <1>1, <1>5, Sizes
  <2>3. Ended \union {r} \subseteq Ended'
    BY <1>3, <1>5
  <2>4. Cardinality(Ended \union {r}) <= Cardinality(Ended')
    BY <1>1, <2>3, Sizes
  <2> QED
    BY <1>0, <1>2, <1>5, <2>1, <2>2, <2>4 DEF Bounded
<1>6. ASSUME NEW r \in Requests, Fails, CarryOut(r) \/ UNCHANGED <<key, lost>>
      PROVE  Bounded'
  BY <1>0, <1>2, <1>3, <1>6, KeyCarriedOut DEF Bounded, Fails
<1>7. RemoveKey => count' = 0
  BY DEF RemoveKey
<1>8. ASSUME NEW r \in Requests, Limiter(r)
      PROVE  Bounded'
  <2>1. CASE Rollback(r)
    <3>1. DecrKey /\ r \notin Ended /\ r \in Ended' /\ UNCHANGED failures
      BY <1>0, <2>1 DEF Rollback, TakeBack, GoTo, Ended
    <3> QED
      BY <1>5, <3>1
  <2>2. CASE Finish(r) /\ r \in handled
    <3>1. DecrKey /\ r \notin Ended /\ r \in Ended' /\ UNCHANGED failures
      BY <1>0, <2>2 DEF Finish, GoTo, Ended
    <3> QED
      BY <1>5, <3>1
  <2>3. CASE Finish(r) /\ r \notin handled
    BY <1>0, <1>4, <2>3 DEF Finish, key
  <2>4. CASE Incr(r) \/ SetExpiry(r)
    BY <1>0, <1>4, <2>4 DEF Incr, SetExpiry, IncrKey, ExpireKey
  <2>5. CASE Delete(r)
    BY <1>0, <1>4, <1>7, <2>5 DEF Delete
  <2> QED
    BY <1>6, <1>8, <2>1, <2>2, <2>3, <2>4, <2>5 DEF Limiter, ReplyLost, RedisFails, Crash
<1>9. ASSUME NEW r \in Requests, Proxy(r)
      PROVE  Bounded'
  BY <1>0, <1>4, <1>9 DEF Proxy, AnswerEarly, Forward, Respond, ConnectionFails, ClientLeaves, key
<1> QED
  BY <1>0, <1>4, <1>7, <1>8, <1>9 DEF Next, Expire

(* A request is sent again only after its connection failed, and only      *)
(* MaxRetries times.                                                       *)
LEMMA RetryStep == ASSUME IInv, Next PROVE Retried'
<1>0. Retried /\ pc \in [Requests -> Steps] /\ MaxRetries \in Nat
  BY RetriesAssumption, FailuresAssumption DEF IInv, Shape
<1>1. ASSUME NEW r \in Requests, Forward(r)
      PROVE  Retried'
  <2>1. attempts[r] \in 0 .. MaxRetries
    BY <1>0, <1>1 DEF Forward, Retried
  <2> QED
    BY <1>0, <1>1, <2>1 DEF Forward, GoTo, Retried
<1>2. ASSUME NEW r \in Requests, ConnectionFails(r)
      PROVE  Retried'
  BY <1>0, <1>2 DEF ConnectionFails, MayRetry, Ends, GoTo, Retried
<1>3. ASSUME NEW r \in Requests, AnswerEarly(r) \/ Respond(r) \/ ClientLeaves(r)
      PROVE  Retried'
  BY <1>0, <1>3 DEF AnswerEarly, Respond, ClientLeaves, Ends, GoTo, Retried
<1>4. ASSUME NEW r \in Requests, Limiter(r)
      PROVE  Retried'
  <2>1. CASE Crash(r)
    BY <1>0, <2>1 DEF Crash, Retried
  <2>2. CASE ~Crash(r)
    BY <1>0, <1>4, <2>2
       DEF Limiter, Incr, SetExpiry, Rollback, ReplyLost, RedisFails, Finish, Delete, Admit, GoTo,
           Retried
  <2> QED
    BY <2>1, <2>2
<1>5. CASE Expire
  BY <1>0, <1>5 DEF Expire, Retried
<1> QED
  BY <1>1, <1>2, <1>3, <1>4, <1>5 DEF Next, Proxy

-----------------------------------------------------------------------------
(* The invariant from which the properties of the run follow. *)
THEOREM Inductive == Spec => []IInv
<1>1. IInv /\ [Next]_vars => IInv'
  <2> SUFFICES ASSUME IInv, [Next]_vars
               PROVE  IInv'
    OBVIOUS
  <2>1. CASE Next
    BY <2>1, ShapeStep, HandledStep, CountStep, LockoutStep, LimitStep, BoundStep, RetryStep
       DEF IInv
  <2>2. CASE UNCHANGED vars
    BY <2>2 DEF vars, key, IInv, Shape, Handled, CountsHolders, PlacesAreReturned, NoLockout,
                Holders, Limited, LetIn, Bounded, Ended, Retried
  <2> QED
    BY <2>1, <2>2
<1> QED
  BY <1>1, InitHolds, PTL DEF Spec

(***************************************************************************)
(* For any number of requests, instances and failed commands, carried out  *)
(* or not and sent again or not: the counter of concurrency_limiter.js     *)
(* exceeds the requests in the limiter, those with a 'finish' handler and  *)
(* those whose client left by one for each failed command at most.         *)
(***************************************************************************)
THEOREM CountHolds == Spec => []CountsHolders
<1>1. IInv => CountsHolders
  BY DEF IInv
<1> QED
  BY <1>1, Inductive, PTL

(***************************************************************************)
(* While no command fails and no key is removed under the requests that it *)
(* counts, the counter is the number of requests under way and of those    *)
(* whose client left: the 429 and the 'finish' handler each give one back. *)
(***************************************************************************)
THEOREM PlacesHold == Spec => []PlacesAreReturned
<1>1. IInv => PlacesAreReturned
  BY DEF IInv
<1> QED
  BY <1>1, Inductive, PTL

(***************************************************************************)
(* While Redis answers, a positive counter has an expiry or a request that *)
(* is about to set it: the count of clients who left cannot stay for ever. *)
(***************************************************************************)
THEOREM LockoutNever == Spec => []NoLockout
<1>1. IInv => NoLockout
  BY DEF IInv
<1> QED
  BY <1>1, Inductive, PTL

(***************************************************************************)
(* While Redis answers and no key is removed under the requests it counts, *)
(* at most MaxConcurrent requests are served, for every MaxConcurrent.     *)
(***************************************************************************)
THEOREM LimitAlwaysHolds == Spec => []LimitHolds
<1>1. ASSUME IInv
      PROVE  LimitHolds
  <2>1. LetIn \subseteq Requests /\ InFlight \subseteq LetIn
    BY DEF LetIn, InFlight
  <2>2. Cardinality(InFlight) <= Cardinality(LetIn) /\ Cardinality(InFlight) \in Nat
           /\ Cardinality(LetIn) \in Nat
    BY <2>1, Sizes
  <2> QED
    BY <1>1, <2>2, LimitAssumption DEF IInv, Limited, LimitHolds
<1> QED
  BY <1>1, Inductive, PTL

(***************************************************************************)
(* Types hold: the counter stays within the requests and failed commands,  *)
(* and each request is sent at most MaxRetries + 1 times (retry.js).       *)
(***************************************************************************)
THEOREM Typed == Spec => []TypeOK
<1>1. ASSUME IInv
      PROVE  TypeOK
  <2>0. Shape /\ Retried
    BY <1>1 DEF IInv
  <2>1. LET most == Cardinality(Requests) + MaxFailures IN count \in -most .. most
    <3>1. Holders \subseteq Requests /\ Ended \subseteq Requests /\ count \in Int
          /\ failures \in Nat /\ failures <= MaxFailures /\ MaxFailures \in Nat
      BY <2>0, FailuresAssumption DEF Shape, Holders, Ended
    <3>2. /\ Cardinality(Holders) <= Cardinality(Requests)
          /\ Cardinality(Ended) <= Cardinality(Requests)
          /\ Cardinality(Holders) \in Nat /\ Cardinality(Ended) \in Nat
          /\ Cardinality(Requests) \in Nat
      BY <3>1, Sizes
    <3>3. count <= Cardinality(Holders) + failures /\ count >= -Cardinality(Ended) - failures
      BY <1>1 DEF IInv, CountsHolders, Bounded
    <3> QED
      BY <3>1, <3>2, <3>3
  <2> QED
    BY <2>0, <2>1 DEF TypeOK, Shape, Retried, Steps
<1> QED
  BY <1>1, Inductive, PTL

-----------------------------------------------------------------------------
(***************************************************************************)
(* The rate limiter, which the requests in the chain pass next.            *)
(***************************************************************************)
(* What the assumptions say of the rate limiter's settings. *)
LEMMA Settings ==
    /\ WINDOW_SIZE \in Nat \ {0} /\ MIN_INTERVAL \in 0 .. WINDOW_SIZE
    /\ MAX_REQUESTS \in Nat /\ AtOnce \in Nat \ {0} /\ MaxTime \in Nat \ {0}
BY WindowAssumption, CrowdAssumption, TimeAssumption

Stages == {"idle", "trim", "read", "add", "expire", "refused", "passed", "failed"}
Inside == {"trim", "read", "add", "expire"}

(* What a request's stage says of its time and of the sorted set. *)
Times ==
    \A r \in Requests :
        /\ now[r] <= clock
        /\ pc[r] = "idle" => now[r] = 0
        /\ pc[r] \in {"expire", "passed"} => r \in added
        /\ r \in added => pc[r] \in {"expire", "passed", "failed"}

Crowd == Cardinality(InLimiter) <= AtOnce

(***************************************************************************)
(* For the window that begins after t: its requests, those of them that    *)
(* are on, having been let through the checks, and those still ahead of    *)
(* them.  The window is whole while none that was recorded is missing.     *)
(***************************************************************************)
Within(t) == {r \in Requests : now[r] \in t + 1 .. t + WINDOW_SIZE}
On(t) == {r \in Within(t) : r \in added \/ pc[r] = "add"}
Ahead(t) == {r \in Within(t) : pc[r] \in {"trim", "read"}}
Whole(t) == Within(t) \cap added \subseteq recorded

(* Reads of a whole window let the limit through, and those read with the  *)
(* last of them; after it is trimmed, no more than were ahead then.        *)
Filled ==
    ~forgotten =>
        \A t \in Nat :
            /\ Whole(t) => Cardinality(On(t)) <= MAX_REQUESTS + AtOnce - 1
            /\ ~Whole(t) =>
                  /\ clock > t + WINDOW_SIZE
                  /\ Cardinality(On(t) \union Ahead(t))
                        <= MAX_REQUESTS + 2 * (AtOnce - 1)

(* Two requests in the limiter have met. *)
Met == \A q, r \in InLimiter : q # r => r \in together

Alone == {r \in Requests \ together : pc[r] \in {"trim", "read"}}

(* What is no longer recorded is outdated, for a request that is alone too. *)
Remembered ==
    ~forgotten =>
        \A q \in added \ recorded :
            /\ now[q] <= clock - WINDOW_SIZE
            /\ \A r \in Alone : now[q] <= now[r] - WINDOW_SIZE

(* A request that is alone reads what it has trimmed. *)
Trimmed == \A r \in Alone :
    pc[r] = "read" => \A q \in recorded : now[q] > now[r] - WINDOW_SIZE

Windowed == /\ WindowTypeOK /\ Times /\ Crowd /\ Filled /\ Met /\ Remembered /\ Trimmed
            /\ KeyExpires

(* Finite sets: RateLimiter counts subsets of Requests. *)
LEMMA Subsets ==
    ASSUME NEW S, NEW T, S \subseteq T, IsFiniteSet(T)
    PROVE  /\ IsFiniteSet(S)
           /\ Cardinality(S) \in Nat /\ Cardinality(T) \in Nat
           /\ Cardinality(S) <= Cardinality(T)
BY FS_Subset, FS_CardinalityType

(* The size of a union. *)
LEMMA Unions ==
    ASSUME NEW S, NEW T, IsFiniteSet(S), IsFiniteSet(T)
    PROVE  /\ IsFiniteSet(S \union T)
           /\ Cardinality(S) \in Nat /\ Cardinality(T) \in Nat
           /\ Cardinality(S \union T) \in Nat
           /\ Cardinality(S \union T) <= Cardinality(S) + Cardinality(T)
<1>1. /\ IsFiniteSet(S \union T) /\ IsFiniteSet(S \cap T)
      /\ Cardinality(S \union T) = Cardinality(S) + Cardinality(T) - Cardinality(S \cap T)
  BY FS_Union, FS_Intersection
<1> QED
  BY <1>1, FS_CardinalityType

(* The size without one element. *)
LEMMA OneLess ==
    ASSUME NEW S, IsFiniteSet(S), NEW x \in S
    PROVE  /\ IsFiniteSet(S \ {x})
           /\ Cardinality(S) \in Nat
           /\ Cardinality(S \ {x}) = Cardinality(S) - 1
BY FS_RemoveElement, FS_CardinalityType

(* What a request's step does to the stages. *)
LEMMA Advances ==
    ASSUME WindowTypeOK, NEW r \in Requests, NEW to \in Stages, GoTo(r, to)
    PROVE  /\ pc' \in [Requests -> Stages]
           /\ \A q \in Requests : pc'[q] = IF q = r THEN to ELSE pc[q]
BY DEF WindowTypeOK, GoTo, Stages

(* Stages, times, and the requests in the limiter. *)
LEMMA StagesAre ==
    ASSUME WindowTypeOK
    PROVE  /\ pc \in [Requests -> Stages]
           /\ now \in [Requests -> 0 .. MaxTime]
           /\ InLimiter = {r \in Requests : pc[r] \in Inside}
           /\ InLimiter \subseteq Requests
           /\ IsFiniteSet(InLimiter)
           /\ Cardinality(InLimiter) \in Nat
<1>1. InLimiter = {r \in Requests : pc[r] \in Inside}
  BY DEF InLimiter, Inside
<1>2. IsFiniteSet(InLimiter)
  BY <1>1, RequestsAssumption, FS_Subset
<1> QED
  BY <1>1, <1>2, FS_CardinalityType DEF WindowTypeOK, Stages

(* The limiter begins with an empty set and nobody in it. *)
LEMMA WindowBegins == ASSUME WindowInit PROVE Windowed
<1>1. InLimiter = {}
  BY DEF WindowInit, InLimiter
<1>2. Cardinality({}) = 0
  BY FS_EmptySet
<1>s. /\ pc \in [Requests -> {"idle"}] /\ now \in [Requests -> {0}]
      /\ \A r \in Requests : pc[r] = "idle" /\ now[r] = 0
  BY DEF WindowInit
<1>t. 0 \in 0 .. MaxTime /\ 1 \in 1 .. MaxTime /\ 0 \in 0 .. MaxTime + WINDOW_SIZE
      /\ 0 \in 0 .. MaxFailures
  BY FailuresAssumption, Settings
<1>3. WindowTypeOK /\ Times
  <2>1. pc \in [Requests -> Stages] /\ now \in [Requests -> 0 .. MaxTime]
    BY <1>s, <1>t DEF Stages
  <2>2. WindowTypeOK
    BY <1>t, <2>1 DEF WindowInit, WindowTypeOK, Stages
  <2>3. clock = 1 /\ added = {}
    BY DEF WindowInit
  <2> QED
    BY <1>s, <2>2, <2>3 DEF Times
<1>4. Crowd
  BY <1>1, <1>2, Settings DEF Crowd
<1>5. \A t : Whole(t) /\ On(t) = {}
  <2>1. added = {}
    BY DEF WindowInit
  <2> QED
    BY <1>s, <2>1 DEF Whole, On, Within
<1>6. Filled
  <2>1. 0 <= MAX_REQUESTS + AtOnce - 1
    BY Settings
  <2> QED
    BY <1>2, <1>5, <2>1 DEF Filled
<1>7. Met
  BY <1>1 DEF Met
<1>8. Remembered /\ Trimmed /\ KeyExpires
  BY DEF WindowInit, Remembered, Trimmed, Alone, KeyExpires
<1> QED
  BY <1>3, <1>4, <1>6, <1>7, <1>8 DEF Windowed

(* Types, times, and the number of requests in the limiter. *)
LEMMA TimesStep ==
    ASSUME Windowed, WindowNext
    PROVE  WindowTypeOK' /\ Times' /\ Crowd'
<1> USE FailuresAssumption, Settings
<1>0. WindowTypeOK /\ Times /\ Crowd
  BY DEF Windowed
<1>w. /\ clock \in 1 .. MaxTime /\ WINDOW_SIZE \in Nat /\ MaxTime \in Nat
      /\ clock + WINDOW_SIZE \in 0 .. MaxTime + WINDOW_SIZE
  BY <1>0 DEF WindowTypeOK
<1>c. ASSUME WindowTypeOK', InLimiter' \subseteq InLimiter
      PROVE  Crowd'
  <2>1. Cardinality(InLimiter') <= Cardinality(InLimiter)
    BY <1>0, <1>c, StagesAre, Subsets
  <2>2. Cardinality(InLimiter') \in Nat /\ AtOnce \in Nat
    BY <1>0, <1>c, StagesAre, Subsets, CrowdAssumption
  <2> QED
    BY <1>0, <2>1, <2>2, StagesAre DEF Crowd
<1>1. CASE Tick
  <2>t. clock' = clock + 1 /\ clock' \in 1 .. MaxTime
    BY <1>w, <1>1 DEF Tick
  <2>r. /\ recorded' \in {recorded, {}} /\ deadline' \in {deadline, 0}
        /\ forgotten' \in BOOLEAN
        /\ UNCHANGED <<pc, now, added, together, failures>>
    BY <1>0, <1>1 DEF Tick, Keep, WindowTypeOK
  <2>y. WindowTypeOK'
    BY <1>0, <1>w, <2>t, <2>r DEF WindowTypeOK
  <2>m. Times'
    BY <1>0, <1>w, <2>t, <2>r, StagesAre DEF Times
  <2>1. WindowTypeOK' /\ Times'
    BY <2>y, <2>m
  <2>2. InLimiter' = InLimiter
    BY <1>1 DEF Tick, InLimiter
  <2> QED
    BY <2>1, <2>2, <1>c
<1>2. ASSUME NEW r \in Requests, Limit(r)
      PROVE  WindowTypeOK' /\ Times' /\ Crowd'
  <2>1. CASE Arrive(r)
    <3>1. /\ pc' \in [Requests -> Stages]
          /\ \A q \in Requests : pc'[q] = IF q = r THEN "trim" ELSE pc[q]
      BY <1>0, <2>1, Advances DEF Arrive, Stages
    <3>2. together' \subseteq Requests
      BY <1>0, <2>1 DEF Arrive, WindowTypeOK, InLimiter
    <3>3. /\ now' \in [Requests -> 0 .. MaxTime]
          /\ \A q \in Requests : now'[q] = IF q = r THEN clock ELSE now[q]
      BY <1>0, <2>1 DEF Arrive, WindowTypeOK
    <3>4. WindowTypeOK'
      BY <1>0, <2>1, <3>1, <3>2, <3>3 DEF Arrive, WindowTypeOK, Stages
    <3>5. Times'
      BY <1>0, <2>1, <3>1, <3>3, <1>w DEF Arrive, Times
    <3>6. InLimiter' = InLimiter \union {r} /\ r \notin InLimiter
      BY <2>1, <3>1 DEF Arrive, InLimiter
    <3>7. Cardinality(InLimiter') = Cardinality(InLimiter) + 1
      BY <1>0, <3>6, StagesAre, FS_AddElement
    <3>8. Cardinality(InLimiter) < AtOnce
      BY <2>1 DEF Arrive
    <3> QED
      BY <1>0, <3>4, <3>5, <3>7, <3>8, StagesAre, CrowdAssumption DEF Crowd
  <2>2. CASE ~Arrive(r)
    <3>1. PICK to \in Stages :
             /\ GoTo(r, to)
             /\ to # "idle"
             /\ pc[r] # "add" => to # "expire"
             /\ pc[r] # "expire" => to # "passed"
             /\ pc[r] \in {"expire", "add"} => to \in {"expire", "passed", "failed"}
      BY <1>2, <2>2 DEF Limit, Trim, Read, Add,
                        RenewExpiry, CommandFails, Stages
    <3>2. /\ pc' \in [Requests -> Stages]
          /\ \A q \in Requests : pc'[q] = IF q = r THEN to ELSE pc[q]
      BY <1>0, <3>1, Advances
    <3>3. pc[r] \in Inside /\ UNCHANGED <<clock, now, together, forgotten>>
      BY <1>2, <2>2 DEF Limit, Trim, Read, Add,
                        RenewExpiry, CommandFails, InLimiter, Inside
    <3>a. \/ added' = added /\ recorded' \subseteq recorded /\ ~Add(r)
          \/ added' = added \union {r} /\ recorded' = recorded \union {r} /\ pc[r] = "add"
      BY <1>2, <2>2
         DEF Limit, Trim, Read, Add, RenewExpiry,
             CommandFails, Record, Keep
    <3>b. recorded \subseteq added
      BY <1>0 DEF WindowTypeOK
    <3>d. to \in {"expire", "passed"} => pc[r] = "expire" \/ added' = added \union {r}
      <4>1. ASSUME to = "expire" PROVE added' = added \union {r}
        <5>1. pc[r] = "add" /\ pc'[r] = "expire"
          BY <3>1, <3>2, <4>1
        <5>2. ~CommandFails(r)
          <6>1. "failed" \in Stages
            BY DEF Stages
          <6>2. CommandFails(r) => pc'[r] = "failed"
            BY <1>0, <6>1, Advances DEF CommandFails
          <6> QED
            BY <5>1, <6>2
        <5>3. Add(r)
          BY <1>2, <2>2, <5>1, <5>2
             DEF Limit, Trim, Read, RenewExpiry
        <5> QED
          BY <5>3 DEF Add, Record
      <4> QED
        BY <3>1, <4>1
    <3>4. /\ recorded' \subseteq added'
          /\ added' \in {added, added \union {r}}
          /\ r \in added' => r \in added \/ pc[r] = "add"
          /\ to \in {"expire", "passed"} => r \in added'
      BY <1>0, <3>a, <3>b, <3>d DEF Times
    <3>5. deadline' \in {deadline, 0, clock + WINDOW_SIZE}
      BY <1>2, <2>2
         DEF Limit, Trim, Read, Add, RenewExpiry,
             CommandFails, Keep, Expiry
    <3>6. failures' \in 0 .. MaxFailures
      BY <1>0, <1>2, <2>2
         DEF Limit, Trim, Read, Add, RenewExpiry,
             CommandFails, WindowTypeOK
    <3>7. WindowTypeOK'
      BY <1>0, <1>w, <3>2, <3>3, <3>4, <3>5, <3>6 DEF WindowTypeOK, Stages
    <3>8. Times'
      BY <1>0, <3>1, <3>2, <3>3, <3>4 DEF Times, Inside
    <3>9. InLimiter' \subseteq InLimiter
      BY <3>2, <3>3 DEF InLimiter, Inside
    <3> QED
      BY <3>7, <3>8, <3>9, <1>c
  <2> QED
    BY <2>1, <2>2
<1> QED
  BY <1>1, <1>2 DEF WindowNext

(***************************************************************************)
(* The kinds of step that a request takes in the limiter: with r's stage   *)
(* it changes the sorted set by trimming it, by adding r, or not at all.   *)
(***************************************************************************)
Moved(r, to) == pc' = [pc EXCEPT ![r] = to] /\ UNCHANGED <<clock, now, together, forgotten>>

Trims(r) ==
    /\ pc[r] = "trim"
    /\ recorded' = recorded \ Outdated(r) /\ added' = added
    /\ deadline' = IF recorded' = {} THEN 0 ELSE deadline
    /\ \/ Moved(r, "read") /\ failures' = failures
       \/ Moved(r, "failed") /\ failures' = failures + 1

LetsOn(r) ==
    /\ pc[r] = "read"
    /\ ~WindowFull(recorded) /\ ~TooSoon(r, recorded)
    /\ UNCHANGED <<recorded, added, deadline, failures>>
    /\ Moved(r, "add")

Records(r) ==
    /\ pc[r] = "add"
    /\ recorded' = recorded \union {r} /\ added' = added \union {r} /\ deadline' = deadline
    /\ \/ Moved(r, "expire") /\ failures' = failures
       \/ Moved(r, "failed") /\ failures' = failures + 1

(* r leaves with the sorted set as it is. *)
Leaves(r) ==
    /\ pc[r] \in Inside
    /\ UNCHANGED <<recorded, added>>
    /\ \/ /\ pc[r] = "read" /\ Moved(r, "refused") /\ UNCHANGED <<deadline, failures>>
          /\ WindowFull(recorded) \/ TooSoon(r, recorded)
       \/ /\ pc[r] = "expire" /\ Moved(r, "passed") /\ failures' = failures
          /\ deadline' = Expiry
       \/ Moved(r, "failed") /\ failures' = failures + 1

(* These are all the steps there are. *)
LEMMA Kinds ==
    ASSUME NEW r \in Requests, Limit(r), Windowed
    PROVE  Arrive(r) \/ Trims(r) \/ LetsOn(r) \/ Records(r) \/ Leaves(r)
<1>1. CASE Trim(r)
  BY <1>1 DEF Trim, Keep, GoTo, Trims, Moved
<1>2. CASE Read(r)
  BY <1>2 DEF Read, GoTo, LetsOn, Leaves, Moved, Inside
<1>3. CASE Add(r)
  BY <1>3 DEF Add, Record, GoTo, Records, Moved
<1>4. CASE RenewExpiry(r)
  BY <1>4 DEF RenewExpiry, GoTo, Leaves, Moved, Inside
<1>5. CASE CommandFails(r)
  <2>1. Moved(r, "failed") /\ failures' = failures + 1 /\ pc[r] \in Inside
    BY <1>5 DEF CommandFails, GoTo, Moved, InLimiter, Inside
  <2>2. \/ UNCHANGED <<recorded, added>>
        \/ /\ pc[r] = "trim" /\ added' = added
           /\ recorded' = recorded \ Outdated(r)
           /\ deadline' = IF recorded' = {} THEN 0 ELSE deadline
        \/ /\ pc[r] = "add" /\ deadline' = deadline
           /\ recorded' = recorded \union {r} /\ added' = added \union {r}
    BY <1>5 DEF CommandFails, Keep, Record
  <2> QED
    BY <2>1, <2>2 DEF Trims, Records, Leaves
<1> QED
  BY <1>1, <1>2, <1>3, <1>4, <1>5 DEF Limit

(* The stages after it. *)
LEMMA MovedStages ==
    ASSUME Windowed, NEW r \in Requests, NEW to \in Stages, Moved(r, to)
    PROVE  /\ pc' \in [Requests -> Stages]
           /\ \A q \in Requests : pc'[q] = IF q = r THEN to ELSE pc[q]
           /\ UNCHANGED <<clock, now, together, forgotten>>
<1>1. pc \in [Requests -> Stages]
  BY StagesAre DEF Windowed
<1> QED
  BY <1>1 DEF Moved

(* A request in the limiter shares it with AtOnce - 1 others. *)
LEMMA Others ==
    ASSUME Windowed, NEW r \in InLimiter
    PROVE  /\ IsFiniteSet(InLimiter \ {r})
           /\ Cardinality(InLimiter \ {r}) \in Nat
           /\ Cardinality(InLimiter \ {r}) <= AtOnce - 1
<1>1. /\ IsFiniteSet(InLimiter) /\ Cardinality(InLimiter) \in Nat
      /\ Cardinality(InLimiter) <= AtOnce
  BY StagesAre DEF Windowed, Crowd
<1>2. /\ IsFiniteSet(InLimiter \ {r})
      /\ Cardinality(InLimiter \ {r}) = Cardinality(InLimiter) - 1
  BY <1>1, OneLess
<1>3. Cardinality(InLimiter \ {r}) \in Nat
  BY <1>2, FS_CardinalityType
<1> QED
  BY <1>1, <1>2, <1>3, CrowdAssumption

(* How many a window lets through. *)
LEMMA FilledStep == ASSUME Windowed, WindowNext PROVE Filled'
<1> DEFINE Fill(t) ==
      /\ Whole(t) => Cardinality(On(t)) <= MAX_REQUESTS + AtOnce - 1
      /\ ~Whole(t) => /\ clock > t + WINDOW_SIZE
                      /\ Cardinality(On(t) \union Ahead(t))
                            <= MAX_REQUESTS + 2 * (AtOnce - 1)
<1> SUFFICES ASSUME ~forgotten', NEW t \in Nat PROVE Fill(t)'
  BY DEF Filled
<1>0. WindowTypeOK /\ Times /\ WindowTypeOK' /\ Times'
  BY TimesStep DEF Windowed
<1>1. ~forgotten
  <2>1. Tick => (forgotten => forgotten')
    BY DEF Tick
  <2>2. \A r \in Requests : Limit(r) => forgotten' = forgotten
    BY DEF Limit, Arrive, Trim, Read, Add,
           RenewExpiry, CommandFails
  <2> QED
    BY <2>1, <2>2 DEF WindowNext
<1>2. Fill(t)
  BY <1>1 DEF Windowed, Filled
<1>3. /\ On(t) \subseteq Requests /\ (On(t))' \subseteq Requests
      /\ Ahead(t) \subseteq Requests /\ (Ahead(t))' \subseteq Requests
  BY DEF On, Ahead, Within
<1>4. /\ IsFiniteSet(On(t)) /\ IsFiniteSet((On(t))') /\ IsFiniteSet(Ahead(t))
      /\ IsFiniteSet((Ahead(t))') /\ IsFiniteSet(On(t) \union Ahead(t))
      /\ IsFiniteSet(Requests)
  BY <1>3, RequestsAssumption, Subsets, Unions
<1>n. /\ clock \in Nat /\ clock' \in Nat /\ WINDOW_SIZE \in Nat \ {0}
      /\ MAX_REQUESTS \in Nat /\ AtOnce \in Nat \ {0}
      /\ now \in [Requests -> Nat] /\ now' \in [Requests -> Nat]
  BY <1>0, Settings DEF WindowTypeOK
<1>k. ASSUME (On(t))' \subseteq On(t), (Ahead(t))' \subseteq On(t) \union Ahead(t),
             Whole(t)' <=> Whole(t), clock' >= clock
      PROVE  Fill(t)'
  <2>1. Cardinality((On(t))') <= Cardinality(On(t)) /\ Cardinality((On(t))') \in Nat
        /\ Cardinality(On(t)) \in Nat
    BY <1>4, <1>k, Subsets
  <2>2. /\ Cardinality((On(t))' \union (Ahead(t))') <= Cardinality(On(t) \union Ahead(t))
        /\ Cardinality((On(t))' \union (Ahead(t))') \in Nat
        /\ Cardinality(On(t) \union Ahead(t)) \in Nat
    <3>1. (On(t))' \union (Ahead(t))' \subseteq On(t) \union Ahead(t)
      BY <1>k
    <3> QED
      BY <1>4, <3>1, Subsets
  <2>3. CASE Whole(t)
    BY <1>2, <1>k, <1>n, <2>1, <2>3
  <2>4. CASE ~Whole(t)
    BY <1>2, <1>k, <1>n, <2>2, <2>4
  <2> QED
    BY <2>3, <2>4
<1>b. ASSUME Whole(t), ~Whole(t)', (On(t))' \subseteq On(t), clock' > t + WINDOW_SIZE,
             NEW S, IsFiniteSet(S), (Ahead(t))' \subseteq S,
             Cardinality(S) <= AtOnce - 1
      PROVE  Fill(t)'
  <2>1. /\ Cardinality((On(t))') <= Cardinality(On(t)) /\ Cardinality((On(t))') \in Nat
        /\ Cardinality(On(t)) \in Nat
    BY <1>4, <1>b, Subsets
  <2>2. /\ Cardinality((Ahead(t))') <= Cardinality(S) /\ Cardinality((Ahead(t))') \in Nat
        /\ Cardinality(S) \in Nat
    BY <1>4, <1>b, Subsets
  <2>3. /\ Cardinality((On(t))' \union (Ahead(t))')
              <= Cardinality((On(t))') + Cardinality((Ahead(t))')
        /\ Cardinality((On(t))' \union (Ahead(t))') \in Nat
    BY <1>4, Unions
  <2> QED
    BY <1>2, <1>b, <1>n, <2>1, <2>2, <2>3
<1>5. CASE Tick
  <2>1. /\ clock' = clock + 1
        /\ UNCHANGED <<pc, now, added>>
        /\ \/ recorded' = recorded
           \/ recorded' = {} /\ \A q \in recorded : ~StillCounts(q)
    BY <1>5 DEF Tick, Keep
  <2>2. (On(t))' = On(t) /\ (Ahead(t))' = Ahead(t) /\ (Within(t))' = Within(t)
    BY <2>1 DEF On, Ahead, Within
  <2>3. CASE Whole(t)' <=> Whole(t)
    BY <1>k, <1>n, <2>1, <2>2, <2>3
  <2>4. CASE ~(Whole(t)' <=> Whole(t))
    <3>1. recorded' = {} /\ Whole(t) /\ ~Whole(t)'
      BY <2>1, <2>2, <2>4 DEF Whole
    <3>2. PICK q \in Within(t) : q \in recorded
      BY <2>1, <2>2, <3>1 DEF Whole
    <3>3. now[q] >= t + 1 /\ now[q] \in Nat
      BY <1>n, <3>2 DEF Within
    <3>4. ~StillCounts(q)
      <4>1. recorded # recorded'
        BY <3>1, <3>2
      <4> QED
        BY <2>1, <3>2, <4>1
    <3> DEFINE moments == {clock + 1} \union {now[r] : r \in InLimiter}
    <3>a. \A s \in moments : ~(now[q] > s - WINDOW_SIZE)
      BY <3>4, Zenon DEF StillCounts
    <3>c. clock + 1 \in moments /\ \A r \in InLimiter : now[r] \in moments
      OBVIOUS
    <3> HIDE DEF moments
    <3>5. ~(now[q] > clock + 1 - WINDOW_SIZE)
      BY <1>n, <3>a, <3>c
    <3>6. \A r \in InLimiter : ~(now[q] > now[r] - WINDOW_SIZE)
      BY <3>a, <3>c
    <3>7. (Ahead(t))' = {}
      <4> SUFFICES ASSUME NEW r \in Ahead(t) PROVE FALSE
        BY <2>2
      <4>1. r \in InLimiter /\ r \in Requests /\ now[r] \in t + 1 .. t + WINDOW_SIZE
        BY DEF Ahead, Within, InLimiter
      <4>2. now[r] \in Nat /\ ~(now[q] > now[r] - WINDOW_SIZE)
        BY <1>n, <3>6, <4>1
      <4> QED
        BY <1>n, <3>3, <4>1, <4>2
    <3>8. IsFiniteSet({}) /\ Cardinality({}) = 0
      BY FS_EmptySet
    <3>9. clock' > t + WINDOW_SIZE
      BY <1>n, <2>1, <3>3, <3>5
    <3> QED
      BY <1>b, <1>n, <2>2, <3>1, <3>7, <3>8, <3>9
  <2> QED
    BY <2>3, <2>4
<1>6. ASSUME NEW r \in Requests, Limit(r) PROVE Fill(t)'
  <2>1. CASE Arrive(r)
    <3>1. /\ \A q \in Requests : pc'[q] = IF q = r THEN "trim" ELSE pc[q]
          /\ pc[r] = "idle"
      BY <1>0, <2>1, Advances DEF Arrive, Stages
    <3>2. /\ \A q \in Requests : now'[q] = IF q = r THEN clock ELSE now[q]
          /\ UNCHANGED <<clock, recorded, added>>
      BY <1>0, <2>1 DEF Arrive, WindowTypeOK
    <3>3. now[r] = 0 /\ r \notin added
      BY <1>0, <3>1 DEF Times
    <3>4. r \notin Within(t)
      BY <3>3 DEF Within
    <3>5. \A q \in Requests : q # r => (q \in (Within(t))' <=> q \in Within(t))
      BY <3>2 DEF Within
    <3>6. (On(t))' = On(t)
      BY <3>1, <3>2, <3>3, <3>4, <3>5 DEF On, Within
    <3>7. Whole(t)' <=> Whole(t)
      BY <3>2, <3>3, <3>4, <3>5 DEF Whole, Within
    <3>8. CASE r \in (Within(t))'
      <4>1. clock <= t + WINDOW_SIZE
        BY <3>2, <3>8 DEF Within
      <4>2. Whole(t)
        BY <1>2, <1>n, <4>1
      <4> QED
        BY <1>2, <3>6, <3>7, <4>2
    <3>9. CASE r \notin (Within(t))'
      <4>1. (Ahead(t))' \subseteq Ahead(t)
        BY <3>1, <3>5, <3>9 DEF Ahead, Within
      <4> QED
        BY <1>k, <1>n, <3>2, <3>6, <3>7, <4>1
    <3> QED
      BY <3>8, <3>9
  <2>2. CASE Trims(r)
    <3>1. /\ added' = added /\ recorded' = recorded \ Outdated(r)
          /\ r \in InLimiter
          /\ UNCHANGED <<clock, now>>
          /\ \A q \in Requests : q # r => pc'[q] = pc[q]
          /\ pc'[r] \in {"read", "failed"} /\ pc[r] = "trim"
      BY <2>2, MovedStages DEF Trims, Stages, InLimiter
    <3>2. (Within(t))' = Within(t)
      BY <3>1 DEF Within
    <3>3. (On(t))' = On(t) /\ (Ahead(t))' \subseteq Ahead(t)
      BY <3>1, <3>2 DEF On, Ahead, Within
    <3>4. CASE Whole(t)' <=> Whole(t)
      BY <1>k, <1>n, <3>1, <3>3, <3>4
    <3>5. CASE ~(Whole(t)' <=> Whole(t))
      <4>1. Whole(t) /\ ~Whole(t)'
        BY <3>1, <3>2, <3>5 DEF Whole
      <4>2. PICK q \in Within(t) : q \in recorded /\ q \in Outdated(r)
        BY <3>1, <3>2, <4>1 DEF Whole
      <4>3. now[q] >= t + 1 /\ now[q] <= now[r] - WINDOW_SIZE
        BY <4>2 DEF Within, Outdated
      <4>4. now[r] <= clock /\ now[r] \in Nat /\ now[q] \in Nat
        BY <1>0, <1>n, <4>2 DEF Times, Within
      <4>5. now[r] > t + WINDOW_SIZE /\ clock' > t + WINDOW_SIZE
        BY <1>n, <3>1, <4>3, <4>4
      <4>6. (Ahead(t))' \subseteq InLimiter \ {r}
        <5>1. r \notin Within(t)
          BY <1>n, <4>4, <4>5 DEF Within
        <5> QED
          BY <3>3, <5>1 DEF Ahead, Within, InLimiter
      <4> QED
        BY <1>b, <3>1, <3>3, <4>1, <4>5, <4>6, Others
    <3> QED
      BY <3>4, <3>5
  <2>3. CASE LetsOn(r)
    <3>1. /\ UNCHANGED <<added, recorded, clock, now>>
          /\ r \in InLimiter
          /\ \A q \in Requests : q # r => pc'[q] = pc[q]
          /\ pc'[r] = "add" /\ pc[r] = "read"
          /\ ~WindowFull(recorded)
      BY <2>3, MovedStages DEF LetsOn, Stages, InLimiter
    <3>2. (Within(t))' = Within(t) /\ (Whole(t)' <=> Whole(t))
      BY <3>1 DEF Within, Whole
    <3>3. CASE ~(Whole(t) /\ r \in Within(t))
      <4>1. (On(t))' \union (Ahead(t))' = On(t) \union Ahead(t)
        BY <3>1, <3>2 DEF On, Ahead, Within
      <4>2. CASE r \notin Within(t)
        <5>1. (On(t))' = On(t)
          BY <3>1, <3>2, <4>2 DEF On, Within
        <5> QED
          BY <1>2, <3>1, <3>2, <4>1, <5>1
      <4>3. CASE ~Whole(t)
        BY <1>2, <3>1, <3>2, <4>1, <4>3
      <4> QED
        BY <3>3, <4>2, <4>3
    <3>4. CASE Whole(t) /\ r \in Within(t)
      <4> DEFINE adding == InLimiter \ {r}
      <4>1. (On(t))' \subseteq (recorded \union adding) \union {r}
        BY <3>1, <3>2, <3>4 DEF On, Within, Whole, InLimiter
      <4>2. /\ IsFiniteSet(recorded) /\ Cardinality(recorded) \in Nat
            /\ Cardinality(recorded) <= MAX_REQUESTS - 1
        <5>1. recorded \subseteq Requests
          BY <1>0 DEF WindowTypeOK
        <5>2. IsFiniteSet(recorded) /\ Cardinality(recorded) \in Nat
          BY <1>4, <5>1, Subsets
        <5>3. ~(Cardinality(recorded) >= MAX_REQUESTS)
          BY <3>1 DEF WindowFull
        <5> QED
          BY <1>n, <5>2, <5>3
      <4>3. IsFiniteSet(adding) /\ Cardinality(adding) \in Nat
            /\ Cardinality(adding) <= AtOnce - 1
        BY <3>1, Others
      <4> HIDE DEF adding
      <4>4. /\ IsFiniteSet(recorded \union adding)
            /\ Cardinality(recorded \union adding) \in Nat
            /\ Cardinality(recorded \union adding) <= MAX_REQUESTS - 1 + AtOnce - 1
        <5>1. /\ IsFiniteSet(recorded \union adding)
              /\ Cardinality(recorded \union adding) \in Nat
              /\ Cardinality(recorded \union adding) <= Cardinality(recorded) + Cardinality(adding)
          BY <4>2, <4>3, Unions
        <5> QED
          BY <1>n, <4>2, <4>3, <5>1
      <4>5. IsFiniteSet({r}) /\ Cardinality({r}) = 1
        BY FS_Singleton
      <4>6. /\ IsFiniteSet((recorded \union adding) \union {r})
            /\ Cardinality((recorded \union adding) \union {r}) \in Nat
            /\ Cardinality((recorded \union adding) \union {r})
                  <= Cardinality(recorded \union adding) + 1
        BY <4>4, <4>5, Unions
      <4>7. /\ Cardinality((On(t))') <= Cardinality((recorded \union adding) \union {r})
            /\ Cardinality((On(t))') \in Nat
        BY <4>1, <4>6, Subsets
      <4>8. Cardinality((On(t))') <= MAX_REQUESTS + AtOnce - 1
        BY <1>n, <4>4, <4>6, <4>7
      <4> QED
        BY <3>2, <3>4, <4>8
    <3> QED
      BY <3>3, <3>4
  <2>4. CASE Records(r)
    <3>1. /\ added' = added \union {r} /\ recorded' = recorded \union {r}
          /\ UNCHANGED <<clock, now>>
          /\ \A q \in Requests : q # r => pc'[q] = pc[q]
          /\ pc'[r] \in {"expire", "failed"} /\ pc[r] = "add"
      BY <2>4, MovedStages DEF Records, Stages
    <3>2. (Within(t))' = Within(t) /\ r \notin added
      BY <1>0, <3>1 DEF Within, Times
    <3>3. Whole(t)' <=> Whole(t)
      BY <3>1, <3>2 DEF Whole
    <3>4. (On(t))' \subseteq On(t) /\ (Ahead(t))' \subseteq Ahead(t)
      BY <3>1, <3>2 DEF On, Ahead, Within
    <3> QED
      BY <1>k, <1>n, <3>1, <3>3, <3>4
  <2>5. CASE Leaves(r)
    <3>1. /\ UNCHANGED <<added, recorded, clock, now>>
          /\ \A q \in Requests : q # r => pc'[q] = pc[q]
          /\ pc'[r] \in {"refused", "passed", "failed"}
      BY <2>5, MovedStages DEF Leaves, Stages
    <3>2. (Within(t))' = Within(t) /\ (Whole(t)' <=> Whole(t))
      BY <3>1 DEF Within, Whole
    <3>3. (On(t))' \subseteq On(t) /\ (Ahead(t))' \subseteq Ahead(t)
      BY <3>1, <3>2 DEF On, Ahead, Within
    <3> QED
      BY <1>k, <1>n, <3>1, <3>2, <3>3
  <2> QED
    BY <1>6, <2>1, <2>2, <2>3, <2>4, <2>5, Kinds
<1> QED
  BY <1>5, <1>6 DEF WindowNext

(* A request that is alone is the only one in the limiter. *)
LEMMA Lonely ==
    ASSUME Met, NEW r \in Alone, NEW q \in InLimiter
    PROVE  q = r
BY DEF Met, Alone, InLimiter

(* Who is in the limiter, and who alone in it, after a step of r. *)
LEMMA NobodyEnters ==
    ASSUME Windowed, NEW r \in Requests, Trims(r) \/ LetsOn(r) \/ Records(r) \/ Leaves(r)
    PROVE  /\ UNCHANGED <<clock, now, together, forgotten>>
           /\ pc[r] \in Inside /\ r \in InLimiter
           /\ \A q \in Requests : q # r => pc'[q] = pc[q]
           /\ InLimiter' \subseteq InLimiter
           /\ Alone' \subseteq Alone
           /\ pc'[r] = "read" => pc[r] = "trim"
<1>1. PICK to \in Stages : Moved(r, to) /\ to \notin {"idle", "trim"}
                           /\ (to = "read" => pc[r] = "trim")
  BY DEF Trims, LetsOn, Records, Leaves, Stages
<1>2. pc[r] \in Inside
  BY DEF Trims, LetsOn, Records, Leaves, Inside
<1>3. /\ \A q \in Requests : pc'[q] = IF q = r THEN to ELSE pc[q]
      /\ UNCHANGED <<clock, now, together, forgotten>>
  BY <1>1, MovedStages
<1> QED
  BY <1>1, <1>2, <1>3 DEF InLimiter, Inside, Alone

(* What an expiry forgets is outdated, for the requests in the limiter too. *)
LEMMA ExpiryForgets ==
    ASSUME Windowed, Tick, ~forgotten', NEW q \in recorded \ recorded'
    PROVE  /\ now[q] <= clock' - WINDOW_SIZE
           /\ \A r \in InLimiter : now[q] <= now[r] - WINDOW_SIZE
<1>1. /\ clock \in Nat /\ WINDOW_SIZE \in Nat /\ now \in [Requests -> Nat]
      /\ q \in Requests /\ InLimiter \subseteq Requests
      /\ clock' = clock + 1
  BY Settings DEF Windowed, WindowTypeOK, Tick, InLimiter
<1>2. ~StillCounts(q)
  BY DEF Tick
<1> DEFINE moments == {clock + 1} \union {now[r] : r \in InLimiter}
<1>3. \A s \in moments : ~(now[q] > s - WINDOW_SIZE)
  BY <1>2, Zenon DEF StillCounts
<1>4. clock + 1 \in moments /\ \A r \in InLimiter : now[r] \in moments
  OBVIOUS
<1> HIDE DEF moments
<1>5. ~(now[q] > clock + 1 - WINDOW_SIZE)
  BY <1>1, <1>3, <1>4
<1>6. \A r \in InLimiter : ~(now[q] > now[r] - WINDOW_SIZE)
  BY <1>3, <1>4
<1>7. now[q] \in Nat /\ \A r \in InLimiter : now[r] \in Nat
  BY <1>1
<1> QED
  BY <1>1, <1>5, <1>6, <1>7

(* What is remembered of the others, and what a request that is alone reads. *)
LEMMA AloneStep ==
    ASSUME Windowed, WindowNext
    PROVE  Met' /\ Remembered' /\ Trimmed'
<1>0. /\ WindowTypeOK /\ Times /\ Met /\ Remembered /\ Trimmed
      /\ WindowTypeOK' /\ Times'
  BY TimesStep DEF Windowed
<1>n. /\ clock \in Nat /\ clock' \in Nat /\ WINDOW_SIZE \in Nat \ {0}
      /\ \A q \in Requests : now[q] \in Nat /\ now'[q] \in Nat
      /\ recorded \subseteq added /\ added \subseteq Requests
      /\ Alone \subseteq Requests /\ Alone \subseteq InLimiter
  BY <1>0, Settings DEF WindowTypeOK, Alone, InLimiter
<1>1. CASE Tick
  <2>1. /\ clock' = clock + 1 /\ UNCHANGED <<pc, now, added, together>>
        /\ recorded' \subseteq recorded
        /\ forgotten => forgotten'
    BY <1>1 DEF Tick, Keep
  <2>2. InLimiter' = InLimiter /\ Alone' = Alone
    BY <2>1 DEF InLimiter, Alone
  <2>3. Met'
    BY <1>0, <2>1, <2>2 DEF Met
  <2>4. Remembered'
    <3> SUFFICES ASSUME ~forgotten', NEW q \in added \ recorded'
                 PROVE  /\ now[q] <= clock' - WINDOW_SIZE
                        /\ \A r \in Alone : now[q] <= now[r] - WINDOW_SIZE
      BY <2>1, <2>2 DEF Remembered
    <3>1. CASE q \in recorded
      BY <1>1, <1>n, <3>1, ExpiryForgets
    <3>2. CASE q \notin recorded
      BY <1>0, <1>n, <2>1, <3>2 DEF Remembered
    <3> QED
      BY <3>1, <3>2
  <2>5. Trimmed'
    BY <1>0, <2>1, <2>2 DEF Trimmed
  <2> QED
    BY <2>3, <2>4, <2>5
<1>2. ASSUME NEW x \in Requests, Arrive(x) PROVE Met' /\ Remembered' /\ Trimmed'
  <2>1. /\ \A q \in Requests : pc'[q] = IF q = x THEN "trim" ELSE pc[q]
        /\ pc[x] = "idle"
    BY <1>0, <1>2, Advances DEF Arrive, Stages
  <2>2. /\ \A q \in Requests : now'[q] = IF q = x THEN clock ELSE now[q]
        /\ UNCHANGED <<clock, recorded, added, forgotten>>
        /\ together' = IF InLimiter = {} THEN together
                       ELSE together \union InLimiter \union {x}
    BY <1>0, <1>2 DEF Arrive, WindowTypeOK
  <2>3. InLimiter' = InLimiter \union {x} /\ x \notin added
    BY <1>0, <2>1 DEF InLimiter, Times
  <2>4. Met'
    BY <2>2, <2>3 DEF Met
  <2>5. Alone' \subseteq Alone \union {x}
    BY <2>1, <2>2 DEF Alone
  <2>6. Remembered'
    BY <1>0, <1>n, <2>2, <2>3, <2>5 DEF Remembered
  <2>7. Trimmed'
    <3> SUFFICES ASSUME NEW r \in Alone', pc'[r] = "read", NEW q \in recorded'
                 PROVE  now'[q] > now'[r] - WINDOW_SIZE
      BY DEF Trimmed
    <3>1. r # x /\ r \in Alone /\ r \in Requests /\ pc[r] = "read"
      BY <1>n, <2>1, <2>5
    <3>2. q # x /\ q \in Requests /\ q \in recorded
      BY <1>n, <2>2, <2>3
    <3> QED
      BY <1>0, <2>2, <3>1, <3>2 DEF Trimmed
  <2> QED
    BY <2>4, <2>6, <2>7
<1>3. ASSUME NEW x \in Requests, Trims(x) \/ LetsOn(x) \/ Records(x) \/ Leaves(x)
      PROVE  Met' /\ Remembered' /\ Trimmed'
  <2>1. /\ UNCHANGED <<clock, now, together, forgotten>>
        /\ x \in InLimiter
        /\ \A q \in Requests : q # x => pc'[q] = pc[q]
        /\ InLimiter' \subseteq InLimiter
        /\ Alone' \subseteq Alone
        /\ pc'[x] = "read" => pc[x] = "trim"
    BY <1>3, NobodyEnters
  <2>2. Met'
    BY <1>0, <2>1 DEF Met
  <2>3. CASE Trims(x)
    <3>1. /\ added' = added /\ recorded' = recorded \ Outdated(x)
      BY <2>3 DEF Trims
    <3>2. Remembered'
      <4> SUFFICES ASSUME ~forgotten, NEW q \in added \ recorded'
                   PROVE  /\ now[q] <= clock - WINDOW_SIZE
                          /\ \A r \in Alone : now[q] <= now[r] - WINDOW_SIZE
        BY <2>1, <3>1 DEF Remembered
      <4>1. CASE q \notin recorded
        BY <1>0, <4>1 DEF Remembered
      <4>2. CASE q \in recorded
        <5>1. now[q] <= now[x] - WINDOW_SIZE
          BY <3>1, <4>2 DEF Outdated
        <5>2. now[x] <= clock
          BY <1>0 DEF Times
        <5>3. \A r \in Alone : r = x
          BY <1>0, <2>1, Lonely
        <5> QED
          BY <1>n, <5>1, <5>2, <5>3
      <4> QED
        BY <4>1, <4>2
    <3>3. Trimmed'
      <4> SUFFICES ASSUME NEW r \in Alone', pc'[r] = "read", NEW q \in recorded'
                   PROVE  now[q] > now[r] - WINDOW_SIZE
        BY <2>1 DEF Trimmed
      <4>1. r \in Alone /\ q \in recorded /\ q \in Requests /\ q \notin Outdated(x)
        BY <1>n, <2>1, <3>1
      <4>2. r = x
        BY <1>0, <2>1, <4>1, Lonely
      <4> QED
        BY <1>n, <4>1, <4>2 DEF Outdated
    <3> QED
      BY <2>2, <3>2, <3>3
  <2>4. CASE LetsOn(x) \/ Leaves(x)
    <3>1. UNCHANGED <<added, recorded>>
      BY <2>4 DEF LetsOn, Leaves
    <3>2. Remembered'
      BY <1>0, <2>1, <3>1 DEF Remembered
    <3>3. \A r \in Alone' : /\ r \in Alone /\ r \in Requests
                            /\ pc'[r] = "read" => r = x \/ pc[r] = "read"
      BY <1>n, <2>1
    <3>4. pc'[x] # "read"
      BY <2>4, MovedStages DEF LetsOn, Leaves, Stages
    <3>5. Trimmed'
      BY <1>0, <2>1, <3>1, <3>3, <3>4 DEF Trimmed
    <3> QED
      BY <2>2, <3>2, <3>5
  <2>5. CASE Records(x)
    <3>1. added' = added \union {x} /\ recorded' = recorded \union {x} /\ pc[x] = "add"
      BY <2>5 DEF Records
    <3>2. Remembered'
      BY <1>0, <2>1, <3>1 DEF Remembered
    <3>3. Alone = {}
      <4> SUFFICES ASSUME NEW r \in Alone PROVE FALSE
        OBVIOUS
      <4>1. r = x
        BY <1>0, <2>1, Lonely
      <4> QED
        BY <3>1, <4>1 DEF Alone
    <3>4. Trimmed'
      BY <2>1, <3>3 DEF Trimmed
    <3> QED
      BY <2>2, <3>2, <3>4
  <2> QED
    BY <1>3, <2>3, <2>4, <2>5
<1> QED
  BY <1>1, <1>2, <1>3, Kinds DEF WindowNext

(* The key does not lose its expiry. *)
LEMMA ExpiryStep == ASSUME Windowed, WindowNext PROVE KeyExpires'
<1>0. /\ WindowTypeOK /\ KeyExpires /\ WindowTypeOK'
  BY TimesStep DEF Windowed
<1>n. /\ clock \in Nat /\ deadline \in Nat /\ WINDOW_SIZE \in Nat \ {0}
      /\ failures \in Nat
  BY <1>0, FailuresAssumption, Settings DEF WindowTypeOK
<1>1. CASE Tick
  BY <1>0, <1>1, <1>n DEF Tick, Keep, KeyExpires
<1>2. ASSUME NEW r \in Requests, Arrive(r) PROVE KeyExpires'
  <2>1. /\ \A q \in Requests : pc'[q] = IF q = r THEN "trim" ELSE pc[q]
        /\ pc[r] = "idle"
        /\ UNCHANGED <<clock, recorded, deadline, failures>>
    BY <1>0, <1>2, Advances DEF Arrive, Stages
  <2> QED
    BY <1>0, <2>1 DEF KeyExpires
<1>3. ASSUME NEW r \in Requests, Trims(r) \/ LetsOn(r) \/ Records(r) \/ Leaves(r)
      PROVE  KeyExpires'
  <2> SUFFICES ASSUME failures' = 0, recorded' # {}
               PROVE  deadline' > clock' \/ \E q \in Requests : pc'[q] = "expire"
    BY DEF KeyExpires
  <2>1. /\ clock' = clock
        /\ \A q \in Requests : q # r => pc'[q] = pc[q]
    BY <1>3, NobodyEnters
  <2>2. failures' # failures + 1
    BY <1>n
  <2>3. CASE Trims(r)
    <3>1. failures = 0 /\ recorded # {} /\ deadline' = deadline /\ pc[r] # "expire"
      BY <2>2, <2>3 DEF Trims
    <3> QED
      BY <1>0, <2>1, <3>1 DEF KeyExpires
  <2>4. CASE LetsOn(r)
    <3>1. failures = 0 /\ recorded # {} /\ deadline' = deadline /\ pc[r] # "expire"
      BY <2>4 DEF LetsOn
    <3> QED
      BY <1>0, <2>1, <3>1 DEF KeyExpires
  <2>5. CASE Records(r)
    <3>1. pc'[r] = "expire"
      BY <2>2, <2>5, MovedStages DEF Records, Stages
    <3> QED
      BY <3>1
  <2>6. CASE Leaves(r)
    <3>1. CASE pc[r] = "expire"
      <4>1. deadline' = clock + WINDOW_SIZE
        BY <2>2, <2>6, <3>1 DEF Leaves, Expiry
      <4> QED
        BY <1>n, <2>1, <4>1
    <3>2. CASE pc[r] # "expire"
      <4>1. failures = 0 /\ recorded # {} /\ deadline' = deadline
        BY <2>2, <2>6, <3>2 DEF Leaves
      <4> QED
        BY <1>0, <2>1, <3>2, <4>1 DEF KeyExpires
    <3> QED
      BY <3>1, <3>2
  <2> QED
    BY <1>3, <2>3, <2>4, <2>5, <2>6
<1> QED
  BY <1>1, <1>2, <1>3, Kinds DEF WindowNext

(* A step of anything else. *)
LEMMA WindowStutter == ASSUME Windowed, UNCHANGED windowVars PROVE Windowed'
<1> USE DEF windowVars
<1>1. InLimiter' = InLimiter
  BY DEF InLimiter
<1>2. WindowTypeOK' /\ Times' /\ KeyExpires'
  BY DEF Windowed, WindowTypeOK, Times, KeyExpires
<1>3. Crowd' /\ Met'
  BY <1>1 DEF Windowed, Crowd, Met
<1>4. Filled'
  BY DEF Windowed, Filled, Whole, On, Ahead, Within
<1>5. Remembered' /\ Trimmed'
  BY DEF Windowed, Remembered, Trimmed, Alone
<1> QED
  BY <1>2, <1>3, <1>4, <1>5 DEF Windowed

(* Every step keeps the invariant. *)
LEMMA WindowStep == ASSUME Windowed, [WindowNext]_windowVars PROVE Windowed'
BY TimesStep, FilledStep, AloneStep, ExpiryStep, WindowStutter DEF Windowed

(***************************************************************************)
(* For all settings and any number of gateway processes: as long as no     *)
(* expiry forgot a member that counts, a window lets through no more than  *)
(* MAX_REQUESTS and twice the requests that meet one in the limiter.       *)
(***************************************************************************)
THEOREM WindowHolds == WindowSpec => []WindowBound
<1>1. WindowInit => Windowed
  BY WindowBegins
<1>2. Windowed /\ [WindowNext]_windowVars => Windowed'
  BY WindowStep
<1>3. Windowed => WindowBound
  <2> SUFFICES ASSUME Windowed, ~forgotten, NEW t \in 0 .. MaxTime
               PROVE  Cardinality({r \in Passed : now[r] \in t + 1 .. t + WINDOW_SIZE})
                         <= MAX_REQUESTS + 2 * (AtOnce - 1)
    BY DEF WindowBound
  <2> DEFINE through == {r \in Passed : now[r] \in t + 1 .. t + WINDOW_SIZE}
  <2>1. through \subseteq On(t) /\ through \subseteq On(t) \union Ahead(t)
    BY DEF Windowed, Times, Passed, On, Within
  <2>2. /\ On(t) \subseteq Requests /\ On(t) \union Ahead(t) \subseteq Requests
    BY DEF On, Ahead, Within
  <2> HIDE DEF through
  <2>3. /\ Cardinality(through) \in Nat
        /\ Cardinality(On(t)) \in Nat /\ Cardinality(through) <= Cardinality(On(t))
        /\ Cardinality(On(t) \union Ahead(t)) \in Nat
        /\ Cardinality(through) <= Cardinality(On(t) \union Ahead(t))
    BY <2>1, <2>2, RequestsAssumption, Subsets
  <2>t. t \in Nat
    BY Settings
  <2>4. Whole(t) => Cardinality(On(t)) <= MAX_REQUESTS + AtOnce - 1
    BY <2>t DEF Windowed, Filled
  <2>5. ~Whole(t) => Cardinality(On(t) \union Ahead(t))
                        <= MAX_REQUESTS + 2 * (AtOnce - 1)
    BY <2>t DEF Windowed, Filled
  <2>6. MAX_REQUESTS \in Nat /\ AtOnce \in Nat \ {0}
    BY Settings
  <2>7. Cardinality(through) <= MAX_REQUESTS + 2 * (AtOnce - 1)
    BY <2>3, <2>4, <2>5, <2>6
  <2> QED
    BY <2>7 DEF through
<1> QED
  BY <1>1, <1>2, <1>3, PTL DEF WindowSpec

(***************************************************************************)
(* As long as Redis answers, the sorted set has an expiry or the request   *)
(* that is to set it is on its way.                                        *)
(***************************************************************************)
THEOREM ExpiryHolds == WindowSpec => []KeyExpires
<1>1. WindowInit => Windowed
  BY WindowBegins
<1>2. Windowed /\ [WindowNext]_windowVars => Windowed'
  BY WindowStep
<1>3. Windowed => KeyExpires
  BY DEF Windowed
<1> QED
  BY <1>1, <1>2, <1>3, PTL DEF WindowSpec

(***************************************************************************)
(* A request that no other met in the limiter is refused, or let on, as an *)
(* ideal limiter would that remembers every time.                          *)
(***************************************************************************)
THEOREM AloneHolds == WindowSpec => AloneIsExact
<1> DEFINE Exactly ==
      \A r \in Requests : pc[r] = "read" /\ r \notin together =>
          /\ pc'[r] = "refused" => Busy(r)
          /\ pc'[r] = "add" /\ ~forgotten => ~Busy(r)
<1>1. WindowInit => Windowed
  BY WindowBegins
<1>2. Windowed /\ [WindowNext]_windowVars => Windowed'
  BY WindowStep
<1>3. Windowed /\ [WindowNext]_windowVars => [Exactly]_windowVars
  <2> SUFFICES ASSUME Windowed, WindowNext, NEW r \in Requests,
                      pc[r] = "read", r \notin together
               PROVE  /\ pc'[r] = "refused" => Busy(r)
                      /\ pc'[r] = "add" /\ ~forgotten => ~Busy(r)
    OBVIOUS
  <2> DEFINE recent == {q \in added : now[q] > now[r] - WINDOW_SIZE}
  <2>1. /\ recorded \subseteq added /\ added \subseteq Requests
        /\ \A q \in Requests : now[q] \in Nat
        /\ WINDOW_SIZE \in Nat \ {0} /\ MIN_INTERVAL \in 0 .. WINDOW_SIZE
        /\ MAX_REQUESTS \in Nat
    BY Settings DEF Windowed, WindowTypeOK
  <2>2. r \in Alone
    BY DEF Alone
  <2>3. recorded \subseteq recent
    BY <2>1, <2>2 DEF Windowed, Trimmed
  <2>4. recent \subseteq Requests
    BY <2>1
  <2>5. /\ Cardinality(recorded) \in Nat /\ Cardinality(recent) \in Nat
        /\ Cardinality(recorded) <= Cardinality(recent)
    BY <2>3, <2>4, RequestsAssumption, Subsets
  <2>6. ~forgotten => recent \subseteq recorded
    BY <2>1, <2>2 DEF Windowed, Remembered
  <2>7. Busy(r) <=> \/ Cardinality(recent) >= MAX_REQUESTS
                           \/ \E q \in added : now[r] - now[q] < MIN_INTERVAL
    BY DEF Busy
  <2> HIDE DEF recent
  <2>8. CASE LetsOn(r)
    <3>1. Cardinality(recorded) < MAX_REQUESTS
      BY <2>1, <2>5, <2>8 DEF LetsOn, WindowFull
    <3>2. \A q \in recorded : ~(now[r] - now[q] < MIN_INTERVAL)
      BY <2>8 DEF LetsOn, TooSoon
    <3>3. pc'[r] = "add"
      BY <2>8, MovedStages DEF LetsOn, Stages
    <3>4. ASSUME ~forgotten PROVE ~Busy(r)
      <4>1. recent = recorded
        BY <2>3, <2>6, <3>4
      <4>2. \A q \in added : q \notin recorded => now[q] <= now[r] - WINDOW_SIZE
        BY <2>2, <3>4 DEF Windowed, Remembered
      <4>3. \A q \in added : ~(now[r] - now[q] < MIN_INTERVAL)
        BY <2>1, <3>2, <4>2
      <4> QED
        BY <2>1, <2>5, <2>7, <3>1, <4>1, <4>3
    <3> QED
      BY <3>3, <3>4
  <2>9. CASE Leaves(r)
    <3>1. pc'[r] # "add"
      BY <2>9, MovedStages DEF Leaves, Stages
    <3>2. ASSUME pc'[r] = "refused" PROVE Busy(r)
      <4>1. WindowFull(recorded) \/ TooSoon(r, recorded)
        BY <2>9, <3>2, MovedStages DEF Leaves, Stages
      <4>2. CASE WindowFull(recorded)
        <5>1. Cardinality(recorded) >= MAX_REQUESTS
          BY <4>2 DEF WindowFull
        <5> QED
          BY <2>1, <2>5, <2>7, <5>1
      <4>3. CASE TooSoon(r, recorded)
        BY <2>1, <2>7, <4>3 DEF TooSoon
      <4> QED
        BY <4>1, <4>2, <4>3
    <3> QED
      BY <3>1, <3>2
  <2>10. CASE ~LetsOn(r) /\ ~Leaves(r)
    <3>1. CASE Tick
      BY <3>1 DEF Tick
    <3>2. ASSUME NEW x \in Requests, Arrive(x) PROVE pc'[r] = pc[r]
      BY <3>2, Advances DEF Windowed, Arrive, Stages
    <3>3. ASSUME NEW x \in Requests, x # r, Trims(x) \/ LetsOn(x) \/ Records(x) \/ Leaves(x)
          PROVE  pc'[r] = pc[r]
      BY <3>3, NobodyEnters
    <3>4. ~Trims(r) /\ ~Records(r)
      BY DEF Trims, Records
    <3> QED
      BY <2>10, <3>1, <3>2, <3>3, <3>4, Kinds DEF WindowNext
  <2> QED
    BY <2>8, <2>9, <2>10
<1> QED
  BY <1>1, <1>2, <1>3, PTL DEF WindowSpec, AloneIsExact

=============================================================================
