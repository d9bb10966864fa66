--------------------------- MODULE Accounts_proofs ---------------------------
(***************************************************************************)
(* Proofs about Accounts, for both services and all requests, names and    *)
(* passwords: what the answers say of the table and of the credentials,    *)
(* and what becomes of the POSTs to the event service.                     *)
(***************************************************************************)
EXTENDS Accounts, TLAPS

Given == Passwords \union {NoPassword}

Handled == {"create", "authenticate", "login", "update", "delete", "get", "list"}

(* Each gate has its types, only a half-open one has trials, and it keeps  *)
(* one of them until its period is judged.                                 *)
GateOK ==
    /\ mode \in {"Closed", "Open", "HalfOpen"}
    /\ inside \subseteq Requests /\ trial \subseteq inside /\ left \in 0 .. MaxTrials
    /\ mode # "HalfOpen" => trial = {}
    /\ mode = "HalfOpen" /\ left = 0 => trial # {}

EventGateOK ==
    /\ eMode \in {"Closed", "Open", "HalfOpen"}
    /\ eInside \subseteq Requests /\ eTrial \subseteq eInside /\ eLeft \in 0 .. MaxTrials
    /\ eMode # "HalfOpen" => eTrial = {}
    /\ eMode = "HalfOpen" /\ eLeft = 0 => eTrial # {}

Shape ==
    /\ service \in {"user", "vendor"}
    /\ pc \in [Requests -> {"idle", "inside", "replied", "posting", "done"}]
    /\ reply \in [Requests -> {None, "ok", "unauthorized", "refused", "error"}]
    /\ post \in [Requests -> {None, "sent", "stored", "failed"}]
    /\ answer \in [Requests -> {None, "rejected", "refused", "error", "created", "ok",
                                "conflict", "missing", "unauthorized", "token"}]
    /\ dbErrors \in 0 .. MaxDBErrors

(* What a request asks for goes with how far it is. *)
Asked ==
    /\ args = [q \in Requests |-> args[q]]
    /\ \A r \in Requests :
          /\ args[r] \in {NoArgs} \union Inputs \union [kind : {"event"}]
          /\ pc[r] = "idle" => args[r] = NoArgs
          /\ pc[r] = "inside" => Is(r, Handled)
          /\ pc[r] = "posting" => Is(r, {"event"})
          /\ pc[r] = "replied" => Is(r, {"login"}) /\ reply[r] # None
          /\ pc[r] # "done" => answer[r] = None
          /\ pc[r] \in {"idle", "inside"} => reply[r] = None

(* Only a create makes a row, and only the request of that row's id.       *)
Rows ==
    /\ rows \in [Requests -> {NoRow} \union
          [name : Names, password : [plain : Given, hashed : 0 .. 2]]]
    /\ secret \in [Requests -> Given \union {None}]
    /\ \A r \in Requests : Exists(r) => r \in written /\ Is(r, {"create"}) /\ rows[r].name \in Names
    /\ \A i, j \in Requests : Exists(i) /\ Exists(j) /\ rows[i].name = rows[j].name => i = j

(* How the service stores the password given last, until it loses it. *)
Stored == \A id \in Requests : Exists(id) =>
    /\ secret[id] \in Given
    /\ rows[id].password \in {Text(NoPassword), Hashed(secret[id])}

(* A request whose statement was carried out was answered then. *)
Done ==
    /\ written \subseteq Requests
    /\ \A r \in written :
          /\ pc[r] = "done" /\ Is(r, Writes)
          /\ Is(r, {"create"}) => answer[r] \in {"created", "error"}

(* A new account stays as asked for until a request changes it. *)
Kept == \A r \in Requests :
    Is(r, {"create"}) /\ answer[r] = "created" /\ ~Changed(r) =>
        Exists(r) /\ rows[r].name = args[r].name /\ secret[r] = args[r].password

(* The account had lost the password, or never had it. *)
Doubted(S) == {"wrong", "emptied"} \intersect S # {}

(* A login under way has seen what is true now, and the reply to the auth  *)
(* service says what was seen.                                             *)
Seen == \A r \in Logins :
    /\ pc[r] # "done" => Standing(args[r], rows, secret) \in stood[r]
    /\ reply[r] = "ok" => "right" \in stood[r]
    /\ reply[r] = "unauthorized" => Doubted(stood[r]) \/ service = "vendor"

(* Only the request of an event posts one. *)
Posted ==
    /\ \A r \in Requests : post[r] # None => Is(r, {"event"}) /\ pc[r] \in {"posting", "done"}
    /\ inside = {r \in Requests : pc[r] = "inside"}

Histories == stood \in [Requests -> SUBSET Standings]

IInv == /\ GateOK /\ EventGateOK /\ Shape /\ Asked /\ Rows /\ Stored /\ Done /\ Kept
        /\ Seen /\ LoginsAreTrue /\ Posted /\ PostsAccounted /\ Histories

-----------------------------------------------------------------------------
(***************************************************************************)
(* The two gates (circuitbreaker.go: beforeRequest and afterRequest).      *)
(***************************************************************************)
LEMMA AdmissionEnters ==
    ASSUME GateOK, NEW r \in Requests, Gate!Admits(r)
    PROVE  GateOK' /\ inside' = inside \union {r}
BY BoundsAssumption DEF GateOK, Gate!Admits, Gate!Enter, Gate!FirstTrial, Gate!NextTrial

(* The report of a call takes exactly that call out of it. *)
LEMMA ReportLeaves ==
    ASSUME GateOK, NEW r \in Requests, Gate!Succeeds(r) \/ Gate!Fails(r)
    PROVE  GateOK' /\ inside' = inside \ {r}
<1>1. ASSUME Gate!Leave(r)
      PROVE  GateOK' /\ inside' = inside \ {r}
  BY <1>1 DEF GateOK, Gate!Leave
<1>2. ASSUME Gate!Pass(r)
      PROVE  GateOK' /\ inside' = inside \ {r}
  BY <1>2 DEF GateOK, Gate!Pass
<1>3. ASSUME Gate!Trip(r) \/ Gate!Fail(r) \/ Gate!LastPass(r)
      PROVE  GateOK' /\ inside' = inside \ {r}
  BY <1>3, BoundsAssumption DEF GateOK, Gate!Trip, Gate!Fail, Gate!LastPass
<1> QED
  BY <1>1, <1>2, <1>3 DEF Gate!Succeeds, Gate!Fails

(* The same of the gate to the event service. *)
LEMMA EventAdmissionEnters ==
    ASSUME EventGateOK, NEW r \in Requests, Events!Admits(r)
    PROVE  EventGateOK' /\ eInside' = eInside \union {r}
BY BoundsAssumption
   DEF EventGateOK, Events!Admits, Events!Enter, Events!FirstTrial, Events!NextTrial

(* A report there leaves a trial wherever one is still to be judged. *)
LEMMA EventReportLeaves ==
    ASSUME EventGateOK, NEW r \in Requests, Events!Succeeds(r) \/ Events!Fails(r)
    PROVE  EventGateOK' /\ eInside' = eInside \ {r}
<1>1. ASSUME Events!Leave(r)
      PROVE  EventGateOK' /\ eInside' = eInside \ {r}
  BY <1>1 DEF EventGateOK, Events!Leave
<1>2. ASSUME Events!Pass(r)
      PROVE  EventGateOK' /\ eInside' = eInside \ {r}
  BY <1>2 DEF EventGateOK, Events!Pass
<1>3. ASSUME Events!Trip(r) \/ Events!Fail(r) \/ Events!LastPass(r)
      PROVE  EventGateOK' /\ eInside' = eInside \ {r}
  BY <1>3, BoundsAssumption DEF EventGateOK, Events!Trip, Events!Fail, Events!LastPass
<1> QED
  BY <1>1, <1>2, <1>3 DEF Events!Succeeds, Events!Fails

-----------------------------------------------------------------------------
(***************************************************************************)
(* The inductive invariant, one part after the other.                      *)
(***************************************************************************)
LEMMA InitHolds == Init => IInv
<1> SUFFICES ASSUME Init
             PROVE  IInv
  OBVIOUS
<1>1. GateOK /\ EventGateOK
  BY BoundsAssumption DEF Init, Gate!Init, Events!Init, GateOK, EventGateOK
<1>2. Shape
  BY BoundsAssumption DEF Init, Shape, None
<1>3. \A r \in Requests : args[r] = NoArgs /\ args[r].kind = None /\ ~Exists(r)
  BY DEF Init, NoArgs, Exists
<1>4. Asked
  BY <1>3 DEF Init, Asked, None
<1>5. Rows
  BY <1>3 DEF Init, Rows
<1>6. Stored /\ Done
  BY <1>3 DEF Init, Stored, Done
<1>7. Kept
  BY DEF Init, Kept, None
<1>8. Logins = {}
  BY <1>3 DEF Logins, Is, None
<1>9. Seen /\ LoginsAreTrue
  BY <1>8 DEF Seen, LoginsAreTrue
<1>10. Posted /\ PostsAccounted
  BY DEF Init, Gate!Init, Events!Init, Posted, PostsAccounted, None
<1>11. Histories
  BY DEF Init, Histories
<1> QED
  BY <1>1, <1>2, <1>4, <1>5, <1>6, <1>7, <1>9, <1>10, <1>11 DEF IInv

(* An answer, a reply and a step change what they name, of one request.    *)
LEMMA Moves ==
    ASSUME Shape, NEW r \in Requests
    PROVE  /\ \A to \in {"idle", "inside", "replied", "posting", "done"} : GoTo(r, to) =>
                 /\ pc' \in [Requests -> {"idle", "inside", "replied", "posting", "done"}]
                 /\ \A q \in Requests : pc'[q] = IF q = r THEN to ELSE pc[q]
           /\ \A a \in {"rejected", "refused", "error", "created", "ok", "conflict", "missing",
                        "unauthorized", "token"} : Answer(r, a) =>
                 /\ pc' \in [Requests -> {"idle", "inside", "replied", "posting", "done"}]
                 /\ \A q \in Requests : pc'[q] = IF q = r THEN "done" ELSE pc[q]
                 /\ answer' \in [Requests -> {None, "rejected", "refused", "error", "created", "ok",
                                              "conflict", "missing", "unauthorized", "token"}]
                 /\ \A q \in Requests : answer'[q] = IF q = r THEN a ELSE answer[q]
BY DEF Shape, GoTo, Answer

(* What a request may ask for, without the records. *)
LEMMA InputsAre ==
    ASSUME NEW in \in Inputs
    PROVE  /\ in.kind \in Handled
           /\ in.kind = "login" => service = "user"
           /\ in.kind \in {"create", "authenticate", "login", "update"} =>
                 in.name \in Names /\ in.password \in Given
           /\ in.kind \in {"update", "delete", "get"} => in.id \in Requests
BY DEF Inputs, Account, Target, Handled, Given

(* The fields of what a request of each kind asks for. *)
LEMMA ArgsAre ==
    ASSUME Asked, NEW r \in Requests
    PROVE  /\ args[r].kind \in Handled \union {None, "event"}
           /\ Is(r, {"login"}) => service = "user"
           /\ Is(r, {"create", "authenticate", "login", "update"}) =>
                 args[r].name \in Names /\ args[r].password \in Given
           /\ Is(r, {"update", "delete", "get"}) => args[r].id \in Requests
<1>1. CASE args[r] \in Inputs
  BY <1>1, InputsAre DEF Is
<1>2. CASE args[r] = NoArgs \/ args[r] \in [kind : {"event"}]
  BY <1>2 DEF NoArgs, Is, None
<1> QED
  BY <1>1, <1>2 DEF Asked

(* A reply goes to the auth service or to the client. *)
LEMMA ReplyIs ==
    ASSUME Shape, NEW r \in Requests, NEW kind,
           NEW what \in {"ok", "unauthorized", "refused", "error", "missing"},
           kind = "login" => what # "missing", Reply(r, kind, what)
    PROVE  /\ pc' \in [Requests -> {"idle", "inside", "replied", "posting", "done"}]
           /\ \A q \in Requests : pc'[q] = IF q # r THEN pc[q]
                                           ELSE IF kind = "login" THEN "replied" ELSE "done"
           /\ reply' \in [Requests -> {None, "ok", "unauthorized", "refused", "error"}]
           /\ \A q \in Requests : reply'[q] = IF q = r /\ kind = "login" THEN what ELSE reply[q]
           /\ answer' \in [Requests -> {None, "rejected", "refused", "error", "created", "ok",
                                        "conflict", "missing", "unauthorized", "token"}]
           /\ \A q \in Requests : answer'[q] = IF q = r /\ kind # "login" THEN what ELSE answer[q]
<1>1. CASE kind = "login"
  <2>1. reply' = [reply EXCEPT ![r] = what] /\ GoTo(r, "replied") /\ UNCHANGED answer
    BY <1>1 DEF Reply
  <2> QED
    BY <1>1, <2>1, Moves DEF Shape
<1>2. CASE kind # "login"
  <2>1. Answer(r, what) /\ UNCHANGED reply
    BY <1>2 DEF Reply
  <2> QED
    BY <1>2, <2>1, Moves DEF Shape
<1> QED
  BY <1>1, <1>2

(* What a request asks for, once it has come. *)
LEMMA Arrival ==
    ASSUME Asked, NEW r \in Requests, Arrive(r)
    PROVE  /\ args' = [q \in Requests |-> args'[q]] /\ args'[r] \in Inputs
           /\ \A q \in Requests : q # r => args'[q] = args[q]
BY DEF Asked, Arrive

(* Nothing but the request's own step changes what it asks for, how far it *)
(* is and what was said to it.                                             *)
Own(r) == \A q \in Requests : q # r =>
    args'[q] = args[q] /\ pc'[q] = pc[q] /\ reply'[q] = reply[q] /\ post'[q] = post[q]
    /\ answer'[q] = answer[q]

Told == {"rejected", "refused", "error", "created", "ok", "conflict", "missing",
         "unauthorized", "token"}

(* A step that has come out of the gate with an answer or a reply. *)
LEMMA OutcomeIs ==
    ASSUME IInv, NEW r \in Requests, Statement(r)
    PROVE  /\ Shape' /\ Own(r) /\ pc[r] = "inside" /\ UNCHANGED <<service, eGate, args, post>>
           /\ reply'[r] \in {"ok", "unauthorized", "error"} \/ reply'[r] = reply[r]
           /\ \/ pc'[r] = "done" /\ answer'[r] \in Told /\ reply'[r] = reply[r]
              \/ pc'[r] = "replied" /\ Is(r, {"login"}) /\ answer'[r] = answer[r]
                    /\ reply'[r] \in {"ok", "unauthorized", "error"}
<1>0. Shape /\ Asked
  BY DEF IInv
<1>1. ASSUME Written(r) \/ Duplicate(r) \/ Got(r)
      PROVE  /\ \E a \in {"created", "ok", "conflict", "missing"} : Answer(r, a)
             /\ pc[r] = "inside" /\ UNCHANGED <<service, eGate, args, post, reply, dbErrors>>
  BY <1>1 DEF Written, Duplicate, Got, Runs, elsewhere, eGate
<1>2. CASE Written(r) \/ Duplicate(r) \/ Got(r)
  BY <1>0, <1>1, <1>2, Moves DEF Shape, Own, Told, eGate
<1>3. CASE Checked(r)
  <2>1. PICK what \in {"ok", "unauthorized"} : Reply(r, args[r].kind, what)
    BY <1>3 DEF Checked
  <2>2. pc[r] = "inside" /\ UNCHANGED <<service, eGate, args, post, dbErrors>>
    BY <1>3 DEF Checked, Runs, elsewhere, eGate
  <2> QED
    BY <1>0, <2>1, <2>2, ReplyIs DEF Shape, Own, Told, eGate, Is
<1>4. CASE StatementFails(r)
  <2>1. PICK what \in {"error", "missing"} :
           Reply(r, args[r].kind, what) /\ (args[r].kind = "login" => what = "error")
    BY <1>4 DEF StatementFails, Failure
  <2>2. pc[r] = "inside" /\ UNCHANGED <<service, eGate, args, post>>
    BY <1>4 DEF StatementFails, elsewhere, eGate
  <2>3. dbErrors' \in 0 .. MaxDBErrors
    BY <1>0, <1>4, BoundsAssumption DEF StatementFails, Shape
  <2> QED
    BY <1>0, <2>1, <2>2, <2>3, ReplyIs DEF Shape, Own, Told, eGate, Is
<1> QED
  BY <1>2, <1>3, <1>4 DEF Statement

(* It is enough to look at the request whose step it is. *)
LEMMA AskedKeeps ==
    ASSUME Asked, NEW r \in Requests, Own(r), args' = [q \in Requests |-> args'[q]], UNCHANGED service,
           \/ args'[r] = args[r]
           \/ pc[r] = "idle" /\ args'[r] \in Inputs \union [kind : {"event"}],
           pc'[r] # "idle",
           pc'[r] = "inside" => args'[r].kind \in Handled,
           pc'[r] = "posting" => args'[r].kind = "event",
           pc'[r] = "replied" => args'[r].kind = "login" /\ reply'[r] # None,
           pc'[r] # "done" => answer'[r] = answer[r] /\ pc[r] # "done",
           pc'[r] = "inside" => reply'[r] = reply[r] /\ pc[r] \in {"idle", "inside"}
    PROVE  Asked'
<1>1. Inputs' = Inputs
  BY DEF Inputs, Account, Target
<1>2. args' = [q \in Requests |-> args'[q]]
  OBVIOUS
<1>3. ASSUME NEW q \in Requests
      PROVE  (/\ args[q] \in {NoArgs} \union Inputs \union [kind : {"event"}]
              /\ pc[q] = "idle" => args[q] = NoArgs
              /\ pc[q] = "inside" => Is(q, Handled)
              /\ pc[q] = "posting" => Is(q, {"event"})
              /\ pc[q] = "replied" => Is(q, {"login"}) /\ reply[q] # None
              /\ pc[q] # "done" => answer[q] = None
              /\ pc[q] \in {"idle", "inside"} => reply[q] = None)'
  <2>1. CASE q # r
    BY <1>1, <2>1 DEF Asked, Own, NoArgs, Is, Handled
  <2>2. CASE q = r
    BY <1>1, <2>2 DEF Asked, Is
  <2> QED
    BY <2>1, <2>2
<1> QED
  BY <1>2, <1>3 DEF Asked

(* Every step of a request is one of its own kind. *)
LEMMA AskedStep ==
    ASSUME IInv, NEW r \in Requests, Handle(r) \/ CreateVendorEvent(r)
    PROVE  Shape' /\ Asked' /\ Own(r) /\ UNCHANGED service
<1>0. Shape /\ Asked /\ Posted /\ args = [q \in Requests |-> args[q]]
  BY DEF IInv, Asked
<1>1. CASE RejectInput(r)
  <2>1. /\ Shape' /\ Own(r) /\ UNCHANGED <<service, args>> /\ pc'[r] = "done"
    BY <1>0, <1>1, Moves DEF RejectInput, Shape, Own
  <2> QED
    BY <1>0, <2>1, AskedKeeps
<1>2. CASE Begin(r)
  <2>1. /\ Shape' /\ Own(r) /\ UNCHANGED <<service, answer, reply>>
        /\ pc[r] = "idle" /\ pc'[r] = "inside"
        /\ args' = [q \in Requests |-> args'[q]] /\ args'[r] \in Inputs
    BY <1>0, <1>2, Moves, Arrival DEF Begin, Shape, Own
  <2>2. args'[r].kind \in Handled
    BY <2>1, InputsAre
  <2> QED
    BY <1>0, <2>1, <2>2, AskedKeeps
<1>3. CASE Refused(r)
  <2>0. /\ args' = [q \in Requests |-> args'[q]] /\ args'[r] \in Inputs /\ pc[r] = "idle"
        /\ \A q \in Requests : q # r => args'[q] = args[q]
        /\ UNCHANGED <<service, eGate, post, dbErrors>>
    BY <1>0, <1>3, Arrival DEF Refused, eGate
  <2>1. PICK what \in {"refused", "missing", "error"} :
           Reply(r, args'[r].kind, what) /\ (args'[r].kind = "login" => what # "missing")
    BY <1>3 DEF Refused, Refusal
  <2>2. /\ Shape' /\ Own(r)
        /\ pc'[r] = "done" \/ (pc'[r] = "replied" /\ args'[r].kind = "login" /\ reply'[r] # None
                               /\ answer'[r] = answer[r])
    BY <1>0, <2>0, <2>1, ReplyIs DEF Shape, Own, None
  <2> QED
    BY <1>0, <2>0, <2>2, AskedKeeps
<1>4. CASE Statement(r)
  <2>1. /\ Shape' /\ Own(r) /\ UNCHANGED <<service, args>> /\ pc[r] = "inside"
        /\ \/ pc'[r] = "done"
           \/ pc'[r] = "replied" /\ args'[r].kind = "login" /\ answer'[r] = answer[r]
              /\ reply'[r] # None
    BY <1>4, OutcomeIs DEF Is, None
  <2> QED
    BY <1>0, <2>1, AskedKeeps
<1>5. CASE Login(r)
  <2>1. PICK a \in {"token", "unauthorized", "error"} : Answer(r, a)
    BY <1>5 DEF Login, Verdict
  <2>2. Shape' /\ Own(r) /\ UNCHANGED <<service, args>> /\ pc'[r] = "done"
    BY <1>0, <1>5, <2>1, Moves DEF Login, Shape, Own
  <2> QED
    BY <1>0, <2>2, AskedKeeps
<1>6. CASE BeginEvent(r)
  <2>0. /\ args' = [q \in Requests |-> args'[q]] /\ args'[r] = [kind |-> "event"]
        /\ \A q \in Requests : q # r => args'[q] = args[q]
    BY <1>0, <1>6 DEF BeginEvent
  <2>1. /\ Shape' /\ Own(r) /\ UNCHANGED <<service, answer>> /\ pc[r] = "idle" /\ pc'[r] = "posting"
        /\ args' = [q \in Requests |-> args'[q]] /\ args'[r] = [kind |-> "event"]
    BY <1>0, <1>6, <2>0, Moves DEF BeginEvent, here, Shape, Own
  <2>2. args'[r] \in [kind : {"event"}] /\ args'[r].kind = "event"
    BY <2>1
  <2> QED
    BY <1>0, <2>1, <2>2, AskedKeeps
<1>7. CASE EventRefused(r)
  <2>0. /\ args' = [q \in Requests |-> args'[q]] /\ args'[r] = [kind |-> "event"]
        /\ \A q \in Requests : q # r => args'[q] = args[q]
    BY <1>0, <1>7 DEF EventRefused
  <2>1. /\ Shape' /\ Own(r) /\ UNCHANGED service /\ pc[r] = "idle" /\ pc'[r] = "done"
        /\ args' = [q \in Requests |-> args'[q]] /\ args'[r] = [kind |-> "event"]
    BY <1>0, <1>7, <2>0, Moves DEF EventRefused, here, Shape, Own
  <2>2. args'[r] \in [kind : {"event"}]
    BY <2>1
  <2> QED
    BY <1>0, <2>1, <2>2, AskedKeeps
<1>8. CASE EventService(r)
  <2>1. Shape' /\ Own(r) /\ UNCHANGED <<service, args, pc, answer, reply>>
    BY <1>0, <1>8 DEF EventService, here, Shape, Own
  <2>2. Asked'
    BY <1>0, <2>1 DEF Asked, Inputs, Account, Target, Is
  <2> QED
    BY <2>1, <2>2
<1>9. CASE EventCreated(r) \/ EventFails(r)
  <2>1. PICK a \in {"created", "error"} : Answer(r, a)
    BY <1>9 DEF EventCreated, EventFails
  <2>2. Shape' /\ Own(r) /\ UNCHANGED <<service, args>> /\ pc'[r] = "done"
    BY <1>0, <1>9, <2>1, Moves DEF EventCreated, EventFails, here, Shape, Own
  <2> QED
    BY <1>0, <2>2, AskedKeeps
<1> QED
  BY <1>1, <1>2, <1>3, <1>4, <1>5, <1>6, <1>7, <1>8, <1>9 DEF Handle, CreateVendorEvent

-----------------------------------------------------------------------------
(***************************************************************************)
(* The table.                                                              *)
(***************************************************************************)
(* bcrypt applied once or twice is not the text, nor each other.           *)
LEMMA HashedIs ==
    ASSUME NEW p
    PROVE  /\ Text(p) = [plain |-> p, hashed |-> 0]
           /\ Hash(Text(p)) = [plain |-> p, hashed |-> 1]
           /\ Hashed(p) = [plain |-> p, hashed |-> IF service = "vendor" THEN 2 ELSE 1]
<1>1. Text(p) = [plain |-> p, hashed |-> 0]
  BY DEF Text
<1>2. \A n \in Nat : Hash([plain |-> p, hashed |-> n]) = [plain |-> p, hashed |-> n + 1]
  BY DEF Hash
<1>3. Hash(Text(p)) = [plain |-> p, hashed |-> 1]
  <2>1. Hash([plain |-> p, hashed |-> 0]) = [plain |-> p, hashed |-> 0 + 1]
    BY <1>2
  <2> QED
    BY <1>1, <2>1
<1>4. Hash(Hash(Text(p))) = [plain |-> p, hashed |-> 2]
  <2>1. Hash([plain |-> p, hashed |-> 1]) = [plain |-> p, hashed |-> 1 + 1]
    BY <1>2
  <2> QED
    BY <1>3, <2>1
<1> QED
  BY <1>1, <1>3, <1>4 DEF Hashed

(* What a statement does to the table: it touches one row, a name that     *)
(* another row has is not written, and the password is stored hashed.      *)
LEMMA CarriedOut ==
    ASSUME IInv, NEW r \in Requests, Runs(r, Writes), CarryOut(r)
    PROVE  /\ RowOf(r) \in Requests /\ written' = written \union {r}
           /\ \A q \in Requests : q # RowOf(r) => rows'[q] = rows[q] /\ secret'[q] = secret[q]
           /\ rows' = [q \in Requests |-> rows'[q]] /\ secret' = [q \in Requests |-> secret'[q]]
           /\ \/ /\ Is(r, {"create"}) \/ (Is(r, {"update"}) /\ Exists(RowOf(r)))
                 /\ args[r].name \in Names /\ args[r].password \in Given
                 /\ \A q \in Requests \ {RowOf(r)} : Exists(q) => rows[q].name # args[r].name
                 /\ rows'[RowOf(r)].name = args[r].name
                 /\ rows'[RowOf(r)] = [name |-> args[r].name, password |-> rows'[RowOf(r)].password]
                 /\ \/ /\ secret'[RowOf(r)] = args[r].password
                       /\ rows'[RowOf(r)].password = Hashed(args[r].password)
                    \/ /\ secret'[RowOf(r)] = secret[RowOf(r)] /\ secret[RowOf(r)] \in Given
                       /\ ~Is(r, {"create"})
                       /\ rows'[RowOf(r)].password = Text(NoPassword)
              \/ ~Is(r, {"create"}) /\ rows'[RowOf(r)] = NoRow /\ secret'[RowOf(r)] = None
              \/ ~Is(r, {"create"}) /\ UNCHANGED <<rows, secret>>
<1>0. /\ rows \in [Requests -> {NoRow} \union [name : Names, password : [plain : Given, hashed : 0 .. 2]]]
      /\ secret \in [Requests -> Given \union {None}]
  BY DEF IInv, Rows
<1>1. RowOf(r) \in Requests
  BY ArgsAre DEF IInv, RowOf, Runs, Is, Writes
<1>2. PICK id \in Requests : id = RowOf(r)
  BY <1>1
<1>3. ASSUME NEW row, NEW given, Put(id, row, given)
      PROVE  /\ \A q \in Requests : q # id => rows'[q] = rows[q] /\ secret'[q] = secret[q]
             /\ rows'[id] = row /\ secret'[id] = given
             /\ rows' = [q \in Requests |-> rows'[q]] /\ secret' = [q \in Requests |-> secret'[q]]
  BY <1>0, <1>3 DEF Put
<1>4. written' = written \union {r}
  BY DEF CarryOut
<1>5. ASSUME Is(r, {"create"}) \/ (Is(r, {"update"}) /\ Exists(id))
      PROVE  /\ args[r].name \in Names /\ args[r].password \in Given
             /\ \A q \in Requests \ {id} : Exists(q) => rows[q].name # args[r].name
  <2>1. args[r].name \in Names /\ args[r].password \in Given
    BY <1>5, ArgsAre DEF IInv, Is
  <2>2. ~MustConflict(r)
    BY <1>5 DEF CarryOut, Is
  <2> QED
    BY <1>2, <1>5, <2>1, <2>2 DEF MustConflict, MayConflict, Others
<1>6. CASE Is(r, {"create"}) /\ Insert(r)
  <2>1. id = r
    BY <1>2, <1>6 DEF RowOf
  <2>2. Put(id, [name |-> args[r].name, password |-> Hashed(args[r].password)], args[r].password)
    BY <1>6, <2>1 DEF Insert
  <2> QED
    BY <1>2, <1>3, <1>4, <1>5, <1>6, <2>2
<1>7. CASE Is(r, {"update"}) /\ Exists(id) /\ Overwrite(r)
  <2>1. id = args[r].id /\ ~Is(r, {"create"})
    BY <1>2, <1>7 DEF RowOf, Is
  <2>2. Put(id, [name |-> args[r].name, password |-> NewPassword(args[r].password)],
            IF args[r].password = NoPassword THEN secret[id] ELSE args[r].password)
    BY <1>7, <2>1 DEF Overwrite
  <2>3. CASE args[r].password = NoPassword
    <3>1. NewPassword(args[r].password) = Text(NoPassword)
      BY <2>3 DEF NewPassword
    <3>2. secret[id] \in Given
      BY <1>7 DEF IInv, Stored
    <3> QED
      BY <1>2, <1>3, <1>4, <1>5, <1>7, <2>1, <2>2, <2>3, <3>1, <3>2
  <2>4. CASE args[r].password # NoPassword
    <3>1. NewPassword(args[r].password) = Hashed(args[r].password)
      BY <2>4 DEF NewPassword
    <3> QED
      BY <1>2, <1>3, <1>4, <1>5, <1>7, <2>1, <2>2, <2>4, <3>1
  <2> QED
    BY <2>3, <2>4
<1>8. CASE Is(r, {"delete"}) /\ Put(id, NoRow, None)
  <2>1. ~Is(r, {"create"})
    BY <1>8 DEF Is
  <2> QED
    BY <1>2, <1>3, <1>4, <1>8, <2>1
<1>9. CASE Is(r, {"update"}) /\ UNCHANGED <<rows, secret>>
  <2>1. ~Is(r, {"create"})
    BY <1>9 DEF Is
  <2> QED
    BY <1>0, <1>2, <1>4, <1>9, <2>1
<1> QED
  BY <1>2, <1>6, <1>7, <1>8, <1>9 DEF CarryOut

(* A statement keeps the table as it should be. *)
LEMMA TableKeeps ==
    ASSUME IInv, NEW r \in Requests, Runs(r, Writes), CarryOut(r), UNCHANGED <<service, args>>
    PROVE  Rows' /\ Stored'
<1>0. Rows /\ Stored /\ Shape
  BY DEF IInv
<1> PICK id \in Requests : id = RowOf(r)
  BY CarriedOut
<1>1. /\ \A q \in Requests : q # id => rows'[q] = rows[q] /\ secret'[q] = secret[q]
      /\ rows' = [q \in Requests |-> rows'[q]] /\ secret' = [q \in Requests |-> secret'[q]]
      /\ written' = written \union {r}
  BY CarriedOut
<1>2. \A q \in Requests : Exists(q)' <=> rows'[q] # NoRow
  BY DEF Exists, NoRow, Text
<1>3. \A p : Hashed(p)' = Hashed(p) /\ Text(p)' = Text(p)
  BY DEF Hashed, Hash, Text
<1>4. \A q \in Requests : \A k : Is(q, k)' <=> Is(q, k)
  BY DEF Is
<1>5. Text(NoPassword) \in [plain : Given, hashed : 0 .. 2] /\ NoRow.name = None
  BY HashedIs DEF Given, NoRow
<1>6. \A p \in Given : Hashed(p) \in [plain : Given, hashed : 0 .. 2]
  BY HashedIs, <1>0 DEF Shape
<1>7. ASSUME \/ ~Is(r, {"create"}) /\ rows'[id] = NoRow /\ secret'[id] = None
             \/ ~Is(r, {"create"}) /\ UNCHANGED <<rows, secret>>
      PROVE  Rows' /\ Stored'
  <2>1. \A q \in Requests : Exists(q)' => Exists(q) /\ rows'[q] = rows[q] /\ secret'[q] = secret[q]
    BY <1>1, <1>2, <1>7 DEF Exists
  <2>2. /\ rows' \in [Requests -> {NoRow} \union
              [name : Names, password : [plain : Given, hashed : 0 .. 2]]]
        /\ secret' \in [Requests -> Given \union {None}]
    BY <1>0, <1>1, <1>7 DEF Rows
  <2>3. Rows'
    BY <1>0, <1>1, <1>4, <2>1, <2>2 DEF Rows
  <2>4. Stored'
    BY <1>0, <1>3, <2>1 DEF Stored
  <2> QED
    BY <2>3, <2>4
<1>8. ASSUME /\ Is(r, {"create"}) \/ (Is(r, {"update"}) /\ Exists(id))
             /\ args[r].name \in Names /\ args[r].password \in Given
             /\ \A q \in Requests \ {id} : Exists(q) => rows[q].name # args[r].name
             /\ rows'[id].name = args[r].name
             /\ rows'[id] = [name |-> args[r].name, password |-> rows'[id].password]
             /\ \/ secret'[id] = args[r].password /\ rows'[id].password = Hashed(args[r].password)
                \/ /\ secret'[id] = secret[id] /\ secret[id] \in Given
                   /\ rows'[id].password = Text(NoPassword)
      PROVE  Rows' /\ Stored'
  <2>1. /\ rows'[id] \in [name : Names, password : [plain : Given, hashed : 0 .. 2]]
        /\ secret'[id] \in Given \union {None}
    BY <1>5, <1>6, <1>8
  <2>2. /\ rows' \in [Requests -> {NoRow} \union
              [name : Names, password : [plain : Given, hashed : 0 .. 2]]]
        /\ secret' \in [Requests -> Given \union {None}]
    BY <1>0, <1>1, <2>1 DEF Rows
  <2>3. ASSUME NEW q \in Requests, Exists(q)'
        PROVE  q \in written' /\ Is(q, {"create"})' /\ rows'[q].name \in Names
    <3>1. CASE q = id
      <4>1. Is(r, {"create"}) => id = r
        BY DEF RowOf
      <4> QED
        BY <1>0, <1>1, <1>4, <1>8, <3>1, <4>1 DEF Rows
    <3>2. CASE q # id
      BY <1>0, <1>1, <1>2, <1>4, <2>3, <3>2 DEF Rows, Exists
    <3> QED
      BY <3>1, <3>2
  <2>4. ASSUME NEW i \in Requests, NEW j \in Requests, Exists(i)', Exists(j)',
               rows'[i].name = rows'[j].name
        PROVE  i = j
    <3>1. \A q \in Requests : q # id /\ Exists(q)' => Exists(q) /\ rows'[q].name = rows[q].name
      BY <1>1, <1>2 DEF Exists
    <3>2. CASE i = id \/ j = id
      BY <1>8, <2>4, <3>1, <3>2
    <3>3. CASE i # id /\ j # id
      BY <1>0, <2>4, <3>1, <3>3 DEF Rows
    <3> QED
      BY <3>2, <3>3
  <2>5. Rows'
    BY <2>2, <2>3, <2>4 DEF Rows
  <2>6. Stored'
    <3> SUFFICES ASSUME NEW q \in Requests, Exists(q)'
                 PROVE  /\ secret'[q] \in Given
                        /\ rows'[q].password \in {Text(NoPassword), Hashed(secret'[q])}
      BY <1>3 DEF Stored
    <3>1. CASE q = id
      BY <1>8, <3>1
    <3>2. CASE q # id
      BY <1>0, <1>1, <1>2, <3>2 DEF Stored, Exists
    <3> QED
      BY <3>1, <3>2
  <2> QED
    BY <2>5, <2>6
<1> QED
  BY <1>7, <1>8, CarriedOut

(* Only statements write, a create is told 201 only by the one that wrote  *)
(* its row, and nothing more is said to a request that was answered.       *)
LEMMA WhoWrites ==
    ASSUME IInv, NEW r \in Requests, Handle(r) \/ CreateVendorEvent(r)
    PROVE  /\ pc[r] = "done" => args'[r] = args[r] /\ pc'[r] = "done" /\ answer'[r] = answer[r]
                                /\ reply'[r] = reply[r]
           /\ pc[r] # "idle" => args'[r] = args[r]
           /\ \/ /\ UNCHANGED table
                 /\ answer'[r] = "created" /\ Is(r, {"create"})' => answer[r] = "created"
              \/ /\ Runs(r, Writes) /\ CarryOut(r) /\ UNCHANGED <<service, args>>
                 /\ pc'[r] = "done"
                 /\ answer'[r] = "error" \/ answer'[r] = (IF Is(r, {"create"}) THEN "created" ELSE "ok")
<1>0. Shape /\ Asked
  BY DEF IInv
<1>1. CASE Written(r)
  <2>1. \A a \in {"created", "ok"} : Answer(r, a) => answer'[r] = a /\ pc'[r] = "done"
    BY <1>0, Moves
  <2>2. Answer(r, IF Is(r, {"create"}) THEN "created" ELSE "ok")
    BY <1>1 DEF Written
  <2>3. answer'[r] = (IF Is(r, {"create"}) THEN "created" ELSE "ok") /\ pc'[r] = "done"
    BY <2>1, <2>2
  <2> QED
    BY <1>1, <2>3 DEF Written, Runs, elsewhere
<1>2. CASE StatementFails(r)
  <2>1. /\ pc[r] = "inside" /\ UNCHANGED <<service, args>> /\ Reply(r, args[r].kind, Failure(args[r].kind))
        /\ (Runs(r, Writes) /\ CarryOut(r)) \/ UNCHANGED table
    BY <1>2 DEF StatementFails, elsewhere
  <2>2. CASE Is(r, Writes)
    <3>1. Failure(args[r].kind) = "error" /\ args[r].kind # "login"
      BY <2>2 DEF Failure, Is, Writes
    <3>2. pc'[r] = "done" /\ answer'[r] = "error"
      BY <1>0, <2>1, <3>1, ReplyIs
    <3> QED
      BY <2>1, <3>2
  <2>3. CASE ~Is(r, Writes)
    <3>1. ~Is(r, {"create"})' /\ UNCHANGED table
      BY <2>1, <2>3 DEF Is, Writes, Runs
    <3> QED
      BY <2>1, <3>1
  <2> QED
    BY <2>2, <2>3
<1>3. CASE Duplicate(r)
  BY <1>0, <1>3, Moves DEF Duplicate, Runs, elsewhere
<1>4. CASE Got(r) \/ Checked(r)
  <2>1. pc[r] = "inside" /\ UNCHANGED <<args, table>> /\ ~Is(r, {"create"})'
    BY <1>4 DEF Got, Checked, Runs, Is, elsewhere
  <2> QED
    BY <2>1
<1>5. CASE RejectInput(r) \/ Login(r)
  <2>1. /\ pc[r] \in {"idle", "replied"} /\ UNCHANGED <<args, table>>
        /\ \E a \in {"rejected", "token", "unauthorized", "error"} : Answer(r, a)
    BY <1>5 DEF RejectInput, Login, Verdict
  <2> QED
    BY <1>0, <2>1, Moves
<1>6. CASE Begin(r)
  BY <1>6 DEF Begin
<1>7. CASE Refused(r)
  <2>1. PICK what \in {"refused", "missing", "error"} :
           Reply(r, args'[r].kind, what) /\ (args'[r].kind = "login" => what # "missing")
    BY <1>7 DEF Refused, Refusal
  <2>2. answer'[r] # "created" \/ answer'[r] = answer[r]
    BY <1>0, <2>1, ReplyIs
  <2> QED
    BY <1>7, <2>2 DEF Refused
<1>8. CASE BeginEvent(r) \/ EventRefused(r)
  <2>1. pc[r] = "idle" /\ UNCHANGED table /\ args'[r] = [kind |-> "event"]
    BY <1>0, <1>8 DEF BeginEvent, EventRefused, here, Asked
  <2>2. ~Is(r, {"create"})'
    BY <2>1 DEF Is
  <2> QED
    BY <2>1, <2>2
<1>9. CASE EventService(r)
  BY <1>9 DEF EventService, here
<1>10. CASE EventCreated(r) \/ EventFails(r)
  <2>1. pc[r] = "posting" /\ UNCHANGED <<args, table>>
    BY <1>10 DEF EventCreated, EventFails, here
  <2>2. ~Is(r, {"create"})'
    BY <1>0, <2>1 DEF Is, Asked
  <2> QED
    BY <2>1, <2>2
<1> QED
  BY <1>1, <1>2, <1>3, <1>4, <1>5, <1>6, <1>7, <1>8, <1>9, <1>10
     DEF Handle, Statement, CreateVendorEvent

(* Every step keeps the table, its histories and what was told of it. *)
LEMMA TableStep ==
    ASSUME IInv, NEW r \in Requests, Handle(r) \/ CreateVendorEvent(r)
    PROVE  Rows' /\ Stored' /\ Done' /\ Kept'
<1>0. Rows /\ Stored /\ Done /\ Kept /\ Shape /\ Asked /\ Own(r) /\ UNCHANGED service
  BY AskedStep DEF IInv
<1>1. \A q \in Requests : /\ pc[q] = "done" => args'[q] = args[q] /\ pc'[q] = "done"
                                               /\ answer'[q] = answer[q]
                          /\ pc[q] # "idle" => args'[q] = args[q]
  BY <1>0, WhoWrites DEF Own
<1>2. CASE UNCHANGED table /\ (answer'[r] = "created" /\ Is(r, {"create"})' => answer[r] = "created")
  <2>1. UNCHANGED <<rows, secret, written>>
    BY <1>2 DEF table
  <2>2. \A q \in written : q \in Requests /\ args'[q] = args[q] /\ pc'[q] = "done" /\ answer'[q] = answer[q]
    BY <1>0, <1>1 DEF Done
  <2>3. Rows'
    BY <1>0, <2>1, <2>2 DEF Rows, Exists, Is
  <2>4. Stored'
    BY <1>0, <2>1 DEF Stored, Exists, Hashed, Hash, Text
  <2>5. Done'
    BY <1>0, <2>1, <2>2 DEF Done, Is
  <2>6. \A q \in Requests : Changed(q)' <=> Changed(q)
    BY <2>1, <2>2 DEF Changed, Is
  <2>7. ASSUME NEW q \in Requests, Is(q, {"create"})', answer'[q] = "created"
        PROVE  args'[q] = args[q] /\ answer[q] = "created"
    <3>1. answer[q] = "created"
      BY <1>0, <1>2, <2>7 DEF Own
    <3>2. pc[q] = "done"
      BY <1>0, <3>1 DEF Asked, None
    <3> QED
      BY <1>1, <3>1, <3>2
  <2>8. Kept'
    BY <1>0, <2>1, <2>6, <2>7 DEF Kept, Is, Exists
  <2> QED
    BY <2>3, <2>4, <2>5, <2>8
<1>3. CASE /\ Runs(r, Writes) /\ CarryOut(r) /\ UNCHANGED <<service, args>> /\ pc'[r] = "done"
           /\ answer'[r] = "error" \/ answer'[r] = (IF Is(r, {"create"}) THEN "created" ELSE "ok")
  <2>1. Rows' /\ Stored'
    BY <1>3, TableKeeps
  <2>2. written' = written \union {r} /\ r \notin written
    BY <1>0, <1>3, CarriedOut DEF Done, Runs
  <2>3. Done'
    BY <1>0, <1>1, <1>3, <2>2 DEF Done, Is, Runs
  <2>4. Kept'
    <3> SUFFICES ASSUME NEW q \in Requests, Is(q, {"create"}), answer'[q] = "created", ~Changed(q)'
                 PROVE  Exists(q)' /\ rows'[q].name = args[q].name /\ secret'[q] = args[q].password
      BY <1>3 DEF Kept, Is
    <3>1. CASE q = r
      <4>1. RowOf(r) = r
        BY <3>1 DEF RowOf
      <4>2. /\ rows'[r].name = args[r].name /\ secret'[r] = args[r].password
            /\ args[r].name \in Names
        BY <1>3, <3>1, <4>1, CarriedOut
      <4>3. rows'[r] # NoRow
        BY <4>2, NoneAssumption DEF NoRow
      <4> QED
        BY <3>1, <4>2, <4>3 DEF Exists, NoRow, Text
    <3>2. CASE q # r
      <4>1. answer[q] = "created" /\ ~Changed(q)
        <5>1. Changed(q) => Changed(q)'
          BY <1>3, <2>2 DEF Changed, Is
        <5> QED
          BY <1>0, <3>2, <5>1 DEF Own
      <4>2. RowOf(r) # q
        <5>1. SUFFICES ASSUME RowOf(r) = q
                       PROVE  FALSE
          OBVIOUS
        <5>2. Is(r, {"update", "delete"}) /\ args[r].id = q
          BY <1>3, <3>2, <5>1 DEF RowOf, Runs, Is, Writes
        <5> QED
          BY <1>3, <2>2, <5>2 DEF Changed, Is
      <4>3. rows'[q] = rows[q] /\ secret'[q] = secret[q]
        BY <1>3, <4>2, CarriedOut
      <4> QED
        BY <1>0, <4>1, <4>3 DEF Kept, Exists, NoRow, Text
    <3> QED
      BY <3>1, <3>2
  <2> QED
    BY <2>1, <2>3, <2>4
<1> QED
  BY <1>2, <1>3, WhoWrites

-----------------------------------------------------------------------------
(***************************************************************************)
(* The logins.                                                             *)
(***************************************************************************)
(* Credentials are right, emptied or wrong. *)
LEMMA StandingIs ==
    ASSUME NEW a, NEW tab, NEW given
    PROVE  Standing(a, tab, given) \in Standings
BY DEF Standing, Standings

(* They are right when a row of that name was given that password and has  *)
(* not lost it.                                                            *)
LEMMA StandingRight ==
    ASSUME NEW a, NEW tab, NEW given
    PROVE  Standing(a, tab, given) = "right" <=>
              \E id \in Requests : /\ tab[id] # NoRow /\ tab[id].name = a.name
                                   /\ given[id] = a.password /\ tab[id].password # Text(NoPassword)
BY DEF Standing

(* The user service's check says whether the account has that password     *)
(* now, and the vendor service's never says so (bcrypt applied twice).     *)
LEMMA ValidIsRight ==
    ASSUME IInv, NEW r \in Logins
    PROVE  /\ service = "user" =>
                 (Valid(args[r]) <=> Standing(args[r], rows, secret) = "right")
           /\ service = "vendor" => ~Valid(args[r])
<1>0. r \in Requests /\ args[r].password \in Given /\ args[r].name \in Names
  BY ArgsAre DEF IInv, Logins, Is
<1>1. ASSUME NEW id \in Requests, Exists(id)
      PROVE  /\ service = "user" =>
                   (Matches(rows[id].password, args[r].password) <=>
                       secret[id] = args[r].password /\ rows[id].password # Text(NoPassword))
             /\ service = "vendor" => ~Matches(rows[id].password, args[r].password)
  <2>1. Hash(Text(args[r].password)) = [plain |-> args[r].password, hashed |-> 1]
    BY HashedIs
  <2>2. CASE rows[id].password = Text(NoPassword)
    <3>1. rows[id].password.hashed = 0
      BY <2>2, HashedIs
    <3> QED
      BY <2>1, <2>2, <3>1 DEF Matches
  <2>3. CASE rows[id].password = Hashed(secret[id])
    <3>1. rows[id].password = [plain |-> secret[id], hashed |-> IF service = "vendor" THEN 2 ELSE 1]
      BY <2>3, HashedIs
    <3>2. rows[id].password.plain = secret[id] /\ rows[id].password.hashed = (IF service = "vendor" THEN 2 ELSE 1)
      BY <3>1
    <3>3. Text(NoPassword).hashed = 0
      BY HashedIs
    <3> QED
      BY <2>1, <3>1, <3>2, <3>3 DEF Matches
  <2> QED
    BY <1>1, <2>2, <2>3 DEF IInv, Stored
<1>2. Standing(args[r], rows, secret) = "right" <=>
         \E id \in Requests : /\ Exists(id) /\ rows[id].name = args[r].name
                              /\ secret[id] = args[r].password /\ rows[id].password # Text(NoPassword)
  BY StandingRight DEF Exists
<1> QED
  BY <1>1, <1>2 DEF Valid

(* What a step adds to what a login has seen. *)
LEMMA RightStep ==
    ASSUME IInv, NEW r \in Requests, Handle(r) \/ CreateVendorEvent(r)
    PROVE  /\ Histories'
           /\ \A q \in Requests :
                 /\ pc[q] # "idle" => stood[q] \subseteq stood'[q]
                 /\ Is(q, {"authenticate", "login"})' /\ pc[q] # "done" =>
                       Standing(args'[q], rows', secret') \in stood'[q]
<1>0. Histories /\ Asked /\ Seen /\ Own(r)
  BY AskedStep DEF IInv
<1>1. CASE UNCHANGED <<stood, table, args>>
  <2>1. UNCHANGED <<rows, secret>>
    BY <1>1 DEF table
  <2> QED
    BY <1>0, <1>1, <2>1 DEF Histories, Seen, Logins, Is
<1>2. CASE UNCHANGED <<stood, table>> /\ args'[r] = [kind |-> "event"]
  <2>1. UNCHANGED <<rows, secret>>
    BY <1>2 DEF table
  <2> QED
    <3>1. ~Is(r, {"authenticate", "login"})' /\ stood' = stood
      BY <1>2 DEF Is
    <3>2. ASSUME NEW q \in Requests, q # r, Is(q, {"authenticate", "login"})', pc[q] # "done"
          PROVE  Standing(args'[q], rows', secret') \in stood'[q]
      <4>1. args'[q] = args[q] /\ q \in Logins
        BY <1>0, <3>2 DEF Own, Logins, Is
      <4> QED
        BY <1>0, <2>1, <3>1, <3>2, <4>1 DEF Seen
    <3> QED
      BY <1>0, <3>1, <3>2 DEF Histories
<1>3. CASE Arrive(r) /\ UNCHANGED table /\ pc[r] = "idle"
  <2>1. UNCHANGED <<rows, secret>>
    BY <1>3 DEF table
  <2>2. PICK in \in Inputs :
           /\ args' = [args EXCEPT ![r] = in]
           /\ stood' = IF in.kind \in {"authenticate", "login"}
                       THEN [stood EXCEPT ![r] = {Standing(in, rows, secret)}] ELSE stood
    BY <1>3 DEF Arrive
  <2>3. args'[r] = in /\ \A q \in Requests : q # r => args'[q] = args[q]
    BY <1>0, <2>2 DEF Asked
  <2>4. CASE in.kind \in {"authenticate", "login"}
    <3>1. PICK P \in Standings : P = Standing(in, rows, secret)
      BY StandingIs
    <3>2. stood' = [stood EXCEPT ![r] = {P}]
      BY <2>2, <2>4, <3>1
    <3>3. stood'[r] = {P} /\ \A q \in Requests : q # r => stood'[q] = stood[q]
      BY <1>0, <3>2 DEF Histories
    <3>4. Histories'
      BY <1>0, <3>2 DEF Histories
    <3>6. Standing(args'[r], rows', secret') \in stood'[r]
      BY <2>1, <2>3, <3>1, <3>3
    <3>7. ASSUME NEW q \in Requests, q # r, Is(q, {"authenticate", "login"})', pc[q] # "done"
          PROVE  Standing(args'[q], rows', secret') \in stood'[q]
      BY <1>0, <2>1, <2>3, <3>3, <3>7 DEF Seen, Logins, Is
    <3> QED
      BY <1>3, <3>3, <3>4, <3>6, <3>7
  <2>5. CASE in.kind \notin {"authenticate", "login"}
    <3>1. ~Is(r, {"authenticate", "login"})' /\ stood' = stood
      BY <2>2, <2>3, <2>5 DEF Is
    <3> QED
      BY <1>0, <2>1, <2>3, <3>1 DEF Histories, Seen, Logins, Is
  <2> QED
    BY <2>4, <2>5
<1>4. CASE Watch /\ UNCHANGED args
  <2>0. /\ stood' = [q \in Requests |-> stood'[q]]
        /\ \A q \in Requests : \A k : Is(q, k)' <=> Is(q, k)
    BY <1>4 DEF Watch, Is
  <2>1. ASSUME NEW q \in Requests
        PROVE  /\ stood'[q] \in SUBSET Standings
               /\ stood[q] \subseteq stood'[q]
               /\ Is(q, {"authenticate", "login"}) /\ pc[q] # "done" =>
                     Standing(args[q], rows', secret') \in stood'[q]
    <3>1. stood[q] \in SUBSET Standings
      BY <1>0 DEF Histories
    <3>2. CASE q \in Logins /\ pc[q] # "done"
      <4>1. PICK P \in Standings : P = Standing(args[q], rows', secret')
        BY StandingIs
      <4>2. stood'[q] = stood[q] \union {P}
        BY <1>4, <3>2, <4>1 DEF Watch
      <4>3. stood'[q] \in SUBSET Standings /\ P \in stood'[q]
        BY <3>1, <4>2
      <4> QED
        BY <4>1, <4>2, <4>3
    <3>3. CASE ~(q \in Logins /\ pc[q] # "done")
      <4>1. stood'[q] = stood[q]
        BY <1>4, <3>3 DEF Watch
      <4> QED
        BY <3>1, <3>3, <4>1 DEF Logins
    <3> QED
      BY <3>2, <3>3
  <2>2. Histories'
    BY <2>0, <2>1 DEF Histories
  <2>3. \A q \in Requests : Is(q, {"authenticate", "login"})' /\ pc[q] # "done" =>
           Standing(args'[q], rows', secret') \in stood'[q]
    BY <1>4, <2>0, <2>1
  <2> QED
    BY <2>1, <2>2, <2>3
<1>5. \/ UNCHANGED <<stood, table, args>>
      \/ UNCHANGED <<stood, table>> /\ args'[r] = [kind |-> "event"]
      \/ Arrive(r) /\ UNCHANGED table /\ pc[r] = "idle"
      \/ Watch /\ UNCHANGED args
  <2>1. CASE Written(r)
    BY <2>1 DEF Written, CarryOut, elsewhere
  <2>2. CASE StatementFails(r)
    BY <2>2 DEF StatementFails, CarryOut, elsewhere
  <2>3. CASE Duplicate(r) \/ Got(r) \/ Checked(r)
    BY <2>3 DEF Duplicate, Got, Checked, elsewhere
  <2>4. CASE RejectInput(r) \/ Login(r)
    BY <2>4 DEF RejectInput, Login
  <2>5. CASE Begin(r) \/ Refused(r)
    BY <2>5 DEF Begin, Refused
  <2>6. CASE BeginEvent(r) \/ EventRefused(r)
    BY <1>0, <2>6 DEF BeginEvent, EventRefused, here, Asked
  <2>7. CASE EventService(r) \/ EventCreated(r) \/ EventFails(r)
    BY <2>7 DEF EventService, EventCreated, EventFails, here
  <2> QED
    BY <2>1, <2>2, <2>3, <2>4, <2>5, <2>6, <2>7 DEF Handle, Statement, CreateVendorEvent
<1> QED
  BY <1>1, <1>2, <1>3, <1>4, <1>5

(* Whatever is said of a login's credentials was seen of them. *)
LEMMA Verdicts ==
    ASSUME IInv, NEW r \in Requests, Handle(r) \/ CreateVendorEvent(r),
           Is(r, {"authenticate", "login"})'
    PROVE  /\ \/ reply'[r] = reply[r] \/ reply'[r] \in {"refused", "error"}
              \/ reply'[r] = "ok" /\ "right" \in stood'[r]
              \/ reply'[r] = "unauthorized" /\ (Doubted(stood'[r]) \/ service = "vendor")
           /\ \/ answer'[r] = answer[r] \/ answer'[r] \notin {"ok", "token", "unauthorized"}
              \/ answer'[r] \in {"ok", "token"} /\ "right" \in stood'[r]
              \/ /\ answer'[r] = "unauthorized"
                 /\ Doubted(stood'[r]) \/ service = "vendor" \/ reply'[r] \in {"refused", "error"}
<1>0. Shape /\ Asked /\ Seen /\ Histories /\ service \in {"user", "vendor"}
  BY DEF IInv, Shape
<1>1. pc[r] # "idle" => args'[r] = args[r] /\ r \in Logins /\ stood[r] \subseteq stood'[r]
  BY WhoWrites, RightStep DEF Logins, Is
<1>2. CASE Checked(r)
  <2>1. pc[r] = "inside" /\ UNCHANGED stood
           /\ Reply(r, args[r].kind, IF Valid(args[r]) THEN "ok" ELSE "unauthorized")
    BY <1>2 DEF Checked, Runs
  <2>2. r \in Logins /\ Standing(args[r], rows, secret) \in stood[r]
    BY <1>0, <1>1, <2>1 DEF Seen
  <2>3. CASE Valid(args[r])
    <3>1. "right" \in stood'[r]
      BY <1>0, <2>1, <2>2, <2>3, ValidIsRight
    <3>2. Reply(r, args[r].kind, "ok")
      BY <2>1, <2>3
    <3>3. /\ reply'[r] = reply[r] \/ reply'[r] = "ok"
          /\ answer'[r] = answer[r] \/ answer'[r] = "ok"
      BY <1>0, <3>2, ReplyIs
    <3> QED
      BY <3>1, <3>3
  <2>4. CASE ~Valid(args[r])
    <3>1. Doubted(stood'[r]) \/ service = "vendor"
      BY <1>0, <2>1, <2>2, <2>4, ValidIsRight DEF Standings, Histories, Doubted
    <3>2. Reply(r, args[r].kind, "unauthorized")
      BY <2>1, <2>4
    <3>3. /\ reply'[r] = reply[r] \/ reply'[r] = "unauthorized"
          /\ answer'[r] = answer[r] \/ answer'[r] = "unauthorized"
      BY <1>0, <3>2, ReplyIs
    <3> QED
      BY <3>1, <3>3
  <2> QED
    BY <2>3, <2>4
<1>3. CASE Login(r)
  <2>1. /\ pc[r] = "replied" /\ reply' = reply
        /\ Answer(r, Verdict(reply[r])) \/ Answer(r, "error")
    BY <1>3 DEF Login
  <2>2. r \in Logins /\ stood[r] \subseteq stood'[r] /\ reply[r] \in {"ok", "unauthorized", "refused", "error"}
    BY <1>0, <1>1, <2>1 DEF Asked, Shape
  <2>3. CASE reply[r] = "ok" /\ Answer(r, Verdict(reply[r]))
    <3>1. Answer(r, "token")
      BY <2>3 DEF Verdict
    <3>2. answer'[r] = "token"
      BY <1>0, <3>1, Moves
    <3>3. "right" \in stood'[r]
      BY <1>0, <2>2, <2>3 DEF Seen
    <3> QED
      BY <2>1, <3>2, <3>3
  <2>4. CASE reply[r] # "ok" /\ Answer(r, Verdict(reply[r]))
    <3>1. Answer(r, "unauthorized")
      BY <2>4 DEF Verdict
    <3>2. answer'[r] = "unauthorized"
      BY <1>0, <3>1, Moves
    <3>3. Doubted(stood'[r]) \/ service = "vendor" \/ reply'[r] \in {"refused", "error"}
      BY <1>0, <2>1, <2>2, <2>4 DEF Seen, Doubted
    <3> QED
      BY <2>1, <3>2, <3>3
  <2>5. CASE Answer(r, "error")
    <3>1. answer'[r] = "error"
      BY <1>0, <2>5, Moves
    <3> QED
      BY <2>1, <3>1
  <2> QED
    BY <2>1, <2>3, <2>4, <2>5
<1>4. CASE Refused(r)
  <2>1. PICK what \in {"refused", "missing", "error"} :
           Reply(r, args'[r].kind, what) /\ (args'[r].kind \in {"get"} \/ what # "missing")
    BY <1>4 DEF Refused, Refusal
  <2>2. what # "missing"
    BY <2>1 DEF Is
  <2>3. /\ reply'[r] = reply[r] \/ reply'[r] = what
        /\ answer'[r] = answer[r] \/ answer'[r] = what
    BY <1>0, <2>1, <2>2, ReplyIs
  <2> QED
    BY <2>2, <2>3
<1>5. CASE StatementFails(r)
  <2>1. args' = args /\ Reply(r, args[r].kind, Failure(args[r].kind))
    BY <1>5 DEF StatementFails, elsewhere
  <2>2. Reply(r, args[r].kind, "error")
    BY <2>1 DEF Failure, Is
  <2>3. /\ reply'[r] = reply[r] \/ reply'[r] = "error"
        /\ answer'[r] = answer[r] \/ answer'[r] = "error"
    BY <1>0, <2>2, ReplyIs
  <2> QED
    BY <2>3
<1>6. CASE Written(r) \/ Duplicate(r) \/ Got(r)
  BY <1>6 DEF Written, Duplicate, Got, Runs, Is, Writes, elsewhere
<1>7. CASE RejectInput(r)
  BY <1>0, <1>7, Moves DEF RejectInput
<1>8. CASE Begin(r)
  BY <1>8 DEF Begin
<1>9. CASE BeginEvent(r) \/ EventRefused(r)
  <2>1. args'[r] = [kind |-> "event"]
    BY <1>0, <1>9 DEF BeginEvent, EventRefused, Asked
  <2> QED
    BY <2>1 DEF Is
<1>10. CASE EventService(r)
  BY <1>10 DEF EventService, here
<1>11. CASE EventCreated(r) \/ EventFails(r)
  <2>1. pc[r] = "posting" /\ args' = args
    BY <1>11 DEF EventCreated, EventFails
  <2> QED
    BY <1>0, <2>1 DEF Asked, Is
<1> QED
  BY <1>2, <1>3, <1>4, <1>5, <1>6, <1>7, <1>8, <1>9, <1>10, <1>11
     DEF Handle, Statement, CreateVendorEvent

(* What was seen stays seen. *)
LEMMA DoubtStays ==
    ASSUME NEW S, NEW T, S \subseteq T, Doubted(S)
    PROVE  Doubted(T)
BY DEF Doubted

(* Every step keeps what is known of the logins. *)
LEMMA LoginStep ==
    ASSUME IInv, NEW r \in Requests, Handle(r) \/ CreateVendorEvent(r)
    PROVE  Seen' /\ LoginsAreTrue' /\ Histories'
<1>0. /\ Shape /\ Asked /\ Asked' /\ Seen /\ LoginsAreTrue /\ Own(r) /\ UNCHANGED service
      /\ service \in {"user", "vendor"}
  BY AskedStep DEF IInv, Shape
<1>1. Histories'
  BY RightStep
<1>2. ASSUME NEW q \in Requests, Is(q, {"authenticate", "login"})'
      PROVE  /\ pc'[q] # "done" => pc[q] # "done"
             /\ reply'[q] = "ok" => "right" \in stood'[q]
             /\ reply'[q] = "unauthorized" => Doubted(stood'[q]) \/ service = "vendor"
             /\ answer'[q] \in {"ok", "token"} => "right" \in stood'[q]
             /\ answer'[q] = "unauthorized" =>
                   Doubted(stood'[q]) \/ service = "vendor" \/ reply'[q] \in {"refused", "error"}
  <2>1. CASE q = r
    <3>1. pc[r] = "idle" => reply[r] = None /\ answer[r] = None
      BY <1>0 DEF Asked
    <3>2. pc[r] # "idle" => r \in Logins /\ stood[r] \subseteq stood'[r]
      BY <1>2, <2>1, WhoWrites, RightStep DEF Logins, Is
    <3>3. pc[r] = "done" => pc'[r] = "done" /\ reply'[r] = reply[r]
      BY WhoWrites
    <3>4. answer'[r] = answer[r] /\ answer[r] # None => pc[r] = "done"
      BY <1>0 DEF Asked
    <3>5. /\ reply[r] = "ok" => "right" \in stood'[r]
          /\ reply[r] = "unauthorized" => Doubted(stood'[r]) \/ service = "vendor"
      BY <1>0, <3>1, <3>2 DEF Seen, Doubted, None
    <3>6. /\ answer[r] \in {"ok", "token"} => "right" \in stood'[r]
          /\ answer[r] = "unauthorized" /\ answer'[r] = answer[r] =>
                Doubted(stood'[r]) \/ service = "vendor" \/ reply'[r] \in {"refused", "error"}
      <4>1. CASE pc[r] = "idle"
        BY <3>1, <4>1 DEF None
      <4>2. CASE pc[r] # "idle"
        <5>1. /\ answer[r] \in {"ok", "token"} => "right" \in stood[r]
              /\ answer[r] = "unauthorized" =>
                    Doubted(stood[r]) \/ service = "vendor" \/ reply[r] \in {"refused", "error"}
          BY <1>0, <3>2, <4>2 DEF LoginsAreTrue, Doubted
        <5>2. answer[r] = "unauthorized" /\ answer'[r] = answer[r] => reply'[r] = reply[r]
          BY <3>3, <3>4 DEF None
        <5>3. Doubted(stood[r]) => Doubted(stood'[r])
          BY <3>2, <4>2, DoubtStays
        <5> QED
          BY <3>2, <4>2, <5>1, <5>2, <5>3
      <4> QED
        BY <4>1, <4>2
    <3> QED
      BY <1>2, <2>1, <3>3, <3>5, <3>6, Verdicts
  <2>2. CASE q # r
    <3>1. /\ args'[q] = args[q] /\ pc'[q] = pc[q] /\ reply'[q] = reply[q] /\ answer'[q] = answer[q]
      BY <1>0, <2>2 DEF Own
    <3>2. q \in Logins /\ pc[q] # "idle" => stood[q] \subseteq stood'[q]
      BY RightStep
    <3>3. q \in Logins
      BY <1>2, <3>1 DEF Logins, Is
    <3>4. pc[q] # "idle"
      BY <1>0, <3>3 DEF Logins, Asked, Is, NoArgs, None
    <3> QED
      <4>1. /\ reply[q] = "ok" => "right" \in stood[q]
            /\ reply[q] = "unauthorized" => Doubted(stood[q]) \/ service = "vendor"
            /\ answer[q] \in {"ok", "token"} => "right" \in stood[q]
            /\ answer[q] = "unauthorized" =>
                  Doubted(stood[q]) \/ service = "vendor" \/ reply[q] \in {"refused", "error"}
        BY <1>0, <3>3 DEF Seen, LoginsAreTrue, Doubted
      <4>2. Doubted(stood[q]) => Doubted(stood'[q])
        BY <3>2, <3>3, <3>4, DoubtStays
      <4> QED
        BY <3>1, <3>2, <3>3, <3>4, <4>1, <4>2
  <2> QED
    BY <2>1, <2>2
<1>3. \A q \in Logins' : q \in Requests /\ Is(q, {"authenticate", "login"})'
  BY DEF Logins, Is
<1>4. Seen'
  BY <1>0, <1>2, <1>3, RightStep DEF Seen
<1>5. LoginsAreTrue'
  BY <1>0, <1>2, <1>3 DEF LoginsAreTrue, Doubted
<1> QED
  BY <1>1, <1>4, <1>5

-----------------------------------------------------------------------------
(***************************************************************************)
(* The gates and the POSTs.                                                *)
(***************************************************************************)
(* Every handler leaves the gate that it entered, when it is done.         *)
LEMMA SlotStep ==
    ASSUME IInv, NEW r \in Requests, Handle(r) \/ CreateVendorEvent(r)
    PROVE  GateOK' /\ inside' = {q \in Requests : pc'[q] = "inside"}
<1>0. GateOK /\ inside = {q \in Requests : pc[q] = "inside"} /\ Shape' /\ Own(r) /\ Shape /\ Asked
  BY AskedStep DEF IInv, Posted
<1>1. ASSUME GateOK', pc'[r] # "inside", inside' = inside \ {r}
      PROVE  inside' = {q \in Requests : pc'[q] = "inside"}
  BY <1>0, <1>1 DEF Own
<1>2. ASSUME UNCHANGED gate, pc[r] # "inside", pc'[r] # "inside"
      PROVE  GateOK' /\ inside' = {q \in Requests : pc'[q] = "inside"}
  BY <1>0, <1>2 DEF GateOK, gate, Own
<1>3. CASE Statement(r)
  <2>1. GateOK' /\ inside' = inside \ {r}
    BY <1>0, <1>3, ReportLeaves DEF Statement, Written, Duplicate, Got, Checked, StatementFails
  <2>2. pc'[r] # "inside"
    BY <1>3, OutcomeIs
  <2> QED
    BY <1>1, <2>1, <2>2
<1>4. CASE Begin(r)
  <2>1. GateOK' /\ inside' = inside \union {r}
    BY <1>0, <1>4, AdmissionEnters DEF Begin
  <2>2. pc'[r] = "inside"
    BY <1>0, <1>4, Moves DEF Begin
  <2> QED
    BY <1>0, <2>1, <2>2 DEF Own
<1>5. CASE Refused(r)
  <2>1. UNCHANGED gate /\ pc[r] = "idle"
    BY <1>5 DEF Refused, Gate!Refuse, Gate!gateVars, gate
  <2>2. pc'[r] # "inside"
    BY <1>0, <1>5 DEF Refused, Reply, Answer, GoTo, Shape
  <2> QED
    BY <1>2, <2>1, <2>2
<1>6. CASE RejectInput(r) \/ Login(r)
  <2>1. UNCHANGED gate /\ pc[r] # "inside" /\ pc'[r] # "inside"
    BY <1>0, <1>6 DEF RejectInput, Login, Answer, GoTo, Shape
  <2> QED
    BY <1>2, <2>1
<1>7. CASE CreateVendorEvent(r)
  <2>1. UNCHANGED gate /\ pc[r] # "inside" /\ pc'[r] # "inside"
    <3>1. CASE EventService(r)
      <4>1. post[r] # None
        BY <3>1 DEF EventService, None
      <4> QED
        BY <1>0, <3>1, <4>1 DEF EventService, here, IInv, Posted
    <3>2. CASE BeginEvent(r) \/ EventRefused(r) \/ EventCreated(r) \/ EventFails(r)
      BY <1>0, <3>2 DEF BeginEvent, EventRefused, EventCreated, EventFails, here, Answer, GoTo, Shape
    <3> QED
      BY <1>7, <3>1, <3>2 DEF CreateVendorEvent
  <2> QED
    BY <1>2, <2>1
<1> QED
  BY <1>3, <1>4, <1>5, <1>6, <1>7 DEF Handle

(* What a POST has come to goes with what the vendor is told. *)
LEMMA PostStep ==
    ASSUME IInv, NEW r \in Requests, Handle(r) \/ CreateVendorEvent(r)
    PROVE  EventGateOK' /\ Posted' /\ PostsAccounted'
<1>0. /\ EventGateOK /\ Posted /\ PostsAccounted /\ Shape /\ Asked /\ Own(r)
      /\ eInside = {q \in Requests : pc[q] = "posting"}
      /\ inside' = {q \in Requests : pc'[q] = "inside"}
  BY AskedStep, SlotStep DEF IInv, PostsAccounted
<1>1. CASE Handle(r)
  <2>1. UNCHANGED <<eGate, post>> /\ pc[r] # "posting" /\ pc'[r] # "posting"
    <3>1. CASE Statement(r)
      BY <3>1, OutcomeIs
    <3>2. CASE RejectInput(r) \/ Begin(r) \/ Login(r)
      BY <1>0, <3>2 DEF RejectInput, Begin, Login, Answer, GoTo, Shape
    <3>3. CASE Refused(r)
      BY <1>0, <3>3 DEF Refused, Reply, Answer, GoTo, Shape
    <3> QED
      BY <1>1, <3>1, <3>2, <3>3 DEF Handle
  <2>2. eInside' = {q \in Requests : pc'[q] = "posting"} /\ EventGateOK'
    BY <1>0, <2>1 DEF EventGateOK, eGate, Own
  <2>3. post[r] = None
    <3>1. CASE pc[r] # "done"
      BY <1>0, <2>1, <3>1 DEF Posted
    <3>2. pc[r] # "done"
      BY <1>1 DEF Handle, RejectInput, Begin, Refused, Login, Statement, Written, Duplicate, Got,
                  Checked, StatementFails, Runs
    <3> QED
      BY <3>1, <3>2
  <2>4. ~Is(r, {"event"})'
    <3>1. CASE RejectInput(r)
      BY <1>0, <3>1 DEF RejectInput, Asked, Is, NoArgs, None
    <3>2. CASE Begin(r) \/ Refused(r)
      <4>1. args'[r] \in Inputs
        BY <1>0, <3>2, Arrival DEF Begin, Refused
      <4> QED
        BY <4>1, InputsAre DEF Is, Handled
    <3>3. CASE Statement(r) \/ Login(r)
      <4>1. Is(r, Handled) /\ args'[r] = args[r]
        BY <1>0, <3>3, OutcomeIs DEF Asked, Login, Is, Handled
      <4> QED
        BY <4>1 DEF Is, Handled
    <3> QED
      BY <1>1, <3>1, <3>2, <3>3 DEF Handle
  <2>5. Posted'
    BY <1>0, <2>1, <2>3 DEF Posted, Own, Is
  <2>6. PostsAccounted'
    BY <1>0, <2>1, <2>2, <2>4 DEF PostsAccounted, EventGateOK, Own, Is, eGate
  <2> QED
    BY <2>2, <2>5, <2>6
<1>2. CASE BeginEvent(r)
  <2>1. /\ EventGateOK' /\ eInside' = eInside \union {r}
        /\ pc[r] = "idle" /\ pc'[r] = "posting" /\ args'[r] = [kind |-> "event"]
        /\ post'[r] = "sent" /\ answer' = answer
    BY <1>0, <1>2, EventAdmissionEnters DEF BeginEvent, GoTo, Asked, Shape
  <2>2. answer'[r] = None /\ Is(r, {"event"})'
    BY <1>0, <2>1 DEF Asked, Is
  <2>3. Posted'
    BY <1>0, <2>1, <2>2 DEF Posted, Own, Is
  <2>4. eInside' = {q \in Requests : pc'[q] = "posting"}
    BY <1>0, <2>1 DEF Own
  <2>5. PostsAccounted'
    BY <1>0, <2>1, <2>2, <2>4 DEF PostsAccounted, EventGateOK, Own, Is, None
  <2> QED
    BY <2>1, <2>3, <2>5
<1>3. CASE EventRefused(r)
  <2>1. /\ UNCHANGED <<eGate, post>> /\ args'[r] = [kind |-> "event"]
        /\ pc[r] = "idle" /\ pc'[r] = "done" /\ answer'[r] = "refused"
    BY <1>0, <1>3 DEF EventRefused, Events!Refuse, Events!gateVars, eGate, Answer, GoTo, Asked, Shape
  <2>2. post'[r] = None
    BY <1>0, <2>1 DEF Posted
  <2>3. EventGateOK' /\ eInside' = {q \in Requests : pc'[q] = "posting"}
    BY <1>0, <2>1 DEF EventGateOK, eGate, Own
  <2>4. Posted'
    BY <1>0, <2>1, <2>2 DEF Posted, Own, Is
  <2>5. PostsAccounted'
    BY <1>0, <2>1, <2>2, <2>3 DEF PostsAccounted, EventGateOK, Own, Is, eGate
  <2> QED
    BY <2>3, <2>4, <2>5
<1>4. CASE EventService(r)
  <2>1. /\ UNCHANGED <<eGate, args, pc, answer>> /\ post[r] = "sent"
        /\ \A q \in Requests : post'[q] = IF q = r THEN post'[r] ELSE post[q]
    BY <1>0, <1>4 DEF EventService, Shape
  <2>2. answer[r] # "created" /\ answer[r] # "refused"
    BY <1>0, <2>1 DEF Posted, PostsAccounted, None
  <2>3. EventGateOK' /\ Posted'
    BY <1>0, <2>1 DEF EventGateOK, Posted, eGate, Is, None
  <2>4. PostsAccounted'
    BY <1>0, <2>1, <2>2 DEF PostsAccounted, eGate, Is
  <2> QED
    BY <2>3, <2>4
<1>5. CASE EventCreated(r) \/ EventFails(r)
  <2>1. /\ EventGateOK' /\ eInside' = eInside \ {r}
    BY <1>0, <1>5, EventReportLeaves DEF EventCreated, EventFails, EventFailed
  <2>2. /\ UNCHANGED <<args, post>> /\ pc[r] = "posting" /\ pc'[r] = "done"
        /\ answer'[r] = "error" \/ (answer'[r] = "created" /\ post[r] = "stored")
    BY <1>0, <1>5 DEF EventCreated, EventFails, Answer, GoTo, Shape
  <2>3. Posted'
    BY <1>0, <2>2 DEF Posted, Own, Is
  <2>4. eInside' = {q \in Requests : pc'[q] = "posting"}
    BY <1>0, <2>1, <2>2 DEF Own
  <2>5. PostsAccounted'
    BY <1>0, <2>1, <2>2, <2>4 DEF PostsAccounted, EventGateOK, Own, Is
  <2> QED
    BY <2>1, <2>3, <2>5
<1> QED
  BY <1>1, <1>2, <1>3, <1>4, <1>5 DEF CreateVendorEvent

-----------------------------------------------------------------------------
(* The invariant from which the properties of the runs follow. *)
THEOREM Inductive == Spec => []IInv
<1>1. IInv /\ [Next]_vars => IInv'
  <2> SUFFICES ASSUME IInv, [Next]_vars
               PROVE  IInv'
    OBVIOUS
  <2>1. ASSUME NEW r \in Requests, Handle(r) \/ CreateVendorEvent(r)
        PROVE  IInv'
    BY <2>1, AskedStep, TableStep, LoginStep, SlotStep, PostStep DEF IInv
  <2>2. CASE UNCHANGED vars
    <3> USE <2>2 DEF vars, gate, eGate, table
    <3>1. (GateOK /\ EventGateOK /\ Shape => GateOK' /\ EventGateOK' /\ Shape')
      BY DEF GateOK, EventGateOK, Shape
    <3>2. Asked => Asked'
      BY DEF Asked, Is, Inputs, Account, Target
    <3>3. (Rows => Rows') /\ (Done => Done')
      BY DEF Rows, Done, Exists, Is
    <3>4. Stored => Stored'
      BY DEF Stored, Exists, Hashed, Hash, Text
    <3>5. Kept => Kept'
      BY DEF Kept, Changed, Exists, Is
    <3>6. (Seen => Seen') /\ (LoginsAreTrue => LoginsAreTrue') /\ (Histories => Histories')
      BY DEF Seen, LoginsAreTrue, Logins, Is, Histories
    <3>7. (Posted => Posted') /\ (PostsAccounted => PostsAccounted')
      BY DEF Posted, PostsAccounted, Is
    <3> QED
      BY <3>1, <3>2, <3>3, <3>4, <3>5, <3>6, <3>7 DEF IInv
  <2> QED
    BY <2>1, <2>2 DEF Next, AllDone
<1> QED
  BY <1>1, InitHolds, PTL DEF Spec

(***************************************************************************)
(* For any requests, accounts and passwords: the user service's and the    *)
(* vendor service's checks and the auth service's Login say yes only of    *)
(* credentials that were right at some moment of the check; the user       *)
(* service says no only of ones that were wrong, or emptied by an UPDATE   *)
(* without a password, and the auth service also when that service fails.  *)
(***************************************************************************)
THEOREM LoginsHold == Spec => []LoginsAreTrue
<1>1. IInv => LoginsAreTrue
  BY DEF IInv
<1> QED
  BY <1>1, Inductive, PTL

(***************************************************************************)
(* What CreateUser and CreateVendor tell the client is so of the table     *)
(* until another request changes it, and names stay unique.                *)
(***************************************************************************)
THEOREM AnswersHold == Spec => []AnswersMatchTable
<1>1. ASSUME IInv
      PROVE  AnswersMatchTable
  <2>1. \A r \in Requests : Is(r, {"create"}) /\ answer[r] \in {"conflict", "refused"} => ~Exists(r)
    BY <1>1 DEF IInv, Rows, Done
  <2> QED
    BY <1>1, <2>1 DEF IInv, Rows, Kept, AnswersMatchTable
<1> QED
  BY <1>1, Inductive, PTL

(***************************************************************************)
(* CreateVendorEvent's answers are so of the POST, its breaker holds a     *)
(* slot for exactly the POSTs that wait, and one that refuses everyone     *)
(* with no trial left waits for a POST that is out.                        *)
(***************************************************************************)
THEOREM PostsHold == Spec => []PostsAccounted
<1>1. IInv => PostsAccounted
  BY DEF IInv
<1> QED
  BY <1>1, Inductive, PTL

(* Types hold: a password is hashed at most twice. *)
THEOREM Typed == Spec => []TypeOK
<1>1. ASSUME IInv
      PROVE  TypeOK
  <2>1. args \in [Requests -> {NoArgs} \union Inputs \union [kind : {"event"}]]
    BY <1>1 DEF IInv, Asked
  <2> QED
    BY <1>1, <2>1 DEF IInv, GateOK, EventGateOK, Shape, Rows, Done, Histories, Given, TypeOK
<1> QED
  BY <1>1, Inductive, PTL

(* The breaker in front of the table has a statement that decides whenever *)
(* it is half-open and refuses everyone.                                   *)
THEOREM StatementsDecide == Spec => []SomeStatementDecides
<1>1. IInv => SomeStatementDecides
  BY DEF IInv, GateOK, Posted, SomeStatementDecides
<1> QED
  BY <1>1, Inductive, PTL

(***************************************************************************)
(* What the handlers do to the two breakers are behaviours of ProbeGate:   *)
(* every statement and every POST is admitted once and reported once.      *)
(***************************************************************************)
THEOREM GatesFollowed == Spec => Gate!Spec /\ Events!Spec
<1>1. Init => Gate!Init /\ Events!Init
  BY DEF Init
<1>2. [Next]_vars => [Gate!Next]_(Gate!gateVars) /\ [Events!Next]_(Events!gateVars)
  <2> SUFFICES ASSUME [Next]_vars
               PROVE  /\ Gate!Next \/ UNCHANGED gate
                      /\ Events!Next \/ UNCHANGED eGate
    BY DEF gate, eGate, Gate!gateVars, Events!gateVars
  <2>1. ASSUME NEW r \in Requests, Handle(r)
        PROVE  UNCHANGED eGate /\ (Gate!Next \/ UNCHANGED gate)
    <3>1. CASE Begin(r) \/ Refused(r)
      BY <3>1 DEF Begin, Refused, Gate!Next
    <3>2. CASE Statement(r)
      BY <3>2 DEF Statement, Written, Duplicate, Got, Checked, StatementFails, elsewhere, Gate!Next
    <3>3. CASE RejectInput(r) \/ Login(r)
      BY <3>3 DEF RejectInput, Login
    <3> QED
      BY <2>1, <3>1, <3>2, <3>3 DEF Handle
  <2>2. ASSUME NEW r \in Requests, CreateVendorEvent(r)
        PROVE  UNCHANGED gate /\ (Events!Next \/ UNCHANGED eGate)
    BY <2>2 DEF CreateVendorEvent, BeginEvent, EventRefused, EventService, EventCreated, EventFails,
                EventFailed, here, Events!Next
  <2>3. CASE UNCHANGED vars
    BY <2>3 DEF vars
  <2> QED
    BY <2>1, <2>2, <2>3 DEF Next, AllDone
<1> QED
  BY <1>1, <1>2, PTL DEF Spec, Gate!Spec, Events!Spec

=============================================================================
