------------------------------ MODULE Accounts ------------------------------
(***************************************************************************)
(* The user service, with the auth service's Login in front of it, or the  *)
(* vendor service, with its CreateVendorEvent: a table of accounts behind  *)
(* one circuit breaker.  The two services have the same statements and     *)
(* nearly the same handlers; service says which of them runs, and the      *)
(* actions name it where they differ.                                      *)
(*                                                                         *)
(* Every handler makes one guarded call with one statement.  The breaker   *)
(* is a gate of ProbeGate; the vendor service has another for its POSTs to *)
(* the event service, which have no timeout.                               *)
(*                                                                         *)
(* The e-mail column, as unique as the name, is abstracted to a conflict   *)
(* that any other row may cause.                                           *)
(***************************************************************************)
EXTENDS Naturals, FiniteSets

CONSTANTS
    Requests,
    Names,
    Passwords,
    NoPassword,   \* the empty string, also what a body without a password gives
    MaxTrials,    \* MaxRequests of the breakers
    MaxDBErrors   \* bound: statements that fail or whose reply is lost

ASSUME NoPasswordAssumption == NoPassword \notin Passwords
ASSUME BoundsAssumption == MaxTrials \in Nat \ {0} /\ MaxDBErrors \in Nat

VARIABLES
    service,      \* "user" or "vendor"
    mode, inside, trial, left,      \* the gate to the table
    eMode, eInside, eTrial, eLeft,  \* the vendor service's gate to the event service
    rows,         \* the table; a row's id is the request that created it
    args,         \* what each request asks for
    pc,
    reply,        \* what the user service tells the auth service of a login
    post,         \* the POST of an event, at the event service
    answer,       \* what the client is told
    dbErrors,
    secret,       \* history: the password last given for each row
    written,      \* history: requests whose statement changed the table
    stood         \* history: how a login's credentials stood while it ran

gate == <<mode, inside, trial, left>>
eGate == <<eMode, eInside, eTrial, eLeft>>
table == <<rows, secret, written>>
vars == <<service, gate, eGate, table, args, pc, reply, post, answer, dbErrors, stood>>

Gate == INSTANCE ProbeGate WITH Callers <- Requests
Events == INSTANCE ProbeGate WITH Callers <- Requests,
             mode <- eMode, inside <- eInside, trial <- eTrial, left <- eLeft

None == "none"

ASSUME NoneAssumption == None \notin Names \union Passwords \union {NoPassword}

(* A stored password is a text and the number of times bcrypt was applied. *)
Text(p) == [plain |-> p, hashed |-> 0]

NoRow == [name |-> None, password |-> Text(NoPassword)]
NoArgs == [kind |-> None]

Exists(id) == rows[id] # NoRow

Init ==
    /\ service \in {"user", "vendor"}
    /\ Gate!Init /\ Events!Init
    /\ rows = [r \in Requests |-> NoRow]
    /\ args = [r \in Requests |-> NoArgs]
    /\ pc = [r \in Requests |-> "idle"]
    /\ reply = [r \in Requests |-> None]
    /\ post = [r \in Requests |-> None]
    /\ answer = [r \in Requests |-> None]
    /\ dbErrors = 0
    /\ secret = [r \in Requests |-> None]
    /\ written = {}
    /\ stood = [r \in Requests |-> {}]

Account(kinds) == [kind : kinds, name : Names, password : Passwords \union {NoPassword}]
Target(kinds) == [kind : kinds, id : Requests]

Inputs ==
    Account({"create", "authenticate"})
    \union (IF service = "user" THEN Account({"login"}) ELSE {})
    \union [kind : {"update"}, name : Names, password : Passwords \union {NoPassword},
            id : Requests]
    \union Target({"delete", "get"}) \union [kind : {"list"}]

Is(r, kinds) == args[r].kind \in kinds

Logins == {r \in Requests : Is(r, {"authenticate", "login"})}

GoTo(r, step) == pc' = [pc EXCEPT ![r] = step]

Answer(r, a) == GoTo(r, "done") /\ answer' = [answer EXCEPT ![r] = a]

-----------------------------------------------------------------------------
Hash(stored) == [stored EXCEPT !.hashed = @ + 1]

(* The handler hashes, and the vendor repository hashes what it is given. *)
Hashed(p) == IF service = "vendor" THEN Hash(Hash(Text(p))) ELSE Hash(Text(p))

(* bcrypt.CompareHashAndPassword *)
Matches(stored, p) == stored = Hash(Text(p))

(* How credentials stand: an account of that name has that password, last  *)
(* given for it, or the row has lost it since, or there is none.           *)
Standings == {"right", "emptied", "wrong"}

Standing(a, tab, given) ==
    LET Accounts == {id \in Requests :
            tab[id] # NoRow /\ tab[id].name = a.name /\ given[id] = a.password}
    IN  IF Accounts = {} THEN "wrong"
        ELSE IF \A id \in Accounts : tab[id].password = Text(NoPassword) THEN "emptied"
        ELSE "right"

(* A login under way lives through every change of the table. *)
Watch == stood' = [q \in Requests |->
    IF q \in Logins /\ pc[q] # "done"
    THEN stood[q] \union {Standing(args[q], rows', secret')} ELSE stood[q]]

-----------------------------------------------------------------------------
(* The body is no JSON, the id no number, or the password longer than      *)
(* bcrypt takes: 400 or 500 before anything is called.                     *)
RejectInput(r) ==
    /\ pc[r] = "idle"
    /\ Answer(r, "rejected")
    /\ UNCHANGED <<service, gate, eGate, table, args, reply, post, dbErrors, stood>>

Arrive(r) == \E in \in Inputs :
    /\ args' = [args EXCEPT ![r] = in]
    /\ stood' = IF in.kind \in {"authenticate", "login"}
                THEN [stood EXCEPT ![r] = {Standing(in, rows, secret)}] ELSE stood

(* The reply of a login goes to the auth service, any other to the client. *)
Reply(r, kind, what) ==
    IF kind = "login"
    THEN reply' = [reply EXCEPT ![r] = what] /\ GoTo(r, "replied") /\ UNCHANGED answer
    ELSE Answer(r, what) /\ UNCHANGED reply

Begin(r) ==
    /\ pc[r] = "idle"
    /\ Gate!Admits(r)
    /\ Arrive(r)
    /\ GoTo(r, "inside")
    /\ UNCHANGED <<service, eGate, table, reply, post, answer, dbErrors>>

(* The user service answers 503 or 429.  To the vendor service a refusal   *)
(* is an error like any other, and a GET that ends in one is 404.          *)
Refusal(kind) ==
    CASE service = "user" -> "refused"
      [] kind = "get" -> "missing"
      [] OTHER -> "error"

Refused(r) ==
    /\ pc[r] = "idle"
    /\ Gate!Refuse(r)
    /\ Arrive(r)
    /\ Reply(r, args'[r].kind, Refusal(args'[r].kind))
    /\ UNCHANGED <<service, eGate, table, post, dbErrors>>

-----------------------------------------------------------------------------
Runs(r, kinds) == pc[r] = "inside" /\ Is(r, kinds)

elsewhere == <<service, eGate, args, post>>

(* The row an INSERT makes, or the one an UPDATE or a DELETE names. *)
RowOf(r) == IF Is(r, {"create"}) THEN r ELSE args[r].id

Others(r) == {id \in Requests \ {RowOf(r)} : Exists(id)}

(* Of the columns that are unique, only the name is in the model: any      *)
(* other row may have the e-mail.                                          *)
MayConflict(r) == Others(r) # {} /\ (Is(r, {"create"}) \/ Exists(RowOf(r)))
MustConflict(r) == MayConflict(r) /\ \E id \in Others(r) : rows[id].name = args[r].name

Put(id, row, given) ==
    /\ rows' = [rows EXCEPT ![id] = row]
    /\ secret' = [secret EXCEPT ![id] = given]

Insert(r) ==
    Put(r, [name |-> args[r].name, password |-> Hashed(args[r].password)], args[r].password)

(* The UPDATE sets every column; where no password is given, it stores the *)
(* empty string, and nobody has given the account another one.             *)
NewPassword(p) == IF p = NoPassword THEN Text(p) ELSE Hashed(p)

Overwrite(r) ==
    Put(args[r].id, [name |-> args[r].name, password |-> NewPassword(args[r].password)],
        IF args[r].password = NoPassword THEN secret[args[r].id] ELSE args[r].password)

(* An UPDATE or a DELETE of no row is carried out all the same. *)
CarryOut(r) ==
    /\ Is(r, {"create", "update"}) => ~MustConflict(r)
    /\ \/ Is(r, {"create"}) /\ Insert(r)
       \/ Is(r, {"update"}) /\ Exists(RowOf(r)) /\ Overwrite(r)
       \/ Is(r, {"delete"}) /\ Put(RowOf(r), NoRow, None)
       \/ Is(r, {"update"}) /\ ~Exists(RowOf(r)) /\ UNCHANGED <<rows, secret>>
    /\ written' = written \union {r}
    /\ Watch

Writes == {"create", "update", "delete"}

Written(r) ==
    /\ Runs(r, Writes)
    /\ CarryOut(r)
    /\ Gate!Succeeds(r)
    /\ Answer(r, IF Is(r, {"create"}) THEN "created" ELSE "ok")
    /\ UNCHANGED <<elsewhere, reply, dbErrors>>

(* A unique constraint: 409, and a failure to the breaker. *)
Duplicate(r) ==
    /\ Runs(r, {"create", "update"})
    /\ MayConflict(r)
    /\ Gate!Fails(r)
    /\ Answer(r, "conflict")
    /\ UNCHANGED <<elsewhere, table, reply, dbErrors, stood>>

(* Of a row that is not there the vendor service returns an empty vendor. *)
Found(r) == Is(r, {"list"}) \/ Exists(args[r].id) \/ service = "vendor"

Got(r) ==
    /\ Runs(r, {"get", "list"})
    /\ Gate!Succeeds(r)
    /\ Answer(r, IF Found(r) THEN "ok" ELSE "missing")
    /\ UNCHANGED <<elsewhere, table, reply, dbErrors, stood>>

Valid(a) == \E id \in Requests :
    Exists(id) /\ rows[id].name = a.name /\ Matches(rows[id].password, a.password)

(* CheckCredentials: wrong credentials are a success to the breaker. *)
Checked(r) ==
    /\ Runs(r, {"authenticate", "login"})
    /\ Gate!Succeeds(r)
    /\ Reply(r, args[r].kind, IF Valid(args[r]) THEN "ok" ELSE "unauthorized")
    /\ UNCHANGED <<elsewhere, table, dbErrors, stood>>

(* A GET that fails is answered with 404. *)
BugFailure(kind) == IF kind = "create" THEN "created" ELSE "error"
Failure(kind) == IF kind = "get" THEN "missing" ELSE "error"

(* The statement fails, or it is carried out and its reply is lost.  The   *)
(* user service's CreateUser then panics on the nil err it logs, which     *)
(* gin's recovery answers with 500 too, after the breaker was told.        *)
StatementFails(r) ==
    /\ pc[r] = "inside"
    /\ dbErrors < MaxDBErrors
    /\ dbErrors' = dbErrors + 1
    /\ (Runs(r, Writes) /\ CarryOut(r)) \/ UNCHANGED <<table, stood>>
    /\ Gate!Fails(r)
    /\ Reply(r, args[r].kind, Failure(args[r].kind))
    /\ UNCHANGED elsewhere

-----------------------------------------------------------------------------
(* Login of the auth service: 200 earns a token, every other status is     *)
(* taken for wrong credentials; the connection may break, or signing fail. *)
BugVerdict(what) == IF what \in {"ok", "refused"} THEN "token" ELSE "unauthorized"
Verdict(what) == IF what = "ok" THEN "token" ELSE "unauthorized"

Login(r) ==
    /\ pc[r] = "replied"
    /\ Answer(r, Verdict(reply[r])) \/ Answer(r, "error")
    /\ UNCHANGED <<service, gate, eGate, table, args, reply, post, dbErrors, stood>>

-----------------------------------------------------------------------------
(* CreateVendorEvent: the breaker runs a POST without a timeout. *)
here == <<service, gate, table, reply, dbErrors, stood>>

BeginEvent(r) ==
    /\ pc[r] = "idle" /\ service = "vendor"
    /\ Events!Admits(r)
    /\ args' = [args EXCEPT ![r] = [kind |-> "event"]]
    /\ post' = [post EXCEPT ![r] = "sent"]
    /\ GoTo(r, "posting")
    /\ UNCHANGED <<here, answer>>

EventRefused(r) ==
    /\ pc[r] = "idle" /\ service = "vendor"
    /\ Events!Refuse(r)
    /\ args' = [args EXCEPT ![r] = [kind |-> "event"]]
    /\ Answer(r, "refused")
    /\ UNCHANGED <<here, post>>

(* The event service stores the event or answers with another status; it   *)
(* may do neither for ever, and it may do so after the connection broke.   *)
EventService(r) ==
    /\ post[r] = "sent"
    /\ \E what \in {"stored", "failed"} : post' = [post EXCEPT ![r] = what]
    /\ UNCHANGED <<here, eGate, args, pc, answer>>

EventCreated(r) ==
    /\ pc[r] = "posting"
    /\ post[r] = "stored"
    /\ Events!Succeeds(r)
    /\ Answer(r, "created")
    /\ UNCHANGED <<here, args, post>>

BugEventFailed(r) == UNCHANGED eGate
EventFailed(r) == Events!Fails(r)

(* Another status, or the connection breaks. *)
EventFails(r) ==
    /\ pc[r] = "posting"
    /\ EventFailed(r)
    /\ Answer(r, "error")
    /\ UNCHANGED <<here, args, post>>

-----------------------------------------------------------------------------
Statement(r) == Written(r) \/ Duplicate(r) \/ Got(r) \/ Checked(r) \/ StatementFails(r)

Handle(r) == RejectInput(r) \/ Begin(r) \/ Refused(r) \/ Statement(r) \/ Login(r)

CreateVendorEvent(r) ==
    \/ BeginEvent(r) \/ EventRefused(r) \/ EventService(r)
    \/ EventCreated(r) \/ EventFails(r)

AllDone ==
    /\ \A r \in Requests : pc[r] = "done" /\ post[r] # "sent"
    /\ UNCHANGED vars

Next == AllDone \/ \E r \in Requests : Handle(r) \/ CreateVendorEvent(r)

Spec == Init /\ [][Next]_vars

-----------------------------------------------------------------------------
TypeOK ==
    /\ service \in {"user", "vendor"}
    /\ inside \subseteq Requests /\ trial \subseteq inside /\ left \in 0 .. MaxTrials
    /\ eInside \subseteq Requests /\ eTrial \subseteq eInside /\ eLeft \in 0 .. MaxTrials
    /\ rows \in [Requests -> {NoRow} \union
          [name : Names,
           password : [plain : Passwords \union {NoPassword}, hashed : 0 .. 2]]]
    /\ args \in [Requests -> {NoArgs} \union Inputs \union [kind : {"event"}]]
    /\ pc \in [Requests -> {"idle", "inside", "replied", "posting", "done"}]
    /\ reply \in [Requests -> {None, "ok", "unauthorized", "refused", "error"}]
    /\ post \in [Requests -> {None, "sent", "stored", "failed"}]
    /\ answer \in [Requests -> {None, "rejected", "refused", "error", "created", "ok",
                                "conflict", "missing", "unauthorized", "token"}]
    /\ dbErrors \in 0 .. MaxDBErrors
    /\ secret \in [Requests -> Passwords \union {NoPassword, None}]
    /\ written \subseteq Requests
    /\ stood \in [Requests -> SUBSET Standings]

(***************************************************************************)
(* A login is accepted only if the account had that password at some       *)
(* moment while it was checked, whoever registers, renames or deletes      *)
(* accounts meanwhile.  The user service rejects it only if it had not, or *)
(* an UPDATE that gave no password had emptied the column: handlers.go:180 *)
(* writes the empty string, and the owner cannot log in until a password   *)
(* is given.  The auth service also says 401 when the user service's       *)
(* breaker refuses or its database fails.                                  *)
(***************************************************************************)
LoginsAreTrue ==
    \A r \in Logins :
        /\ answer[r] \in {"ok", "token"} => "right" \in stood[r]
        /\ answer[r] = "unauthorized" /\ service = "user" =>
              \/ {"wrong", "emptied"} \intersect stood[r] # {}
              \/ reply[r] \in {"refused", "error"}

(***************************************************************************)
(* Vendors log in with the password last given for the account: the vendor *)
(* service rejects only credentials that were wrong at some moment of the  *)
(* check.  Test-VendorService.ps1 creates a vendor, updates it without a   *)
(* password and then authenticates with the first one, and                 *)
(* Ticketing_System_SRS.md:8 has vendors log in.  The code does not do it: *)
(* vendor_repository.go:27 hashes a hash, and line 86 empties the column.  *)
(***************************************************************************)
VendorsLogIn ==
    service = "vendor" =>
        \A r \in Logins : answer[r] = "unauthorized" => "wrong" \in stood[r]

Changed(id) == \E q \in written : Is(q, {"update", "delete"}) /\ args[q].id = id

(***************************************************************************)
(* Who is told 201 has an account with the name and the password asked for *)
(* until a request for that account changes it, who is told anything but   *)
(* 201 and an error has none, and no two accounts share a name, through    *)
(* conflicting requests, lost replies and an open breaker.                 *)
(***************************************************************************)
AnswersMatchTable ==
    /\ \A r \in Requests : Is(r, {"create"}) =>
          /\ answer[r] = "created" /\ ~Changed(r) =>
                Exists(r) /\ rows[r].name = args[r].name /\ secret[r] = args[r].password
          /\ answer[r] \in {"conflict", "refused"} => ~Exists(r)
    /\ \A i, j \in Requests : Exists(i) /\ Exists(j) /\ rows[i].name = rows[j].name => i = j

(***************************************************************************)
(* A vendor who is told 201 has the event, and who is refused has none; an *)
(* error leaves it open.  The breaker holds a slot for exactly the POSTs   *)
(* that wait, and when it refuses everyone with no trial left to admit,    *)
(* that lasts only while the POST of a trial is out: having no timeout,    *)
(* one that hangs keeps the event service unavailable to all vendors.      *)
(***************************************************************************)
PostsAccounted ==
    /\ \A r \in Requests : Is(r, {"event"}) =>
          /\ answer[r] = "created" => post[r] = "stored"
          /\ answer[r] = "refused" => post[r] = None
    /\ eInside = {r \in Requests : pc[r] = "posting"}
    /\ eMode = "HalfOpen" /\ eLeft = 0 => \E r \in eTrial : pc[r] = "posting"

(***************************************************************************)
(* The breaker in front of the table, when half-open and refusing          *)
(* everyone, waits for a statement that runs and will decide; whatever     *)
(* became of the others, no service is left half-open for good.            *)
(***************************************************************************)
SomeStatementDecides == mode = "HalfOpen" /\ left = 0 => \E r \in trial : pc[r] = "inside"

=============================================================================
