------------------------- MODULE TicketCheck_proofs -------------------------
(***************************************************************************)
(* Proofs about TicketCheck, for all scans, updates, readers and tickets:  *)
(* what VerifyTicket's answer says of the ticket, although the status may  *)
(* change between the scan, the SELECT and the answer, and that both       *)
(* breakers get their slots back.                                          *)
(***************************************************************************)
EXTENDS TicketCheck, TLAPS

Codes == Tickets \union {Unknown}

(* Each gate has its types, and only a half-open one has trials. *)
RGateOK ==
    /\ rMode \in {"Closed", "Open", "HalfOpen"}
    /\ rInside \subseteq Scans /\ rTrial \subseteq rInside
    /\ rLeft \in 0 .. MaxTrials
    /\ rMode # "HalfOpen" => rTrial = {}

TGateOK ==
    /\ tMode \in {"Closed", "Open", "HalfOpen"}
    /\ tInside \subseteq Requests /\ tTrial \subseteq tInside
    /\ tLeft \in 0 .. MaxTrials
    /\ tMode # "HalfOpen" => tTrial = {}

(* An update that passed its SELECT has a ticket and a status to write. *)
Updating == \A u \in Updates :
    /\ pc[u] \in {"checking", "checked", "writing"} => wanted[u] \in Statuses
    /\ pc[u] \in {"checked", "writing"} => code[u] \in Tickets

(* A scan asks for its code once, and is answered once. *)
Scanning == \A s \in Scans :
    /\ pc[s] \in {"idle", "reading", "read"} => get[s] = None
    /\ pc[s] \in {"idle", "reading"} => code[s] = None
    /\ pc[s] \in {"read", "asking"} \/ get[s] # None => code[s] \in Codes
    /\ pc[s] # "done" => answer[s] = None

(* What a scan has seen holds the current status of its ticket, and the    *)
(* status that a reply on its way carries; without a failed SELECT a reply *)
(* says "missing" only of a code of no ticket.                             *)
Seeing == \A s \in Scans :
    /\ code[s] \in Tickets => status[code[s]] \in seen[s]
    /\ code[s] = Unknown => "missing" \in seen[s]
    /\ get[s] \in Statuses => get[s] \in seen[s]
    /\ get[s] = "missing" /\ dbErrors = 0 => "missing" \in seen[s]

(* What the answer says was seen. *)
Answered == \A s \in Scans :
    /\ answer[s] = "valid" => "active" \in seen[s]
    /\ answer[s] = "invalid" /\ dbErrors = 0 =>
          \E st \in {"used", "cancelled", "missing"} : st \in seen[s]

IInv == TypeOK /\ RGateOK /\ TGateOK /\ SlotsMatchCalls /\ Updating /\ Scanning /\ Seeing /\ Answered

-----------------------------------------------------------------------------
(***************************************************************************)
(* The two gates.                                                          *)
(***************************************************************************)
(* Whatever lets a call of the reservation service into its gate puts      *)
(* exactly that scan inside (circuitbreaker.go: beforeRequest).            *)
LEMMA RAdmissionEnters ==
    ASSUME RGateOK, NEW s \in Scans, R!Admits(s)
    PROVE  RGateOK' /\ rInside' = rInside \union {s}
BY BoundsAssumption DEF RGateOK, R!Admits, R!Enter, R!FirstTrial, R!NextTrial

(* Whatever it reports, exactly that scan leaves (afterRequest).           *)
LEMMA RReportLeaves ==
    ASSUME RGateOK, NEW s \in Scans, R!Succeeds(s) \/ R!Fails(s)
    PROVE  RGateOK' /\ rInside' = rInside \ {s}
BY BoundsAssumption
   DEF RGateOK, R!Succeeds, R!Fails, R!Leave, R!Trip, R!Fail, R!Pass, R!LastPass

(* The same of the ticket service's gate, which all requests share.        *)
LEMMA TAdmissionEnters ==
    ASSUME TGateOK, NEW r \in Requests, T!Admits(r)
    PROVE  TGateOK' /\ tInside' = tInside \union {r}
BY BoundsAssumption DEF TGateOK, T!Admits, T!Enter, T!FirstTrial, T!NextTrial

(* A call that reports to the ticket service's breaker leaves its gate.    *)
LEMMA TReportLeaves ==
    ASSUME TGateOK, NEW r \in Requests, T!Succeeds(r) \/ T!Fails(r)
    PROVE  TGateOK' /\ tInside' = tInside \ {r}
BY BoundsAssumption
   DEF TGateOK, T!Succeeds, T!Fails, T!Leave, T!Trip, T!Fail, T!Pass, T!LastPass

(* What each handler does to the reservation service's gate. *)
LEMMA RGateStep ==
    ASSUME IInv, NEW s \in Scans, VerifyTicket(s)
    PROVE  /\ RGateOK'
           /\ rInside' = IF pc'[s] \in {"reading", "asking"} THEN rInside \union {s}
                                                            ELSE rInside \ {s}
           /\ UNCHANGED tGate
<1>0. RGateOK /\ TypeOK /\ s \in Requests
  BY DEF IInv, Requests
<1>1. CASE Scan(s) \/ Ask(s)
  BY <1>0, <1>1, RAdmissionEnters DEF TypeOK, Scan, Ask, GoTo
<1>2. CASE ScanRefused(s)
  <2>1. s \notin rInside /\ UNCHANGED rGate
    BY <1>2 DEF ScanRefused, R!Refuse, R!gateVars, rGate
  <2> QED
    BY <1>0, <1>2, <2>1 DEF RGateOK, rGate, TypeOK, ScanRefused, Answer, GoTo
<1>3. CASE Read(s) \/ ReadFails(s) \/ Judge(s) \/ NoReply(s)
  <2>1. R!Succeeds(s) \/ R!Fails(s)
    BY <1>3 DEF Read, ReadFails, Judge, NoReply, GiveUp
  <2>2. pc'[s] \in {"read", "done"} /\ UNCHANGED tGate
    BY <1>0, <1>3 DEF TypeOK, Read, ReadFails, Judge, NoReply, Answer, GoTo
  <2> QED
    BY <1>0, <2>1, <2>2, RReportLeaves
<1> QED
  BY <1>1, <1>2, <1>3 DEF VerifyTicket

(* What the ticket service's handlers do to its gate. *)
LEMMA TGateStep ==
    ASSUME IInv
    PROVE  /\ \A s \in Scans : GetTicketByCode(s) =>
                 /\ TGateOK'
                 /\ tInside' = IF get'[s] = "inside" THEN tInside \union {s} ELSE tInside \ {s}
           /\ \A u \in Updates : UpdateTicketStatus(u) =>
                 /\ TGateOK'
                 /\ tInside' = IF pc'[u] \in {"checking", "writing"} THEN tInside \union {u}
                                                                   ELSE tInside \ {u}
           /\ \A v \in Readers : Show(v) =>
                 /\ TGateOK'
                 /\ tInside' = IF pc'[v] = "selecting" THEN tInside \union {v} ELSE tInside \ {v}
<1>0. TGateOK /\ TypeOK
  BY DEF IInv
<1>1. ASSUME NEW r \in Requests, T!Refuse(r)
      PROVE  TGateOK' /\ UNCHANGED tInside /\ r \notin tInside
  BY <1>0, <1>1 DEF TGateOK, T!Refuse, T!gateVars
<1>2. ASSUME NEW s \in Scans, GetTicketByCode(s)
      PROVE  /\ TGateOK'
             /\ tInside' = IF get'[s] = "inside" THEN tInside \union {s} ELSE tInside \ {s}
  <2>1. s \in Requests
    BY DEF Requests
  <2>2. CASE LookUp(s)
    BY <1>0, <2>1, <2>2, TAdmissionEnters DEF TypeOK, LookUp, Reply
  <2>3. CASE LookUpRefused(s)
    BY <1>0, <1>1, <2>1, <2>3 DEF TypeOK, LookUpRefused, Reply
  <2>4. CASE LookUpFinds(s) \/ LookUpFails(s)
    <3>1. get'[s] # "inside" /\ (T!Succeeds(s) \/ T!Fails(s))
      BY <1>0, <2>4 DEF TypeOK, LookUpFinds, LookUpFails, Reply, Statuses
    <3> QED
      BY <1>0, <2>1, <3>1, TReportLeaves
  <2> QED
    BY <1>2, <2>2, <2>3, <2>4 DEF GetTicketByCode
<1>3. ASSUME NEW u \in Updates, UpdateTicketStatus(u)
      PROVE  /\ TGateOK'
             /\ tInside' = IF pc'[u] \in {"checking", "writing"} THEN tInside \union {u}
                                                               ELSE tInside \ {u}
  <2>1. u \in Requests
    BY DEF Requests
  <2>2. CASE Update(u) \/ BeginWrite(u)
    BY <1>0, <2>1, <2>2, TAdmissionEnters DEF TypeOK, Update, BeginWrite, GoTo
  <2>3. CASE UpdateRefused(u)
    <3>1. pc'[u] = "done" /\ T!Refuse(u)
      BY <1>0, <2>1, <2>3 DEF TypeOK, UpdateRefused, Answer, GoTo
    <3> QED
      BY <1>1, <2>1, <3>1
  <2>4. CASE Checked(u) \/ Written(u) \/ UpdateFails(u)
    <3>1. pc'[u] \in {"checked", "done"} /\ (T!Succeeds(u) \/ T!Fails(u))
      BY <1>0, <2>1, <2>4 DEF TypeOK, Checked, Written, UpdateFails, Answer, GoTo
    <3> QED
      BY <1>0, <2>1, <3>1, TReportLeaves
  <2> QED
    BY <1>3, <2>2, <2>3, <2>4 DEF UpdateTicketStatus
<1>4. ASSUME NEW v \in Readers, Show(v)
      PROVE  /\ TGateOK'
             /\ tInside' = IF pc'[v] = "selecting" THEN tInside \union {v} ELSE tInside \ {v}
  <2>1. v \in Requests
    BY DEF Requests
  <2>2. CASE Select(v)
    BY <1>0, <2>1, <2>2, TAdmissionEnters DEF TypeOK, Select, GoTo
  <2>3. CASE SelectRefused(v)
    <3>1. pc'[v] = "done" /\ T!Refuse(v)
      BY <1>0, <2>1, <2>3 DEF TypeOK, SelectRefused, Answer, GoTo
    <3> QED
      BY <1>1, <2>1, <3>1
  <2>4. CASE Selected(v) \/ SelectFails(v)
    <3>1. pc'[v] \in {"sending", "done"} /\ (T!Succeeds(v) \/ T!Fails(v))
      BY <1>0, <2>1, <2>4 DEF TypeOK, Selected, SelectFails, Answer, GoTo
    <3> QED
      BY <1>0, <2>1, <3>1, TReportLeaves
  <2>5. CASE Send(v)
    <3>1. pc'[v] \in {"done", "waiting"} /\ pc[v] = "sending" /\ UNCHANGED tGate
      BY <1>0, <2>1, <2>5 DEF TypeOK, Send, Answer, GoTo
    <3>2. v \notin tInside
      BY <3>1, RequestsAssumption DEF IInv, SlotsMatchCalls
    <3> QED
      BY <1>0, <3>1, <3>2 DEF TGateOK, tGate
  <2> QED
    BY <1>4, <2>2, <2>3, <2>4, <2>5 DEF Show
<1> QED
  BY <1>2, <1>3, <1>4

-----------------------------------------------------------------------------
(***************************************************************************)
(* What each handler changes of the rest of the state.                     *)
(***************************************************************************)
(* VerifyTicket changes its own scan's state, and starts its GET once.     *)
LEMMA VerifyLocal ==
    ASSUME TypeOK, Scanning, NEW s \in Scans, VerifyTicket(s)
    PROVE  /\ UNCHANGED <<status, wanted, dbErrors>>
           /\ \A r \in Requests : r # s =>
                 pc'[r] = pc[r] /\ code'[r] = code[r] /\ answer'[r] = answer[r]
           /\ \A q \in Scans : q # s => get'[q] = get[q] /\ seen'[q] = seen[q]
           /\ pc'[s] \in {"reading", "read", "asking", "done"}
           /\ get'[s] = get[s] \/ (get[s] = None /\ get'[s] = "sent")
<1> s \in Requests
  BY DEF Requests
<1>1. CASE Scan(s) \/ ScanRefused(s)
  BY <1>1 DEF TypeOK, Scan, ScanRefused, GoTo, Answer
<1>2. CASE Read(s) \/ ReadFails(s)
  BY <1>2 DEF TypeOK, Read, ReadFails, GoTo, Answer
<1>3. CASE Ask(s)
  BY <1>3 DEF TypeOK, Scanning, Ask, GoTo
<1>4. CASE Judge(s) \/ NoReply(s)
  BY <1>4 DEF TypeOK, Judge, NoReply, GoTo, Answer
<1> QED
  BY <1>1, <1>2, <1>3, <1>4 DEF VerifyTicket

(* GetTicketByCode changes the GET it answers. *)
LEMMA LookUpLocal ==
    ASSUME TypeOK, NEW s \in Scans, GetTicketByCode(s)
    PROVE  /\ UNCHANGED <<rGate, status, pc, code, wanted, answer, seen>>
           /\ \A q \in Scans : q # s => get'[q] = get[q]
           /\ get[s] \in {"sent", "inside"}
           /\ dbErrors' \in 0 .. MaxDBErrors /\ dbErrors' >= dbErrors
           /\ \/ get'[s] \in {"inside", "unavailable"}
              \/ code[s] \in Tickets /\ get'[s] = status[code[s]]
              \/ get'[s] = "missing" /\ (code[s] = Unknown \/ dbErrors' # 0)
<1>1. CASE LookUp(s) \/ LookUpRefused(s)
  BY <1>1, BoundsAssumption DEF TypeOK, LookUp, LookUpRefused, Reply, elsewhere
<1>2. CASE LookUpFinds(s)
  BY <1>2, BoundsAssumption DEF TypeOK, LookUpFinds, Reply, elsewhere
<1>3. CASE LookUpFails(s)
  BY <1>3, BoundsAssumption DEF TypeOK, LookUpFails, Reply, elsewhere
<1> QED
  BY <1>1, <1>2, <1>3 DEF GetTicketByCode

(* UpdateTicketStatus changes its own request's state, and the status of   *)
(* its ticket together with what the scans of that ticket have seen.       *)
LEMMA UpdateLocal ==
    ASSUME TypeOK, NEW u \in Updates, UpdateTicketStatus(u)
    PROVE  /\ UNCHANGED <<rGate, get, dbErrors>>
           /\ \A r \in Requests : r # u =>
                 pc'[r] = pc[r] /\ code'[r] = code[r] /\ answer'[r] = answer[r]
           /\ \A w \in Updates : w # u => wanted'[w] = wanted[w]
           /\ \/ UNCHANGED <<status, seen>>
              \/ pc[u] = "writing" /\ SetStatus(u)
           /\ \/ /\ pc'[u] = "checking"
                 /\ wanted'[u] \in Statuses /\ code'[u] \in Codes
              \/ /\ pc'[u] \in {"checked", "writing", "done"}
                 /\ UNCHANGED <<code, wanted>>
                 /\ pc'[u] = "checked" => pc[u] = "checking" /\ code[u] \in Tickets
                 /\ pc'[u] = "writing" => pc[u] = "checked"
<1> u \in Requests
  BY DEF Requests
<1>1. CASE Update(u)
  BY <1>1 DEF TypeOK, Update, GoTo, Codes, Accepted
<1>2. CASE UpdateRefused(u) \/ Checked(u) \/ BeginWrite(u)
  BY <1>2 DEF TypeOK, UpdateRefused, Checked, BeginWrite, GoTo, Answer
<1>3. CASE Written(u) \/ UpdateFails(u)
  BY <1>3 DEF TypeOK, Written, UpdateFails, GoTo, Answer
<1> QED
  BY <1>1, <1>2, <1>3 DEF UpdateTicketStatus

(* A reader changes nothing but its own step and answer. *)
LEMMA ReaderLocal ==
    ASSUME TypeOK, NEW v \in Readers, Show(v)
    PROVE  /\ UNCHANGED <<rGate, status, code, wanted, get, seen>>
           /\ \A r \in Requests : r # v => pc'[r] = pc[r] /\ answer'[r] = answer[r]
           /\ dbErrors' \in 0 .. MaxDBErrors /\ dbErrors' >= dbErrors
<1> v \in Requests
  BY DEF Requests
<1>1. CASE Select(v) \/ SelectRefused(v) \/ Selected(v)
  BY <1>1, BoundsAssumption DEF TypeOK, Select, SelectRefused, Selected, quiet, GoTo, Answer
<1>2. CASE SelectFails(v)
  BY <1>2, BoundsAssumption DEF TypeOK, SelectFails, quiet, GoTo, Answer
<1>3. CASE Send(v)
  BY <1>3, BoundsAssumption DEF TypeOK, Send, quiet, GoTo, Answer
<1> QED
  BY <1>1, <1>2, <1>3 DEF Show

-----------------------------------------------------------------------------
(* Every way a call ends gives back the slot it took, in both services. *)
LEMMA SlotsStep == IInv /\ [Next]_vars => RGateOK' /\ TGateOK' /\ SlotsMatchCalls'
<1> SUFFICES ASSUME IInv, [Next]_vars
             PROVE  RGateOK' /\ TGateOK' /\ SlotsMatchCalls'
  OBVIOUS
<1>0. TypeOK /\ RGateOK /\ TGateOK /\ SlotsMatchCalls /\ Scanning
  BY DEF IInv
<1>1. ASSUME NEW s \in Scans, VerifyTicket(s)
      PROVE  RGateOK' /\ TGateOK' /\ SlotsMatchCalls'
  <2>1. RGateOK' /\ TGateOK'
    BY <1>0, <1>1, RGateStep DEF TGateOK, tGate
  <2>2. rInside' = {q \in Scans : pc'[q] \in {"reading", "asking"}}
    BY <1>0, <1>1, RGateStep, VerifyLocal DEF SlotsMatchCalls, Requests
  <2>3. \A q \in Scans : get'[q] = "inside" <=> get[q] = "inside"
    BY <1>0, <1>1, VerifyLocal DEF None
  <2>4. /\ \A u \in Updates : pc'[u] = pc[u]
        /\ \A v \in Readers : pc'[v] = pc[v]
    BY <1>0, <1>1, VerifyLocal, RequestsAssumption DEF Requests
  <2>5. tInside' = tInside
    BY <1>1, RGateStep DEF tGate
  <2> QED
    BY <1>0, <2>1, <2>2, <2>3, <2>4, <2>5 DEF SlotsMatchCalls
<1>2. ASSUME NEW s \in Scans, GetTicketByCode(s)
      PROVE  RGateOK' /\ TGateOK' /\ SlotsMatchCalls'
  <2>1. TGateOK' /\ tInside' = IF get'[s] = "inside" THEN tInside \union {s} ELSE tInside \ {s}
    BY <1>2, TGateStep
  <2>2. UNCHANGED <<rGate, pc>> /\ \A q \in Scans : q # s => get'[q] = get[q]
    BY <1>0, <1>2, LookUpLocal
  <2>3. tInside' = {q \in Scans : get'[q] = "inside"} \union
                   {u \in Updates : pc'[u] \in {"checking", "writing"}} \union
                   {v \in Readers : pc'[v] = "selecting"}
    BY <1>0, <2>1, <2>2, RequestsAssumption DEF SlotsMatchCalls
  <2> QED
    BY <1>0, <2>1, <2>2, <2>3 DEF SlotsMatchCalls, RGateOK, rGate
<1>3. ASSUME NEW u \in Updates, UpdateTicketStatus(u)
      PROVE  RGateOK' /\ TGateOK' /\ SlotsMatchCalls'
  <2>1. TGateOK' /\ tInside' = IF pc'[u] \in {"checking", "writing"} THEN tInside \union {u}
                                                                  ELSE tInside \ {u}
    BY <1>3, TGateStep
  <2>2. UNCHANGED <<rGate, get>> /\ \A r \in Requests : r # u => pc'[r] = pc[r]
    BY <1>0, <1>3, UpdateLocal
  <2>3. tInside' = {q \in Scans : get'[q] = "inside"} \union
                   {w \in Updates : pc'[w] \in {"checking", "writing"}} \union
                   {v \in Readers : pc'[v] = "selecting"}
    BY <1>0, <2>1, <2>2, RequestsAssumption DEF SlotsMatchCalls, Requests
  <2>4. rInside' = {q \in Scans : pc'[q] \in {"reading", "asking"}}
    BY <1>0, <2>2, RequestsAssumption DEF SlotsMatchCalls, Requests, rGate
  <2> QED
    BY <1>0, <2>1, <2>2, <2>3, <2>4 DEF SlotsMatchCalls, RGateOK, rGate
<1>4. ASSUME NEW v \in Readers, Show(v)
      PROVE  RGateOK' /\ TGateOK' /\ SlotsMatchCalls'
  <2>1. TGateOK' /\ tInside' = IF pc'[v] = "selecting" THEN tInside \union {v} ELSE tInside \ {v}
    BY <1>4, TGateStep
  <2>2. UNCHANGED <<rGate, get>> /\ \A r \in Requests : r # v => pc'[r] = pc[r]
    BY <1>0, <1>4, ReaderLocal
  <2>3. tInside' = {q \in Scans : get'[q] = "inside"} \union
                   {u \in Updates : pc'[u] \in {"checking", "writing"}} \union
                   {w \in Readers : pc'[w] = "selecting"}
    BY <1>0, <2>1, <2>2, RequestsAssumption DEF SlotsMatchCalls, Requests
  <2>4. rInside' = {q \in Scans : pc'[q] \in {"reading", "asking"}}
    BY <1>0, <2>2, RequestsAssumption DEF SlotsMatchCalls, Requests, rGate
  <2> QED
    BY <1>0, <2>1, <2>2, <2>3, <2>4 DEF SlotsMatchCalls, RGateOK, rGate
<1>5. CASE UNCHANGED vars
  BY <1>0, <1>5 DEF vars, rGate, tGate, RGateOK, TGateOK, SlotsMatchCalls
<1> QED
  BY <1>1, <1>2, <1>3, <1>4, <1>5 DEF Next, AllDone

-----------------------------------------------------------------------------
(* Nothing has begun. *)
LEMMA IInvInit == Init => IInv
<1> SUFFICES ASSUME Init
             PROVE  IInv
  OBVIOUS
<1> USE DEF Init, R!Init, T!Init
<1>1. 0 \in 0 .. MaxTrials /\ 0 \in 0 .. MaxDBErrors
  BY BoundsAssumption
<1>2. RGateOK /\ TGateOK
  BY <1>1 DEF RGateOK, TGateOK
<1>3. TypeOK
  BY <1>1 DEF TypeOK, None
<1>4. SlotsMatchCalls
  BY DEF SlotsMatchCalls, Requests, None
<1>5. Updating /\ Scanning /\ Answered
  BY DEF Updating, Scanning, Answered, Requests, None
<1>6. Seeing
  BY NoneAssumption DEF Seeing, Requests, None, Statuses
<1> QED
  BY <1>2, <1>3, <1>4, <1>5, <1>6 DEF IInv

(* Every step leaves each variable in its type. *)
LEMMA TypeOKStep == IInv /\ [Next]_vars => TypeOK'
<1> SUFFICES ASSUME IInv, [Next]_vars
             PROVE  TypeOK'
  OBVIOUS
<1>0. TypeOK /\ Updating /\ Scanning
  BY DEF IInv
<1>1. RGateOK' /\ TGateOK'
  BY SlotsStep
<1>2. ASSUME NEW s \in Scans, VerifyTicket(s)
      PROVE  TypeOK'
  <2> s \in Requests
    BY DEF Requests
  <2>1. UNCHANGED <<status, wanted, dbErrors>>
    BY <1>0, <1>2, VerifyLocal
  <2>2. /\ pc' \in [Requests -> {"idle", "reading", "read", "asking", "checking", "checked",
                                "writing", "selecting", "sending", "waiting", "done"}]
        /\ answer' \in [Requests -> {None, "refused", "badRequest", "error", "valid", "invalid",
                                     "missing", "ok"}]
    BY <1>0, <1>2 DEF TypeOK, VerifyTicket, Scan, ScanRefused, Read, ReadFails, Ask, Judge, NoReply,
                      GoTo, Answer, Verdict, Statuses
  <2>3. /\ code' \in [Requests -> Tickets \union {Unknown, None}]
        /\ seen' \in [Scans -> SUBSET (Statuses \union {"missing"})]
    BY <1>0, <1>2 DEF TypeOK, VerifyTicket, Scan, ScanRefused, Read, ReadFails, Ask, Judge, NoReply,
                      Found
  <2>4. get' \in [Scans -> Statuses \union {None, "sent", "inside", "missing", "unavailable"}]
    BY <1>0, <1>2 DEF TypeOK, VerifyTicket, Scan, ScanRefused, Read, ReadFails, Ask, Judge, NoReply
  <2> QED
    BY <1>0, <1>1, <2>1, <2>2, <2>3, <2>4 DEF TypeOK, RGateOK, TGateOK
<1>3. ASSUME NEW s \in Scans, GetTicketByCode(s)
      PROVE  TypeOK'
  <2>1. /\ UNCHANGED <<status, pc, code, wanted, answer, seen>>
        /\ dbErrors' \in 0 .. MaxDBErrors
    BY <1>0, <1>3, LookUpLocal
  <2>2. get' \in [Scans -> Statuses \union {None, "sent", "inside", "missing", "unavailable"}]
    BY <1>0, <1>3 DEF TypeOK, GetTicketByCode, LookUp, LookUpRefused, LookUpFinds, LookUpFails,
                      Reply
  <2> QED
    BY <1>0, <1>1, <2>1, <2>2 DEF TypeOK, RGateOK, TGateOK
<1>4. ASSUME NEW u \in Updates, UpdateTicketStatus(u)
      PROVE  TypeOK'
  <2> u \in Requests
    BY DEF Requests
  <2>1. UNCHANGED <<get, dbErrors>>
    BY <1>0, <1>4, UpdateLocal
  <2>2. /\ pc' \in [Requests -> {"idle", "reading", "read", "asking", "checking", "checked",
                                "writing", "selecting", "sending", "waiting", "done"}]
        /\ answer' \in [Requests -> {None, "refused", "badRequest", "error", "valid", "invalid",
                                     "missing", "ok"}]
    BY <1>0, <1>4 DEF TypeOK, UpdateTicketStatus, Update, UpdateRefused, Checked, BeginWrite, Written,
                      UpdateFails, GoTo, Answer
  <2>3. /\ code' \in [Requests -> Tickets \union {Unknown, None}]
        /\ wanted' \in [Updates -> Statuses \union {None}]
    BY <1>0, <1>4 DEF TypeOK, UpdateTicketStatus, Update, UpdateRefused, Checked, BeginWrite, Written,
                      UpdateFails, Accepted
  <2>4. /\ status' \in [Tickets -> Statuses]
        /\ seen' \in [Scans -> SUBSET (Statuses \union {"missing"})]
    <3>1. UNCHANGED <<status, seen>> \/ (pc[u] = "writing" /\ SetStatus(u))
      BY <1>0, <1>4, UpdateLocal
    <3>2. pc[u] = "writing" => wanted[u] \in Statuses
      BY <1>0 DEF Updating
    <3> QED
      BY <1>0, <3>1, <3>2 DEF TypeOK, SetStatus
  <2> QED
    BY <1>0, <1>1, <2>1, <2>2, <2>3, <2>4 DEF TypeOK, RGateOK, TGateOK
<1>5. ASSUME NEW v \in Readers, Show(v)
      PROVE  TypeOK'
  <2> v \in Requests
    BY DEF Requests
  <2>1. UNCHANGED <<status, code, wanted, get, seen>> /\ dbErrors' \in 0 .. MaxDBErrors
    BY <1>0, <1>5, ReaderLocal
  <2>2. /\ pc' \in [Requests -> {"idle", "reading", "read", "asking", "checking", "checked",
                                "writing", "selecting", "sending", "waiting", "done"}]
        /\ answer' \in [Requests -> {None, "refused", "badRequest", "error", "valid", "invalid",
                                     "missing", "ok"}]
    BY <1>0, <1>5 DEF TypeOK, Show, Select, SelectRefused, Selected, SelectFails, Send, GoTo, Answer
  <2> QED
    BY <1>0, <1>1, <2>1, <2>2 DEF TypeOK, RGateOK, TGateOK
<1>6. CASE UNCHANGED vars
  BY <1>0, <1>1, <1>6 DEF vars, TypeOK, RGateOK, TGateOK
<1> QED
  BY <1>2, <1>3, <1>4, <1>5, <1>6 DEF Next, AllDone

(* An update writes to the ticket it found, a scan asks once. *)
LEMMA ScanningStep == IInv /\ [Next]_vars => Updating' /\ Scanning'
<1> SUFFICES ASSUME IInv, [Next]_vars
             PROVE  Updating' /\ Scanning'
  OBVIOUS
<1>0. TypeOK /\ Updating /\ Scanning
  BY DEF IInv
<1>1. ASSUME NEW s \in Scans, VerifyTicket(s)
      PROVE  Updating' /\ Scanning'
  <2> s \in Requests
    BY DEF Requests
  <2>1. Updating'
    BY <1>0, <1>1, VerifyLocal, RequestsAssumption DEF Updating, Requests
  <2>2. /\ pc'[s] \in {"idle", "reading", "read"} => get'[s] = None
        /\ pc'[s] \in {"idle", "reading"} => code'[s] = None
        /\ pc'[s] \in {"read", "asking"} \/ get'[s] # None => code'[s] \in Codes
        /\ pc'[s] # "done" => answer'[s] = None
    BY <1>0, <1>1
       DEF TypeOK, Scanning, VerifyTicket, Scan, ScanRefused, Read, ReadFails, Ask, Judge, NoReply,
           GoTo, Answer, Codes
  <2>3. \A q \in Scans : q # s => /\ pc'[q] = pc[q] /\ code'[q] = code[q]
                                  /\ answer'[q] = answer[q] /\ get'[q] = get[q]
    BY <1>0, <1>1, VerifyLocal DEF Requests
  <2> QED
    BY <1>0, <2>1, <2>2, <2>3 DEF Scanning
<1>2. ASSUME NEW s \in Scans, GetTicketByCode(s)
      PROVE  Updating' /\ Scanning'
  <2>1. /\ UNCHANGED <<pc, code, wanted, answer>>
        /\ \A q \in Scans : q # s => get'[q] = get[q]
        /\ get[s] \in {"sent", "inside"}
    BY <1>0, <1>2, LookUpLocal
  <2> QED
    BY <1>0, <2>1 DEF Updating, Scanning, None
<1>3. ASSUME NEW u \in Updates, UpdateTicketStatus(u)
      PROVE  Updating' /\ Scanning'
  <2>1. /\ UNCHANGED get
        /\ \A r \in Requests : r # u =>
              pc'[r] = pc[r] /\ code'[r] = code[r] /\ answer'[r] = answer[r]
        /\ \A w \in Updates : w # u => wanted'[w] = wanted[w]
        /\ \/ pc'[u] = "checking" /\ wanted'[u] \in Statuses
           \/ /\ pc'[u] \in {"checked", "writing", "done"}
              /\ UNCHANGED <<code, wanted>>
              /\ pc'[u] = "checked" => pc[u] = "checking" /\ code[u] \in Tickets
              /\ pc'[u] = "writing" => pc[u] = "checked"
    BY <1>0, <1>3, UpdateLocal
  <2>2. Scanning'
    BY <1>0, <2>1, RequestsAssumption DEF Scanning, Requests
  <2>3. Updating'
    BY <1>0, <2>1 DEF Updating, Requests
  <2> QED
    BY <2>2, <2>3
<1>4. ASSUME NEW v \in Readers, Show(v)
      PROVE  Updating' /\ Scanning'
  <2>1. /\ UNCHANGED <<code, wanted, get>>
        /\ \A r \in Requests : r # v => pc'[r] = pc[r] /\ answer'[r] = answer[r]
    BY <1>0, <1>4, ReaderLocal
  <2> QED
    BY <1>0, <2>1, RequestsAssumption DEF Updating, Scanning, Requests
<1>5. CASE UNCHANGED vars
  BY <1>0, <1>5 DEF vars, Updating, Scanning
<1> QED
  BY <1>1, <1>2, <1>3, <1>4, <1>5 DEF Next, AllDone

-----------------------------------------------------------------------------
(***************************************************************************)
(* What a scan has seen, and what its answer says of it.                   *)
(***************************************************************************)
(* An UPDATE of a ticket is seen by every scan of it. *)
LEMMA StatusSeen ==
    ASSUME TypeOK, Updating, NEW u \in Updates, pc[u] = "writing", SetStatus(u),
           NEW s \in Scans, code[s] \in Tickets => status[code[s]] \in seen[s]
    PROVE  /\ seen[s] \subseteq seen'[s]
           /\ code[s] \in Tickets => status'[code[s]] \in seen'[s]
<1>1. code[u] \in Tickets
  BY DEF Updating
<1> QED
  BY <1>1 DEF TypeOK, SetStatus

(* Seeing is kept by a step that keeps what was seen, leaves the codes     *)
(* alone, and lets a reply say only what was seen.                         *)
LEMMA SeenStays ==
    ASSUME Seeing, Answered, dbErrors \in Nat, dbErrors' \in Nat, dbErrors' >= dbErrors,
           NEW s \in Scans,
           code'[s] = code[s], seen[s] \subseteq seen'[s],
           code[s] \in Tickets => status'[code[s]] \in seen'[s],
           get'[s] = get[s], answer'[s] = answer[s]
    PROVE  /\ code'[s] \in Tickets => status'[code'[s]] \in seen'[s]
           /\ code'[s] = Unknown => "missing" \in seen'[s]
           /\ get'[s] \in Statuses => get'[s] \in seen'[s]
           /\ get'[s] = "missing" /\ dbErrors' = 0 => "missing" \in seen'[s]
           /\ answer'[s] = "valid" => "active" \in seen'[s]
           /\ answer'[s] = "invalid" /\ dbErrors' = 0 =>
                 \E st \in {"used", "cancelled", "missing"} : st \in seen'[s]
BY DEF Seeing, Answered

(* A reply carries a status its ticket had after the scan arrived, and     *)
(* VerifyTicket answers with what the reply says.                          *)
LEMMA SeeingStep == IInv /\ [Next]_vars => Seeing' /\ Answered'
<1> SUFFICES ASSUME IInv, [Next]_vars
             PROVE  Seeing' /\ Answered'
  OBVIOUS
<1>0. TypeOK /\ Updating /\ Scanning /\ Seeing /\ Answered /\ dbErrors \in Nat
  BY BoundsAssumption DEF IInv, TypeOK
<1> DEFINE Good(s) ==
        /\ code[s] \in Tickets => status[code[s]] \in seen[s]
        /\ code[s] = Unknown => "missing" \in seen[s]
        /\ get[s] \in Statuses => get[s] \in seen[s]
        /\ get[s] = "missing" /\ dbErrors = 0 => "missing" \in seen[s]
        /\ answer[s] = "valid" => "active" \in seen[s]
        /\ answer[s] = "invalid" /\ dbErrors = 0 =>
              \E st \in {"used", "cancelled", "missing"} : st \in seen[s]
<1> SUFFICES ASSUME NEW q \in Scans
             PROVE  Good(q)'
  BY DEF Seeing, Answered
<1> q \in Requests
  BY DEF Requests
<1>1. ASSUME NEW s \in Scans, VerifyTicket(s)
      PROVE  Good(q)'
  <2>1. UNCHANGED <<status, dbErrors>>
    BY <1>0, <1>1, VerifyLocal
  <2>2. CASE q # s
    BY <1>0, <1>1, <2>1, <2>2, VerifyLocal, SeenStays DEF Seeing
  <2>3. CASE q = s
    <3>1. CASE Read(s)
      <4>1. code[s] = None /\ get[s] = None /\ answer[s] = None /\ UNCHANGED get
        BY <1>0, <3>1 DEF Scanning, Read
      <4>2. CASE UNCHANGED <<code, seen>> /\ Answer(s, "badRequest")
        <5>1. answer'[s] = "badRequest"
          BY <1>0, <2>3, <4>2 DEF TypeOK, Answer
        <5> QED
          BY <2>1, <2>3, <4>1, <4>2, <5>1, NoneAssumption DEF None, Statuses
      <4>3. CASE \E c \in Tickets \union {Unknown} :
                    /\ code' = [code EXCEPT ![s] = c]
                    /\ seen' = [seen EXCEPT ![s] = Found(c)]
                    /\ UNCHANGED answer
        <5>1. PICK c \in Tickets \union {Unknown} : code'[s] = c /\ seen'[s] = Found(c)
          BY <1>0, <2>3, <4>3 DEF TypeOK
        <5>2. UNCHANGED answer
          BY <4>3
        <5> QED
          BY <2>1, <2>3, <4>1, <5>1, <5>2, UnknownAssumption DEF Found, None, Statuses
      <4> QED
        BY <3>1, <4>2, <4>3 DEF Read
    <3>2. CASE Scan(s) \/ ScanRefused(s) \/ ReadFails(s) \/ NoReply(s) \/ Ask(s)
      <4>1. /\ UNCHANGED <<code, seen>>
            /\ get'[s] = get[s] \/ get'[s] = "sent"
            /\ answer'[s] = answer[s] \/ answer'[s] \in {"refused", "error"}
        BY <1>0, <2>3, <3>2 DEF TypeOK, Scan, ScanRefused, ReadFails, NoReply, Ask, GoTo, Answer
      <4> QED
        BY <1>0, <2>1, <2>3, <4>1 DEF Seeing, Answered, Statuses
    <3>3. CASE Judge(s)
      <4>1. UNCHANGED <<code, seen, get>> /\ answer'[s] = Verdict(get[s])
        BY <1>0, <2>3, <3>3 DEF TypeOK, Judge, Answer
      <4>2. /\ Verdict(get[s]) = "valid" => get[s] = "active"
            /\ Verdict(get[s]) = "invalid" => get[s] \in {"used", "cancelled", "missing"}
        BY DEF Verdict
      <4> QED
        BY <1>0, <2>1, <2>3, <4>1, <4>2 DEF Seeing, Statuses
    <3> QED
      BY <1>1, <3>1, <3>2, <3>3 DEF VerifyTicket
  <2> QED
    BY <2>2, <2>3
<1>2. ASSUME NEW s \in Scans, GetTicketByCode(s)
      PROVE  Good(q)'
  <2>1. UNCHANGED <<status, code, answer, seen>> /\ dbErrors' \in Nat /\ dbErrors' >= dbErrors
    BY <1>0, <1>2, LookUpLocal, BoundsAssumption
  <2>2. CASE q # s
    BY <1>0, <1>2, <2>1, <2>2, LookUpLocal, SeenStays DEF Seeing
  <2>3. CASE q = s
    <3>1. \/ get'[q] \in {"inside", "unavailable"}
          \/ code[q] \in Tickets /\ get'[q] = status[code[q]]
          \/ get'[q] = "missing" /\ (code[q] = Unknown \/ dbErrors' # 0)
      BY <1>0, <1>2, <2>3, LookUpLocal
    <3>2. code[q] \in Tickets => status[code[q]] \in Statuses
      BY <1>0 DEF TypeOK
    <3>3. dbErrors' = 0 => dbErrors = 0
      BY <1>0, <2>1
    <3> QED
      BY <1>0, <2>1, <3>1, <3>2, <3>3 DEF Seeing, Answered, Statuses
  <2> QED
    BY <2>2, <2>3
<1>3. ASSUME NEW u \in Updates, UpdateTicketStatus(u)
      PROVE  Good(q)'
  <2>1. /\ UNCHANGED <<get, dbErrors>>
        /\ code'[q] = code[q] /\ answer'[q] = answer[q]
        /\ UNCHANGED <<status, seen>> \/ (pc[u] = "writing" /\ SetStatus(u))
    BY <1>0, <1>3, UpdateLocal, RequestsAssumption
  <2>2. /\ seen[q] \subseteq seen'[q]
        /\ code[q] \in Tickets => status'[code[q]] \in seen'[q]
    BY <1>0, <2>1, StatusSeen DEF Seeing
  <2> QED
    BY <1>0, <2>1, <2>2, SeenStays
<1>4. ASSUME NEW v \in Readers, Show(v)
      PROVE  Good(q)'
  <2>1. /\ UNCHANGED <<status, code, get, seen>>
        /\ answer'[q] = answer[q]
        /\ dbErrors' \in Nat /\ dbErrors' >= dbErrors
    BY <1>0, <1>4, ReaderLocal, RequestsAssumption, BoundsAssumption
  <2> QED
    BY <1>0, <2>1, SeenStays DEF Seeing
<1>5. CASE UNCHANGED vars
  BY <1>0, <1>5, SeenStays DEF vars, Seeing
<1> QED
  BY <1>1, <1>2, <1>3, <1>4, <1>5 DEF Next, AllDone

-----------------------------------------------------------------------------
(* Every step keeps the inductive invariant. *)
LEMMA IInvStep == IInv /\ [Next]_vars => IInv'
BY SlotsStep, TypeOKStep, ScanningStep, SeeingStep DEF IInv

(* IInv is an invariant. *)
LEMMA IInvHolds == Spec => []IInv
BY IInvInit, IInvStep, PTL DEF Spec

(* A visitor is let in only with a ticket that was active at some moment   *)
(* between the scan and the answer (VerifyTicket, UpdateTicketStatus).     *)
THEOREM ValidHolds == Spec => []ValidWasActive
<1>1. IInv => ValidWasActive
  BY DEF IInv, Answered, ValidWasActive
<1> QED
  BY <1>1, IInvHolds, PTL

(* While the database answers, "invalid" says that the ticket was not      *)
(* active at some moment of the scan: no refusal, timeout or error of a    *)
(* breaker turns a valid ticket away as an invalid one.                    *)
THEOREM InvalidHolds == Spec => []InvalidWasInactive
<1>1. IInv => InvalidWasInactive
  BY DEF IInv, Answered, InvalidWasInactive
<1> QED
  BY <1>1, IInvHolds, PTL

(* Both services' breakers get back each slot once, also from a GET whose  *)
(* client gave up and from a stream that is stuck on its client.           *)
THEOREM SlotsHold == Spec => []SlotsMatchCalls
<1>1. IInv => SlotsMatchCalls
  BY DEF IInv
<1> QED
  BY <1>1, IInvHolds, PTL

(* Each variable keeps its type, in both services. *)
THEOREM Typed == Spec => []TypeOK
<1>1. IInv => TypeOK
  BY DEF IInv
<1> QED
  BY <1>1, IInvHolds, PTL

-----------------------------------------------------------------------------
(***************************************************************************)
(* The breakers on trial.                                                  *)
(***************************************************************************)
(* What a caller does at the reservation service's breaker leaves a trial  *)
(* to decide: the last one that may be admitted is one, and one that       *)
(* succeeds without closing the breaker leaves another or one to come      *)
(* (circuitbreaker.go: beforeRequest, onSuccess, onFailure).               *)
LEMMA RTrialsDecide ==
    ASSUME RGateOK, R!SomeTrialDecides, NEW s \in Scans,
           R!Admits(s) \/ R!Refuse(s) \/ R!Succeeds(s) \/ R!Fails(s)
    PROVE  R!SomeTrialDecides'
<1>1. CASE R!Admits(s)
  BY <1>1 DEF R!Admits, R!Enter, R!FirstTrial, R!NextTrial, R!SomeTrialDecides
<1>2. CASE R!Refuse(s) \/ R!Leave(s)
  BY <1>2 DEF R!Refuse, R!gateVars, R!Leave, R!SomeTrialDecides
<1>3. CASE R!Trip(s) \/ R!Fail(s) \/ R!LastPass(s)
  BY <1>3 DEF R!Trip, R!Fail, R!LastPass, R!SomeTrialDecides
<1>4. CASE R!Pass(s)
  BY <1>4 DEF R!Pass, R!SomeTrialDecides
<1> QED
  BY <1>1, <1>2, <1>3, <1>4 DEF R!Succeeds, R!Fails

(* The same of the ticket service's breaker. *)
LEMMA TTrialsDecide ==
    ASSUME TGateOK, T!SomeTrialDecides, NEW r \in Requests,
           T!Admits(r) \/ T!Refuse(r) \/ T!Succeeds(r) \/ T!Fails(r)
    PROVE  T!SomeTrialDecides'
<1>1. CASE T!Admits(r)
  BY <1>1 DEF T!Admits, T!Enter, T!FirstTrial, T!NextTrial, T!SomeTrialDecides
<1>2. CASE T!Refuse(r) \/ T!Leave(r)
  BY <1>2 DEF T!Refuse, T!gateVars, T!Leave, T!SomeTrialDecides
<1>3. CASE T!Trip(r) \/ T!Fail(r) \/ T!LastPass(r)
  BY <1>3 DEF T!Trip, T!Fail, T!LastPass, T!SomeTrialDecides
<1>4. CASE T!Pass(r)
  BY <1>4 DEF T!Pass, T!SomeTrialDecides
<1> QED
  BY <1>1, <1>2, <1>3, <1>4 DEF T!Succeeds, T!Fails

(* Every handler reaches its service's breaker through the gate, and none  *)
(* reaches into the other service's.                                       *)
LEMMA GateSteps ==
    ASSUME [Next]_vars
    PROVE  /\ \/ UNCHANGED rGate
              \/ \E s \in Scans : R!Admits(s) \/ R!Refuse(s) \/ R!Succeeds(s) \/ R!Fails(s)
           /\ \/ UNCHANGED tGate
              \/ \E r \in Requests : T!Admits(r) \/ T!Refuse(r) \/ T!Succeeds(r) \/ T!Fails(r)
<1>1. ASSUME NEW s \in Scans, VerifyTicket(s)
      PROVE  /\ UNCHANGED tGate
             /\ R!Admits(s) \/ R!Refuse(s) \/ R!Succeeds(s) \/ R!Fails(s)
  BY <1>1 DEF VerifyTicket, Scan, ScanRefused, Read, ReadFails, Ask, Judge, NoReply, GiveUp
<1>2. ASSUME NEW s \in Scans, GetTicketByCode(s)
      PROVE  /\ UNCHANGED rGate
             /\ T!Admits(s) \/ T!Refuse(s) \/ T!Succeeds(s) \/ T!Fails(s)
  BY <1>2 DEF GetTicketByCode, LookUp, LookUpRefused, LookUpFinds, LookUpFails, elsewhere
<1>3. ASSUME NEW u \in Updates, UpdateTicketStatus(u)
      PROVE  /\ UNCHANGED rGate
             /\ T!Admits(u) \/ T!Refuse(u) \/ T!Succeeds(u) \/ T!Fails(u)
  BY <1>3
     DEF UpdateTicketStatus, Update, UpdateRefused, Checked, BeginWrite, Written, UpdateFails
<1>4. ASSUME NEW v \in Readers, Show(v)
      PROVE  /\ UNCHANGED rGate
             /\ UNCHANGED tGate \/ T!Admits(v) \/ T!Refuse(v) \/ T!Succeeds(v) \/ T!Fails(v)
  BY <1>4 DEF Show, Select, SelectRefused, Selected, SelectFails, Send, quiet
<1>5. CASE UNCHANGED vars
  BY <1>5 DEF vars
<1> QED
  BY <1>1, <1>2, <1>3, <1>4, <1>5 DEF Next, AllDone, Requests

(* Deciding is an invariant next to IInv. *)
Deciding == R!SomeTrialDecides /\ T!SomeTrialDecides

LEMMA DecidingStep == IInv /\ Deciding /\ [Next]_vars => Deciding'
<1> SUFFICES ASSUME IInv, Deciding, [Next]_vars
             PROVE  Deciding'
  OBVIOUS
<1>0. RGateOK /\ TGateOK
  BY DEF IInv
<1>1. R!SomeTrialDecides'
  <2>1. CASE UNCHANGED rGate
    BY <2>1 DEF rGate, Deciding, R!SomeTrialDecides
  <2> QED
    BY <1>0, <2>1, GateSteps, RTrialsDecide DEF Deciding
<1>2. T!SomeTrialDecides'
  <2>1. CASE UNCHANGED tGate
    BY <2>1 DEF tGate, Deciding, T!SomeTrialDecides
  <2> QED
    BY <1>0, <2>1, GateSteps, TTrialsDecide DEF Deciding
<1> QED
  BY <1>1, <1>2 DEF Deciding

(* Neither breaker is half-open, spent and without a call that decides.    *)
THEOREM CallsDecide == Spec => []SomeCallDecides
<1>1. Init => Deciding
  BY DEF Init, Deciding, R!Init, T!Init, R!SomeTrialDecides, T!SomeTrialDecides
<1>2. IInv /\ Deciding => SomeCallDecides
  <2> SUFFICES ASSUME IInv, Deciding
               PROVE  SomeCallDecides
    OBVIOUS
  <2>1. RGateOK /\ TGateOK /\ SlotsMatchCalls
    BY DEF IInv
  <2>2. \A s \in rTrial : pc[s] \in {"reading", "asking"}
    BY <2>1 DEF RGateOK, SlotsMatchCalls
  <2>3. \A r \in tTrial : \/ r \in Scans /\ get[r] = "inside"
                          \/ pc[r] \in {"checking", "writing", "selecting"}
    BY <2>1 DEF TGateOK, SlotsMatchCalls
  <2>4. /\ rMode = "HalfOpen" /\ rLeft = 0 => rTrial # {}
        /\ tMode = "HalfOpen" /\ tLeft = 0 => tTrial # {}
    BY DEF Deciding, R!SomeTrialDecides, T!SomeTrialDecides
  <2> QED
    BY <2>2, <2>3, <2>4 DEF SomeCallDecides
<1>3. Spec => []Deciding
  BY <1>1, DecidingStep, IInvHolds, PTL DEF Spec
<1> QED
  BY <1>2, <1>3, IInvHolds, PTL

(***************************************************************************)
(* What the two services do to their breakers are behaviours of ProbeGate: *)
(* no return path reports a call that was not let in, or reports it twice. *)
(***************************************************************************)
THEOREM GatesFollowed == Spec => R!Spec /\ T!Spec
<1>1. Init => R!Init /\ T!Init
  BY DEF Init
<1>2. [Next]_vars => [R!Next]_(R!gateVars) /\ [T!Next]_(T!gateVars)
  <2> SUFFICES ASSUME [Next]_vars
               PROVE  /\ R!Next \/ UNCHANGED R!gateVars
                      /\ T!Next \/ UNCHANGED T!gateVars
    OBVIOUS
  <2>1. R!Next \/ UNCHANGED R!gateVars
    BY GateSteps DEF R!Next, rGate, R!gateVars
  <2>2. T!Next \/ UNCHANGED T!gateVars
    BY GateSteps DEF T!Next, Requests, tGate, T!gateVars
  <2> QED
    BY <2>1, <2>2
<1> QED
  BY <1>1, <1>2, PTL DEF Spec, R!Spec, T!Spec

=============================================================================
