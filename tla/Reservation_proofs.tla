------------------------- MODULE Reservation_proofs -------------------------
(***************************************************************************)
(* Proofs about Reservation, for every finite set of requests, all         *)
(* bookings and any number of crashes: what ties the two databases and the *)
(* broker together although no transaction does, and that a ticket nobody  *)
(* bought is the work of a request that was not told 201.                  *)
(***************************************************************************)
EXTENDS Reservation, FiniteSetTheorems, TLAPS

(* Only a half-open breaker has trials, one at least until it decides; and *)
(* who is inside is at a step of the handler.                              *)
Trials ==
    /\ mode # "HalfOpen" => trial = {}
    /\ Gate!SomeTrialDecides

Inside == \A r \in inside : pc[r] \in Steps

(* A request posts for a ticket once, for the booking it was made for, and *)
(* a reply names a ticket that was inserted for that booking and that no   *)
(* other reply names.                                                      *)
Posting ==
    /\ \A r \in Requests :
          /\ pc[r] \in {"idle", "event", "user"} => post[r].status = "none"
          /\ pc[r] = "ticket" /\ r \notin inside => post[r].status = "none"
          /\ pc[r] # "idle" => input[r] \in Bookings
          /\ Replied(r) => post[r].id \in TicketIds /\ tickets[post[r].id] = input[r]
    /\ \A q, r \in Requests : Replied(q) /\ Replied(r) /\ post[q].id = post[r].id => q = r

(* The handler knows a ticket only from the reply to its own POST. *)
Ticketed ==
    \A r \in Requests :
        /\ ticket[r] # 0 => Replied(r) /\ ticket[r] = post[r].id
        /\ pc[r] \in {"purchase", "topay", "email"} => ticket[r] # 0

(* A purchase is that of a request with a ticket, stored by that request,  *)
(* once; and a request that went on has stored its purchase.               *)
Purchasing ==
    /\ \A i \in PurchaseIds : \E r \in Requests :
          /\ ticket[r] # 0
          /\ pc[r] \in {"topay", "email", "done", "lost"}
          /\ purchases[i] = Purchase(r)
    /\ \A i, j \in PurchaseIds : purchases[i].ticket = purchases[j].ticket => i = j
    /\ \A r \in Requests :
          pc[r] \in {"topay", "email"} \/ answer[r] = "created" =>
              ticket[r] # 0 /\ Purchased(ticket[r])

(* A message was published by a request that can end only with 201 or in a *)
(* crash, after its purchase and, if it is a mail, after its "topay".      *)
Publishing ==
    /\ \A r \in Requests :
          /\ pc[r] # "done" => answer[r] = "none"
          /\ pc[r] = "email" => Message("topay", r) \in published
    /\ \A m \in published :
          /\ \E r \in Requests :
                /\ m.ticket = ticket[r] /\ ticket[r] # 0
                /\ pc[r] \in {"email", "done", "lost"}
                /\ answer[r] \in {"none", "created"}
          /\ Purchased(m.ticket)
          /\ m.kind = "email" => [m EXCEPT !.kind = "topay"] \in published

(* Each ticket was inserted by the POST of one request, for its booking,   *)
(* and no request inserted two.  The reply, if it was sent, names it.      *)
Wrote(author) ==
    /\ \A t \in TicketIds :
          /\ input[author[t]] = tickets[t]
          /\ post[author[t]].status \in {"replied", "rejected"}
    /\ \A t, u \in TicketIds : author[t] = author[u] => t = u
    /\ \A r \in Requests : Replied(r) => author[post[r].id] = r

Authored == \E author \in [TicketIds -> Requests] : Wrote(author)

IInv == TypeOK /\ Trials /\ Posting /\ Ticketed /\ Purchasing /\ Publishing /\ Authored

-----------------------------------------------------------------------------
(* Whatever lets a step into the gate puts exactly that request inside     *)
(* (circuitbreaker.go: beforeRequest).                                     *)
LEMMA AdmissionEnters ==
    ASSUME TypeOK, Trials, NEW r \in Requests, Gate!Admits(r)
    PROVE  /\ r \notin inside
           /\ inside' = inside \union {r}
           /\ mode' \in {"Closed", "Open", "HalfOpen"}
           /\ trial' \subseteq inside'
           /\ left' \in 0 .. MaxTrials
           /\ Trials'
<1> USE DEF TypeOK, Trials, Gate!SomeTrialDecides
<1>1. CASE Gate!Enter(r)
  BY <1>1 DEF Gate!Enter
<1>2. CASE Gate!FirstTrial(r)
  BY <1>2, TrialsAssumption DEF Gate!FirstTrial
<1>3. CASE Gate!NextTrial(r)
  BY <1>3, TrialsAssumption DEF Gate!NextTrial
<1> QED
  BY <1>1, <1>2, <1>3 DEF Gate!Admits

(* Whatever result a step reports, exactly its request leaves the gate     *)
(* (circuitbreaker.go: afterRequest).                                      *)
LEMMA ReportLeaves ==
    ASSUME TypeOK, Trials, NEW r \in Requests, Gate!Succeeds(r) \/ Gate!Fails(r)
    PROVE  /\ inside' = inside \ {r}
           /\ mode' \in {"Closed", "Open", "HalfOpen"}
           /\ trial' \subseteq inside'
           /\ left' \in 0 .. MaxTrials
           /\ Trials'
<1>1. CASE Gate!Leave(r) \/ Gate!Trip(r) \/ Gate!Fail(r)
  BY <1>1, TrialsAssumption
     DEF TypeOK, Trials, Gate!SomeTrialDecides, Gate!Leave, Gate!Trip, Gate!Fail
<1>2. CASE Gate!Pass(r)
  <2>1. trial' # {} \/ left' # 0
    BY <1>2 DEF Gate!Pass, TypeOK
  <2> QED
    BY <1>2, <2>1 DEF TypeOK, Trials, Gate!SomeTrialDecides, Gate!Pass
<1>3. CASE Gate!LastPass(r)
  BY <1>3, TrialsAssumption DEF TypeOK, Trials, Gate!SomeTrialDecides, Gate!LastPass
<1> QED
  BY <1>1, <1>2, <1>3 DEF Gate!Succeeds, Gate!Fails

(* An INSERT into the ticket table gives the row the next ticket_id and    *)
(* leaves the others (ticket_repository.go CreateTicket).                  *)
LEMMA InsertAppends ==
    ASSUME TypeOK, NEW r \in Requests, input[r] \in Bookings, Insert(r)
    PROVE  /\ tickets' \in Seq(Bookings)
           /\ Len(tickets) \in Nat
           /\ Len(tickets') = Len(tickets) + 1
           /\ \A t \in TicketIds : tickets'[t] = tickets[t]
           /\ tickets'[Len(tickets) + 1] = input[r]
BY DEF TypeOK, Insert, TicketIds

(* An INSERT into the purchases table adds the purchase of that request.   *)
LEMMA StoreAppends ==
    ASSUME TypeOK, NEW r \in Requests, input[r] \in Bookings, Store(r)
    PROVE  /\ purchases' \in Seq([ticket : Nat, event : {b.event : b \in Bookings},
                                  user : {b.user : b \in Bookings}, status : {"confirmed"}])
           /\ Len(purchases) \in Nat
           /\ Len(purchases') = Len(purchases) + 1
           /\ \A i \in PurchaseIds : purchases'[i] = purchases[i]
           /\ purchases'[Len(purchases) + 1] = Purchase(r)
<1>1. Purchase(r) \in [ticket : Nat, event : {b.event : b \in Bookings},
                       user : {b.user : b \in Bookings}, status : {"confirmed"}]
  BY DEF TypeOK, Purchase
<1> QED
  BY <1>1 DEF TypeOK, Store, PurchaseIds

(* The service starts with empty tables and no request under way. *)
LEMMA IInvInit == Init => IInv
<1> SUFFICES ASSUME Init
             PROVE  IInv
  OBVIOUS
<1> USE DEF Init, Gate!Init
<1>1. TypeOK
  <2>1. left \in 0 .. MaxTrials /\ crashes \in 0 .. MaxCrashes
    BY TrialsAssumption, CrashesAssumption
  <2>2. post \in [Requests -> [status : {"none", "sent", "replied", "rejected"}, id : Nat]]
    BY DEF NoPost
  <2>3. tickets \in Seq(Bookings)
        /\ purchases \in Seq([ticket : Nat, event : {b.event : b \in Bookings},
                               user : {b.user : b \in Bookings}, status : {"confirmed"}])
    OBVIOUS
  <2> QED
    BY <2>1, <2>2, <2>3 DEF TypeOK
<1>2. TicketIds = {} /\ PurchaseIds = {}
  BY DEF TicketIds, PurchaseIds
<1>3. Trials /\ Posting /\ Ticketed
  BY DEF Trials, Gate!SomeTrialDecides, Posting, Ticketed, Replied, NoPost
<1>4. Purchasing /\ Publishing
  BY <1>2 DEF Purchasing, Publishing
<1>5. Authored
  <2>1. [t \in TicketIds |-> CHOOSE r \in Requests : TRUE] \in [TicketIds -> Requests]
    BY <1>2
  <2>2. Wrote([t \in TicketIds |-> CHOOSE r \in Requests : TRUE])
    BY <1>2 DEF Wrote, Replied, NoPost
  <2> QED
    BY <2>1, <2>2 DEF Authored
<1> QED
  BY <1>1, <1>3, <1>4, <1>5 DEF IInv

-----------------------------------------------------------------------------
(***************************************************************************)
(* Types and the gate.                                                     *)
(***************************************************************************)
(* A request that posts was made for a booking. *)
LEMMA PostsForBooking ==
    ASSUME Posting, NEW r \in Requests, post[r].status = "sent" \/ pc[r] = "purchase"
    PROVE  input[r] \in Bookings
BY DEF Posting

(* Every step leaves each variable in its type. *)
LEMMA TypeOKStep == IInv /\ [Next]_vars => TypeOK' /\ Trials'
<1> SUFFICES ASSUME IInv, [Next]_vars
             PROVE  TypeOK' /\ Trials'
  OBVIOUS
<1>0. TypeOK /\ Trials /\ Posting
  BY DEF IInv
<1>1. ASSUME NEW r \in Requests, Execute(r)
      PROVE  TypeOK' /\ Trials'
  <2>1. post' \in [Requests -> [status : {"none", "sent", "replied", "rejected"}, id : Nat]]
    BY <1>0, <1>1 DEF TypeOK, Execute
  <2>2. Gate!Admits(r) /\ UNCHANGED <<pc, input, ticket, answer, stores, connected, crashes>>
    BY <1>1 DEF Execute
  <2> QED
    BY <1>0, <2>1, <2>2, AdmissionEnters DEF TypeOK, stores
<1>2. ASSUME NEW r \in Requests, Refused(r) \/ PublishRefused(r)
      PROVE  TypeOK' /\ Trials'
  BY <1>0, <1>2 DEF TypeOK, Trials, Gate!SomeTrialDecides, Refused, PublishRefused, Gate!Refuse,
                    Gate!gateVars, stores, Finish, GoTo
<1>3. ASSUME NEW r \in Requests,
             Fetched(r) \/ FetchFails(r) \/ TicketCreated(r) \/ TicketFails(r) \/ PublishFails(r)
      PROVE  TypeOK' /\ Trials'
  <2>1. /\ inside' \subseteq Requests
        /\ mode' \in {"Closed", "Open", "HalfOpen"}
        /\ trial' \subseteq inside'
        /\ left' \in 0 .. MaxTrials
        /\ Trials'
    BY <1>0, <1>3, ReportLeaves
       DEF TypeOK, Fetched, FetchFails, TicketCreated, TicketFails, PublishFails
  <2> QED
    BY <1>0, <1>3, <2>1 DEF TypeOK, Fetched, FetchFails, TicketCreated, TicketFails, PublishFails,
                            stores, Finish, GoTo, Steps
<1>4. ASSUME NEW r \in Requests, PurchaseStored(r) \/ PurchaseFails(r)
      PROVE  TypeOK' /\ Trials'
  <2>1. /\ inside' \subseteq Requests
        /\ mode' \in {"Closed", "Open", "HalfOpen"}
        /\ trial' \subseteq inside'
        /\ left' \in 0 .. MaxTrials
        /\ Trials'
    BY <1>0, <1>4, ReportLeaves DEF TypeOK, PurchaseStored, PurchaseFails
  <2>2. input[r] \in Bookings
    BY <1>0, <1>4, PostsForBooking DEF PurchaseStored, PurchaseFails, At
  <2>3. purchases' \in Seq([ticket : Nat, event : {b.event : b \in Bookings},
                            user : {b.user : b \in Bookings}, status : {"confirmed"}])
    BY <1>0, <1>4, <2>2, StoreAppends DEF TypeOK, PurchaseStored, PurchaseFails
  <2> QED
    BY <1>0, <1>4, <2>1, <2>3 DEF TypeOK, PurchaseStored, PurchaseFails, Finish, GoTo, Steps
<1>5. ASSUME NEW r \in Requests, PublishEmail(r)
      PROVE  TypeOK' /\ Trials'
  BY <1>0, <1>5, ReportLeaves DEF TypeOK, PublishEmail, Message, Finish, GoTo
<1>6. ASSUME NEW r \in Requests, Arrive(r) \/ PublishPayment(r)
      PROVE  TypeOK' /\ Trials'
  <2>1. CASE Arrive(r)
    BY <1>0, <2>1 DEF TypeOK, Trials, Gate!SomeTrialDecides, Arrive, GoTo, Steps, gateVars, stores
  <2>2. CASE PublishPayment(r)
    BY <1>0, <2>2 DEF TypeOK, Trials, Gate!SomeTrialDecides, PublishPayment, Message, GoTo, Steps,
                      gateVars
  <2> QED
    BY <1>6, <2>1, <2>2
<1>7. ASSUME NEW r \in Requests, TicketService(r)
      PROVE  TypeOK' /\ Trials'
  <2>1. input[r] \in Bookings
    BY <1>0, <1>7, PostsForBooking DEF TicketService, InsertTicket, TicketRejected
  <2>2. tickets' \in Seq(Bookings) /\ Len(tickets) \in Nat
    BY <1>0, <1>7, <2>1, InsertAppends DEF TypeOK, TicketService, InsertTicket, TicketRejected
  <2>3. post' \in [Requests -> [status : {"none", "sent", "replied", "rejected"}, id : Nat]]
    <3>1. /\ post \in [Requests -> [status : {"none", "sent", "replied", "rejected"}, id : Nat]]
          /\ Len(tickets) + 1 \in Nat
      BY <1>0, <2>2 DEF TypeOK
    <3>2. CASE InsertTicket(r)
      BY <3>1, <3>2 DEF InsertTicket
    <3>3. CASE TicketRejected(r)
      BY <3>1, <3>3 DEF TicketRejected
    <3> QED
      BY <1>7, <3>2, <3>3 DEF TicketService
  <2>4. UNCHANGED <<gateVars, pc, input, ticket, answer, purchases, published, connected, crashes>>
    BY <1>7 DEF TicketService, InsertTicket, TicketRejected
  <2> QED
    BY <1>0, <2>2, <2>3, <2>4 DEF TypeOK, Trials, Gate!SomeTrialDecides, gateVars
<1>8. CASE Crash
  BY <1>0, <1>8, CrashesAssumption, TrialsAssumption
     DEF TypeOK, Trials, Gate!SomeTrialDecides, Crash, stores
<1>9. CASE UNCHANGED vars
  BY <1>0, <1>9 DEF TypeOK, Trials, Gate!SomeTrialDecides, vars, gateVars
<1> QED
  BY <1>1, <1>2, <1>3, <1>4, <1>5, <1>6, <1>7, <1>8, <1>9 DEF Next, Handle, AllEnded

-----------------------------------------------------------------------------
(***************************************************************************)
(* The POST to the ticket service and its reply.                           *)
(***************************************************************************)
(* How the steps that follow Arrive, and do not send the POST, move their  *)
(* request: out of the gate or not into it, and forward.                   *)
Moves(r) ==
    /\ UNCHANGED <<input, post>>
    /\ pc[r] \in Steps
    /\ \A q \in Requests : q # r => pc'[q] = pc[q] /\ ticket'[q] = ticket[q] /\ answer'[q] = answer[q]
    /\ inside' = inside \/ inside' = inside \ {r}
    /\ \/ pc[r] = "event" /\ pc'[r] = "user" /\ UNCHANGED <<ticket, answer>>
       \/ pc[r] = "user" /\ pc'[r] = "ticket" /\ UNCHANGED <<ticket, answer>>
       \/ /\ pc[r] = "ticket" /\ Replied(r) /\ pc'[r] = "purchase"
          /\ ticket'[r] = post[r].id /\ UNCHANGED answer
       \/ pc[r] = "purchase" /\ pc'[r] = "topay" /\ UNCHANGED <<ticket, answer>>
       \/ pc[r] = "topay" /\ pc'[r] = "email" /\ UNCHANGED <<ticket, answer>>
       \/ pc'[r] = "done" /\ UNCHANGED ticket

(* Refused, and every way a step of the body ends, moves its request. *)
LEMMA HandlersMove ==
    ASSUME TypeOK, Trials, NEW r \in Requests, Handle(r), ~ Execute(r)
    PROVE  Moves(r) /\ UNCHANGED tickets
<1>1. CASE Refused(r) \/ PublishRefused(r)
  BY <1>1 DEF TypeOK, Moves, Refused, PublishRefused, Gate!Refuse, Gate!gateVars, Finish, GoTo,
              stores, Steps
<1>2. CASE Fetched(r) \/ FetchFails(r)
  BY <1>2, ReportLeaves DEF TypeOK, Moves, Fetched, FetchFails, At, Finish, GoTo, stores, Steps
<1>3. CASE TicketCreated(r) \/ TicketFails(r)
  BY <1>3, ReportLeaves DEF TypeOK, Moves, TicketCreated, TicketFails, At, Finish, GoTo, stores,
                            Steps
<1>4. CASE PurchaseStored(r) \/ PurchaseFails(r)
  BY <1>4, ReportLeaves DEF TypeOK, Moves, PurchaseStored, PurchaseFails, At, Finish, GoTo, Steps
<1>5. CASE PublishPayment(r)
  BY <1>5 DEF TypeOK, Moves, PublishPayment, At, GoTo, gateVars, Steps
<1>6. CASE PublishEmail(r) \/ PublishFails(r)
  BY <1>6, ReportLeaves DEF TypeOK, Moves, PublishEmail, PublishFails, At, Finish, GoTo, stores,
                            Steps
<1> QED
  BY <1>1, <1>2, <1>3, <1>4, <1>5, <1>6 DEF Handle

(* The ticket service's side changes the table and the POST it answers,    *)
(* and a reply names the row that was inserted for it.                     *)
LEMMA ServiceAnswers ==
    ASSUME TypeOK, Posting, NEW r \in Requests, TicketService(r)
    PROVE  /\ UNCHANGED <<inside, pc, input, ticket, answer, purchases, published>>
           /\ post[r].status = "sent"
           /\ \A q \in Requests : q # r => post'[q] = post[q]
           /\ \A t \in TicketIds : t \in TicketIds' /\ tickets'[t] = tickets[t]
           /\ \/ /\ Insert(r)
                 /\ post'[r] = [status |-> "replied", id |-> Len(tickets) + 1]
              \/ /\ Insert(r) \/ UNCHANGED tickets
                 /\ post'[r].status = "rejected"
<1>1. input[r] \in Bookings
  BY PostsForBooking DEF TicketService, InsertTicket, TicketRejected
<1>2. \A t \in TicketIds : t \in TicketIds' /\ tickets'[t] = tickets[t]
  BY <1>1, InsertAppends DEF TicketService, InsertTicket, TicketRejected, TicketIds
<1> QED
  BY <1>2 DEF TypeOK, TicketService, InsertTicket, TicketRejected, gateVars

(* One POST a request, sent for its booking; replies name distinct rows.   *)
LEMMA PostingStep == IInv /\ [Next]_vars => Posting'
<1> SUFFICES ASSUME IInv, [Next]_vars
             PROVE  Posting'
  OBVIOUS
<1>0. TypeOK /\ Trials /\ Posting
  BY DEF IInv
<1>1. ASSUME NEW r \in Requests, Arrive(r)
      PROVE  Posting'
  <2>1. /\ UNCHANGED <<inside, post, tickets>>
        /\ pc[r] = "idle" /\ pc'[r] = "event" /\ input'[r] \in Bookings
        /\ \A q \in Requests : q # r => pc'[q] = pc[q] /\ input'[q] = input[q]
    BY <1>0, <1>1 DEF TypeOK, Arrive, GoTo, gateVars, stores
  <2> QED
    BY <1>0, <2>1 DEF Posting, Replied, TicketIds
<1>2. ASSUME NEW r \in Requests, Execute(r)
      PROVE  Posting'
  <2>1. /\ UNCHANGED <<pc, input, tickets>>
        /\ inside' = inside \union {r} /\ r \notin inside
        /\ \A q \in Requests : q # r => post'[q] = post[q]
        /\ IF pc[r] = "ticket" THEN post'[r].status = "sent" ELSE post'[r] = post[r]
    BY <1>0, <1>2, AdmissionEnters DEF TypeOK, Execute, stores
  <2> QED
    BY <1>0, <2>1 DEF Posting, Replied, TicketIds
<1>3. ASSUME NEW r \in Requests, Handle(r), ~ Execute(r)
      PROVE  Posting'
  <2>1. Moves(r) /\ UNCHANGED tickets
    BY <1>0, <1>3, HandlersMove
  <2> QED
    BY <1>0, <2>1 DEF Posting, Moves, Replied, TicketIds, Steps
<1>4. ASSUME NEW r \in Requests, TicketService(r)
      PROVE  Posting'
  <2>1. /\ UNCHANGED <<inside, pc, input>>
        /\ post[r].status = "sent"
        /\ \A q \in Requests : q # r => post'[q] = post[q]
        /\ \A t \in TicketIds : t \in TicketIds' /\ tickets'[t] = tickets[t]
        /\ \/ Insert(r) /\ post'[r] = [status |-> "replied", id |-> Len(tickets) + 1]
           \/ post'[r].status = "rejected"
    BY <1>0, <1>4, ServiceAnswers
  <2>2. CASE post'[r].status = "rejected"
    BY <1>0, <2>1, <2>2 DEF Posting, Replied
  <2>3. CASE Insert(r) /\ post'[r] = [status |-> "replied", id |-> Len(tickets) + 1]
    <3>1. /\ Len(tickets) + 1 \in TicketIds' /\ Len(tickets) + 1 \notin TicketIds
          /\ tickets'[Len(tickets) + 1] = input[r]
      BY <1>0, <2>1, <2>3, PostsForBooking, InsertAppends DEF TicketIds
    <3> QED
      BY <1>0, <2>1, <2>3, <3>1 DEF Posting, Replied
  <2> QED
    BY <2>1, <2>2, <2>3
<1>5. CASE Crash
  BY <1>0, <1>5 DEF TypeOK, Posting, Replied, TicketIds, Crash, stores, Steps
<1>6. CASE UNCHANGED vars
  BY <1>0, <1>6 DEF Posting, Replied, TicketIds, vars, gateVars
<1> QED
  BY <1>1, <1>2, <1>3, <1>4, <1>5, <1>6 DEF Next, AllEnded

(* The handler never has a ticket_id it was not sent. *)
LEMMA TicketedStep == IInv /\ [Next]_vars => Ticketed'
<1> SUFFICES ASSUME IInv, [Next]_vars
             PROVE  Ticketed'
  OBVIOUS
<1>0. TypeOK /\ Trials /\ Posting /\ Ticketed
  BY DEF IInv
<1>1. ASSUME NEW r \in Requests, Arrive(r)
      PROVE  Ticketed'
  BY <1>0, <1>1 DEF TypeOK, Ticketed, Replied, Arrive, GoTo
<1>2. ASSUME NEW r \in Requests, Execute(r)
      PROVE  Ticketed'
  <2>1. /\ UNCHANGED <<pc, ticket>>
        /\ \A q \in Requests : q # r => post'[q] = post[q]
        /\ post'[r] = post[r] \/ post[r].status = "none"
    BY <1>0, <1>2, AdmissionEnters DEF TypeOK, Posting, Execute
  <2> QED
    BY <1>0, <2>1 DEF Ticketed, Replied
<1>3. ASSUME NEW r \in Requests, Handle(r), ~ Execute(r)
      PROVE  Ticketed'
  <2>1. Moves(r)
    BY <1>0, <1>3, HandlersMove
  <2>2. Replied(r) => post[r].id # 0
    BY <1>0 DEF Posting, TicketIds
  <2> QED
    BY <1>0, <2>1, <2>2 DEF Ticketed, Moves, Replied
<1>4. ASSUME NEW r \in Requests, TicketService(r)
      PROVE  Ticketed'
  BY <1>0, <1>4, ServiceAnswers DEF Ticketed, Replied
<1>5. CASE Crash
  BY <1>0, <1>5 DEF TypeOK, Ticketed, Replied, Crash, Steps
<1>6. CASE UNCHANGED vars
  BY <1>0, <1>6 DEF Ticketed, Replied, vars
<1> QED
  BY <1>1, <1>2, <1>3, <1>4, <1>5, <1>6 DEF Next, AllEnded

-----------------------------------------------------------------------------
(***************************************************************************)
(* Purchases and messages.                                                 *)
(***************************************************************************)
(* Where the handler stores and where it publishes: only past the purchase *)
(* step with the row stored, "topay" before the mail.                      *)
LEMMA HandlersStore ==
    ASSUME TypeOK, NEW r \in Requests, Handle(r), ~ Execute(r)
    PROVE  /\ UNCHANGED purchases \/ (pc[r] = "purchase" /\ pc'[r] \in {"topay", "done"} /\ Store(r))
           /\ pc[r] = "purchase" /\ (pc'[r] = "topay" \/ answer'[r] = "created") => Store(r)
           /\ \/ UNCHANGED published /\ pc'[r] # "email"
              \/ /\ pc[r] = "topay" /\ pc'[r] = "email"
                 /\ published' = published \union {Message("topay", r)}
              \/ /\ pc[r] = "email" /\ pc'[r] = "done"
                 /\ published' = published \union {Message("email", r)}
           /\ pc'[r] = "done" =>
                 answer'[r] = "created" <=> \/ pc[r] = "purchase" /\ answer'[r] = "created"
                                           \/ pc[r] \in {"topay", "email"}
<1>1. CASE Refused(r) \/ PublishRefused(r) \/ PublishFails(r)
  BY <1>1 DEF TypeOK, Refused, PublishRefused, PublishFails, At, Finish, GoTo, stores
<1>2. CASE Fetched(r) \/ FetchFails(r) \/ TicketCreated(r) \/ TicketFails(r)
  BY <1>2 DEF TypeOK, Fetched, FetchFails, TicketCreated, TicketFails, At, Finish, GoTo, stores
<1>3. CASE PurchaseStored(r) \/ PurchaseFails(r)
  BY <1>3 DEF TypeOK, PurchaseStored, PurchaseFails, At, Finish, GoTo
<1>4. CASE PublishPayment(r) \/ PublishEmail(r)
  BY <1>4 DEF TypeOK, PublishPayment, PublishEmail, At, Finish, GoTo
<1> QED
  BY <1>1, <1>2, <1>3, <1>4 DEF Handle

(* No row of the purchases table is lost or changed. *)
LEMMA PurchasesStay ==
    ASSUME IInv, [Next]_vars
    PROVE  /\ \A i \in PurchaseIds : i \in PurchaseIds' /\ purchases'[i] = purchases[i]
           /\ \A t : Purchased(t) => Purchased(t)'
<1>1. \A i \in PurchaseIds : i \in PurchaseIds' /\ purchases'[i] = purchases[i]
  <2>1. ASSUME NEW r \in Requests, Handle(r), ~ Execute(r), ~ UNCHANGED purchases
        PROVE  \A i \in PurchaseIds : i \in PurchaseIds' /\ purchases'[i] = purchases[i]
    <3>1. pc[r] = "purchase" /\ Store(r)
      BY <2>1, HandlersStore DEF IInv
    <3>2. input[r] \in Bookings /\ TypeOK
      BY <3>1, PostsForBooking DEF IInv
    <3>3. /\ Len(purchases) \in Nat
          /\ Len(purchases') = Len(purchases) + 1
          /\ \A i \in PurchaseIds : purchases'[i] = purchases[i]
      BY <3>1, <3>2, StoreAppends
    <3> QED
      BY <3>3 DEF PurchaseIds
  <2>2. CASE UNCHANGED purchases
    BY <2>2 DEF PurchaseIds
  <2>3. ASSUME NEW r \in Requests, Arrive(r) \/ Execute(r) \/ TicketService(r)
        PROVE  UNCHANGED purchases
    BY <2>3 DEF Arrive, Execute, TicketService, InsertTicket, TicketRejected, stores
  <2> QED
    BY <2>1, <2>2, <2>3 DEF Next, Crash, AllEnded, vars, stores
<1> QED
  BY <1>1 DEF Purchased

(* A purchase keeps its request, and no ticket is bought twice. *)
LEMMA PurchasingStep == IInv /\ [Next]_vars => Purchasing'
<1> SUFFICES ASSUME IInv, [Next]_vars
             PROVE  Purchasing'
  OBVIOUS
<1>0. TypeOK /\ Trials /\ Posting /\ Ticketed /\ Purchasing /\ Publishing
  BY DEF IInv
<1>1. ASSUME UNCHANGED purchases,
             \A q \in Requests : pc[q] \in {"topay", "email", "done", "lost"} =>
                 ticket'[q] = ticket[q] /\ input'[q] = input[q]
                   /\ pc'[q] \in {"topay", "email", "done", "lost"},
             \A q \in Requests : pc'[q] \in {"topay", "email"} \/ answer'[q] = "created" =>
                 (pc[q] \in {"topay", "email"} \/ answer[q] = "created") /\ ticket'[q] = ticket[q]
      PROVE  Purchasing'
  <2>1. PurchaseIds' = PurchaseIds /\ \A t : Purchased(t)' <=> Purchased(t)
    BY <1>1 DEF PurchaseIds, Purchased
  <2>2. \A q \in Requests : pc[q] \in {"topay", "email", "done", "lost"} =>
            Purchase(q)' = Purchase(q)
    BY <1>1 DEF Purchase
  <2>3. \A i \in PurchaseIds : \E q \in Requests :
            /\ ticket'[q] # 0
            /\ pc'[q] \in {"topay", "email", "done", "lost"}
            /\ purchases'[i] = Purchase(q)'
    BY <1>0, <1>1, <2>2 DEF Purchasing
  <2> HIDE DEF Purchased
  <2>4. \A q \in Requests : pc'[q] \in {"topay", "email"} \/ answer'[q] = "created" =>
            ticket'[q] # 0 /\ Purchased(ticket[q])'
    BY <1>0, <1>1, <2>1 DEF Purchasing
  <2> QED
    BY <1>0, <1>1, <2>1, <2>3, <2>4 DEF Purchasing
<1>2. ASSUME NEW r \in Requests, Arrive(r)
      PROVE  Purchasing'
  BY <1>0, <1>1, <1>2 DEF TypeOK, Ticketed, Arrive, GoTo, stores
<1>3. ASSUME NEW r \in Requests, Execute(r) \/ TicketService(r)
      PROVE  Purchasing'
  <2>1. UNCHANGED <<purchases, ticket, input, pc, answer>>
    BY <1>3 DEF Execute, TicketService, InsertTicket, TicketRejected, stores
  <2> QED
    BY <1>1, <2>1
<1>4. ASSUME NEW r \in Requests, Handle(r), ~ Execute(r), UNCHANGED purchases
      PROVE  Purchasing'
  <2>1. Moves(r)
    BY <1>0, <1>4, HandlersMove
  <2>2. ~ Store(r)
    <3> SUFFICES ASSUME Store(r)
                 PROVE  FALSE
      OBVIOUS
    <3>1. input[r] \in Bookings
      BY <1>0, <2>1 DEF Moves, Posting, Steps
    <3>2. Len(purchases) \in Nat /\ Len(purchases') = Len(purchases) + 1
      BY <1>0, <3>1, StoreAppends
    <3> QED
      BY <1>4, <3>2
  <2>3. answer'[r] = "created" => pc[r] \in {"topay", "email"} \/ answer[r] = "created"
    BY <1>0, <1>4, <2>2, <2>1, HandlersStore DEF Moves
  <2>4. pc'[r] \in {"topay", "email"} => pc[r] \in {"topay", "email"}
    BY <1>0, <1>4, <2>2, <2>1, HandlersStore DEF Moves
  <2>5. \A q \in Requests : pc[q] \in {"topay", "email", "done", "lost"} =>
            ticket'[q] = ticket[q] /\ input'[q] = input[q]
              /\ pc'[q] \in {"topay", "email", "done", "lost"}
    BY <2>1 DEF Moves, Steps
  <2>6. pc'[r] \in {"topay", "email", "done"} => ticket'[r] = ticket[r]
    BY <2>1 DEF Moves
  <2>7. \A q \in Requests : pc'[q] \in {"topay", "email"} \/ answer'[q] = "created" =>
            (pc[q] \in {"topay", "email"} \/ answer[q] = "created") /\ ticket'[q] = ticket[q]
    BY <1>0, <2>1, <2>3, <2>4, <2>6 DEF Moves, Publishing, Steps
  <2> QED
    BY <1>1, <1>4, <2>5, <2>7
<1>5. ASSUME NEW r \in Requests, Handle(r), ~ Execute(r), Store(r), ~ UNCHANGED purchases
      PROVE  Purchasing'
  <2> DEFINE n == Len(purchases) + 1
  <2>1. Moves(r) /\ pc[r] = "purchase" /\ pc'[r] \in {"topay", "done"}
    BY <1>0, <1>5, HandlersMove, HandlersStore
  <2>2. ticket[r] # 0 /\ UNCHANGED <<ticket, input>>
    BY <1>0, <2>1 DEF Ticketed, Moves, TypeOK
  <2>3. \A q \in Requests : Purchase(q)' = Purchase(q)
    BY <2>2 DEF Purchase
  <2>4. input[r] \in Bookings
    BY <1>0, <2>1, PostsForBooking
  <2>5. /\ Len(purchases) \in Nat
        /\ Len(purchases') = n
        /\ \A i \in PurchaseIds : purchases'[i] = purchases[i]
        /\ purchases'[n] = Purchase(r)
    BY <1>0, <1>5, <2>4, StoreAppends
  <2>6. PurchaseIds' = PurchaseIds \union {n} /\ n \notin PurchaseIds
    BY <2>5 DEF PurchaseIds
  <2>7. \A i \in PurchaseIds : \E q \in Requests :
            /\ ticket'[q] # 0
            /\ pc'[q] \in {"topay", "email", "done", "lost"}
            /\ purchases'[i] = Purchase(q)'
    BY <1>0, <2>1, <2>2, <2>3, <2>5 DEF Purchasing, Moves
  <2>8. \A i \in PurchaseIds : purchases'[i].ticket # ticket[r]
    <3> SUFFICES ASSUME NEW i \in PurchaseIds, purchases[i].ticket = ticket[r]
                 PROVE  FALSE
      BY <2>5
    <3>1. PICK q \in Requests : /\ ticket[q] # 0
                                /\ pc[q] \in {"topay", "email", "done", "lost"}
                                /\ purchases[i] = Purchase(q)
      BY <1>0 DEF Purchasing
    <3>2. ticket[q] = ticket[r]
      BY <3>1 DEF Purchase
    <3>3. q = r
      BY <1>0, <2>2, <3>1, <3>2 DEF Posting, Ticketed
    <3> QED
      BY <2>1, <3>1, <3>3
  <2>9. \A i, j \in PurchaseIds' : purchases'[i].ticket = purchases'[j].ticket => i = j
    BY <1>0, <2>5, <2>6, <2>8 DEF Purchasing, Purchase
  <2>10. \A q \in Requests : pc'[q] \in {"topay", "email"} \/ answer'[q] = "created" =>
             ticket'[q] # 0 /\ Purchased(ticket[q])'
    <3>1. Purchased(ticket[r])'
      BY <2>2, <2>5, <2>6 DEF Purchased, Purchase
    <3>2. \A q \in Requests : Purchased(ticket[q]) => Purchased(ticket[q])'
      BY <2>2, PurchasesStay
    <3> QED
      BY <1>0, <2>1, <2>2, <3>1, <3>2 DEF Purchasing, Moves
  <2>11. \E q \in Requests : /\ ticket'[q] # 0
                             /\ pc'[q] \in {"topay", "email", "done", "lost"}
                             /\ purchases'[n] = Purchase(q)'
    BY <2>1, <2>2, <2>3, <2>5
  <2> HIDE DEF n
  <2> QED
    BY <2>6, <2>7, <2>9, <2>10, <2>11 DEF Purchasing
<1>6. CASE Crash
  BY <1>0, <1>1, <1>6 DEF TypeOK, Crash, stores, Steps
<1>7. CASE UNCHANGED vars
  BY <1>1, <1>7 DEF vars, stores
<1> QED
  <2>1. ASSUME NEW r \in Requests, Handle(r)
        PROVE  Purchasing'
    BY <1>0, <1>3, <1>4, <1>5, <2>1, HandlersStore
  <2> QED
    BY <1>2, <1>3, <1>6, <1>7, <2>1 DEF Next, AllEnded

(* A message follows its purchase, and a request that published can end    *)
(* only with 201.                                                          *)
LEMMA PublishingStep == IInv /\ [Next]_vars => Publishing'
<1> SUFFICES ASSUME IInv, [Next]_vars
             PROVE  Publishing'
  OBVIOUS
<1>0. TypeOK /\ Trials /\ Posting /\ Ticketed /\ Purchasing /\ Publishing
  BY DEF IInv
<1>1. \A t : Purchased(t) => Purchased(t)'
  BY PurchasesStay
<1>2. ASSUME UNCHANGED <<ticket, published, answer>>,
             \A q \in Requests :
                 /\ pc[q] \in {"email", "done", "lost"} => pc'[q] \in {"email", "done", "lost"}
                 /\ pc[q] = "done" <=> pc'[q] = "done"
                 /\ pc'[q] = "email" => pc[q] = "email"
      PROVE  Publishing'
  <2>1. \A q \in Requests :
           /\ pc'[q] # "done" => answer'[q] = "none"
           /\ pc'[q] = "email" => Message("topay", q)' \in published'
    BY <1>0, <1>2 DEF Publishing, Message
  <2>2. \A m \in published : Purchased(m.ticket)'
    BY <1>0, <1>1 DEF Publishing
  <2> QED
    BY <1>0, <1>2, <2>1, <2>2 DEF Publishing
<1>3. ASSUME NEW r \in Requests, Arrive(r)
      PROVE  Publishing'
  BY <1>0, <1>2, <1>3 DEF TypeOK, Arrive, GoTo, stores
<1>4. ASSUME NEW r \in Requests, Execute(r) \/ TicketService(r)
      PROVE  Publishing'
  BY <1>2, <1>4 DEF Execute, TicketService, InsertTicket, TicketRejected, stores
<1>5. CASE Crash
  BY <1>0, <1>2, <1>5 DEF TypeOK, Crash, stores, Steps
<1>6. CASE UNCHANGED vars
  BY <1>2, <1>6 DEF vars, stores
<1>7. ASSUME NEW r \in Requests, Handle(r), ~ Execute(r)
      PROVE  Publishing'
  <2>1. Moves(r)
    BY <1>0, <1>7, HandlersMove
  <2>2. /\ \/ UNCHANGED published /\ pc'[r] # "email"
           \/ /\ pc[r] = "topay" /\ pc'[r] = "email"
              /\ published' = published \union {Message("topay", r)}
           \/ /\ pc[r] = "email" /\ pc'[r] = "done"
              /\ published' = published \union {Message("email", r)}
        /\ pc[r] = "email" /\ pc'[r] = "done" => answer'[r] = "created"
    BY <1>0, <1>7, HandlersStore
  <2>3. pc[r] \in {"topay", "email"} =>
            ticket'[r] = ticket[r] /\ ticket[r] # 0 /\ Purchased(ticket[r])
    BY <1>0, <2>1 DEF Moves, Purchasing
  <2>4. ASSUME NEW q \in Requests
        PROVE  /\ pc'[q] # "done" => answer'[q] = "none"
               /\ pc'[q] = "email" => Message("topay", q)' \in published'
    BY <1>0, <2>1, <2>2, <2>3 DEF Moves, Publishing, Message
  <2>5. ASSUME NEW q \in Requests,
               ticket[q] # 0, pc[q] \in {"email", "done", "lost"}, answer[q] \in {"none", "created"}
        PROVE  /\ ticket'[q] = ticket[q]
               /\ pc'[q] \in {"email", "done", "lost"}
               /\ answer'[q] \in {"none", "created"}
    BY <2>1, <2>2, <2>5 DEF Moves, Steps
  <2>6. ASSUME NEW m \in published
        PROVE  /\ \E q \in Requests :
                     /\ m.ticket = ticket'[q] /\ ticket'[q] # 0
                     /\ pc'[q] \in {"email", "done", "lost"}
                     /\ answer'[q] \in {"none", "created"}
               /\ Purchased(m.ticket)'
               /\ m.kind = "email" => [m EXCEPT !.kind = "topay"] \in published'
    BY <1>0, <1>1, <2>2, <2>5 DEF Publishing
  <2>7. ASSUME NEW m \in published', m \notin published
        PROVE  /\ \E q \in Requests :
                     /\ m.ticket = ticket'[q] /\ ticket'[q] # 0
                     /\ pc'[q] \in {"email", "done", "lost"}
                     /\ answer'[q] \in {"none", "created"}
               /\ Purchased(m.ticket)'
               /\ m.kind = "email" => [m EXCEPT !.kind = "topay"] \in published'
    <3>1. /\ (pc[r] = "topay" /\ pc'[r] = "email") \/ (pc[r] = "email" /\ pc'[r] = "done")
          /\ m \in {Message("topay", r), Message("email", r)}
          /\ m.ticket = ticket[r]
      BY <2>2, <2>7 DEF Message
    <3>2. answer'[r] \in {"none", "created"}
      BY <2>2, <2>4, <3>1
    <3>3. Purchased(m.ticket)'
      BY <1>1, <2>3, <3>1
    <3>4. m.kind = "email" => [m EXCEPT !.kind = "topay"] \in published'
      <4>1. m.kind = "email" => pc[r] = "email" /\ m = Message("email", r)
        BY <2>2, <2>7 DEF Message
      <4>2. [Message("email", r) EXCEPT !.kind = "topay"] = Message("topay", r)
        BY DEF Message
      <4> QED
        BY <1>0, <2>2, <4>1, <4>2 DEF Publishing
    <3> QED
      BY <2>3, <3>1, <3>2, <3>3, <3>4
  <2> QED
    BY <2>4, <2>6, <2>7 DEF Publishing
<1> QED
  BY <1>3, <1>4, <1>5, <1>6, <1>7 DEF Next, AllEnded

-----------------------------------------------------------------------------
(***************************************************************************)
(* Who inserted each ticket.                                               *)
(***************************************************************************)
(* A rejected POST whose row is there all the same has its author too.     *)
LEMMA AuthoredStep == IInv /\ [Next]_vars => Authored'
<1> SUFFICES ASSUME IInv, [Next]_vars
             PROVE  Authored'
  OBVIOUS
<1>0. TypeOK /\ Trials /\ Posting /\ Authored
  BY DEF IInv
<1>1. PICK author \in [TicketIds -> Requests] : Wrote(author)
  BY <1>0 DEF Authored
<1>2. \A t \in TicketIds : post[author[t]].status \in {"replied", "rejected"}
  BY <1>1 DEF Wrote
<1>3. ASSUME UNCHANGED tickets,
             \A q \in Requests : post[q].status \in {"replied", "rejected"} =>
                 post'[q] = post[q] /\ input'[q] = input[q],
             \A q \in Requests : Replied(q)' => Replied(q)
      PROVE  Authored'
  <2>1. author \in [TicketIds' -> Requests]
    BY <1>3 DEF TicketIds
  <2>2. Wrote(author)'
    BY <1>1, <1>2, <1>3 DEF Wrote, TicketIds, Replied
  <2> QED
    BY <2>1, <2>2 DEF Authored
<1>4. ASSUME NEW r \in Requests, Arrive(r) \/ Execute(r)
      PROVE  Authored'
  <2>1. post[r].status = "none"  \/ UNCHANGED <<post, input>>
    BY <1>0, <1>4, AdmissionEnters DEF TypeOK, Posting, Arrive, Execute
  <2>2. /\ UNCHANGED tickets
        /\ \A q \in Requests : q # r => post'[q] = post[q] /\ input'[q] = input[q]
        /\ Replied(r)' => Replied(r)
    BY <1>0, <1>4 DEF TypeOK, Arrive, Execute, Replied, stores
  <2> QED
    BY <1>3, <2>1, <2>2 DEF Replied
<1>5. ASSUME NEW r \in Requests, Handle(r), ~ Execute(r)
      PROVE  Authored'
  <2>1. Moves(r) /\ UNCHANGED tickets
    BY <1>0, <1>5, HandlersMove
  <2> QED
    BY <1>3, <2>1 DEF Moves, Replied
<1>6. CASE Crash \/ UNCHANGED vars
  BY <1>3, <1>6 DEF Crash, vars, stores, Replied
<1>7. ASSUME NEW r \in Requests, TicketService(r)
      PROVE  Authored'
  <2>1. /\ UNCHANGED input
        /\ post[r].status = "sent"
        /\ \A q \in Requests : q # r => post'[q] = post[q]
        /\ \/ /\ Insert(r)
              /\ post'[r] = [status |-> "replied", id |-> Len(tickets) + 1]
           \/ /\ Insert(r) \/ UNCHANGED tickets
              /\ post'[r].status = "rejected"
    BY <1>0, <1>7, ServiceAnswers
  <2>2. \A t \in TicketIds : author[t] # r
    BY <1>2, <2>1
  <2>3. CASE UNCHANGED tickets
    <3>1. post'[r].status = "rejected"
      <4>1. input[r] \in Bookings
        BY <1>0, <2>1, PostsForBooking
      <4>2. ~ Insert(r)
        <5> SUFFICES ASSUME Insert(r)
                     PROVE  FALSE
          OBVIOUS
        <5>1. Len(tickets) \in Nat /\ Len(tickets') = Len(tickets) + 1
          BY <1>0, <4>1, InsertAppends
        <5> QED
          BY <2>3, <5>1
      <4> QED
        BY <2>1, <4>2
    <3> QED
      BY <1>3, <2>1, <2>3, <3>1 DEF Replied
  <2>4. CASE Insert(r)
    <3> DEFINE n == Len(tickets) + 1
    <3>1. input[r] \in Bookings
      BY <1>0, <2>1, PostsForBooking
    <3>2. /\ Len(tickets) \in Nat
          /\ Len(tickets') = n
          /\ \A t \in TicketIds : tickets'[t] = tickets[t]
          /\ tickets'[n] = input[r]
      BY <1>0, <2>4, <3>1, InsertAppends
    <3>3. TicketIds' = TicketIds \union {n} /\ n \notin TicketIds
      BY <3>2 DEF TicketIds
    <3> HIDE DEF n
    <3>4. PICK writer \in [TicketIds' -> Requests] :
              writer[n] = r /\ \A t \in TicketIds : writer[t] = author[t]
      <4> DEFINE extended == [t \in TicketIds' |-> IF t = n THEN r ELSE author[t]]
      <4>1. /\ extended \in [TicketIds' -> Requests]
            /\ extended[n] = r
            /\ \A t \in TicketIds : extended[t] = author[t]
        BY <1>1, <3>3
      <4> QED
        BY <4>1
    <3>5. ASSUME NEW t \in TicketIds'
          PROVE  /\ input'[writer[t]] = tickets'[t]
                 /\ post'[writer[t]].status \in {"replied", "rejected"}
      <4>1. CASE t = n
        BY <2>1, <3>2, <3>4, <4>1
      <4>2. CASE t \in TicketIds
        <5>1. author[t] \in Requests /\ author[t] # r /\ writer[t] = author[t]
          BY <1>1, <2>2, <3>4, <4>2
        <5> QED
          BY <1>1, <2>1, <3>2, <4>2, <5>1 DEF Wrote
      <4> QED
        BY <3>3, <4>1, <4>2
    <3>6. \A t, u \in TicketIds' : writer[t] = writer[u] => t = u
      BY <1>1, <2>2, <3>3, <3>4 DEF Wrote
    <3>7. ASSUME NEW q \in Requests, Replied(q)'
          PROVE  writer[post'[q].id] = q
      <4>1. CASE q = r
        BY <2>1, <3>4, <3>7, <4>1 DEF Replied, n
      <4>2. CASE q # r
        <5>1. Replied(q) /\ post'[q] = post[q]
          BY <2>1, <3>7, <4>2 DEF Replied
        <5>2. post[q].id \in TicketIds
          BY <1>0, <5>1 DEF Posting
        <5> QED
          BY <1>1, <3>4, <5>1, <5>2 DEF Wrote
      <4> QED
        BY <4>1, <4>2
    <3>8. Wrote(writer)'
      BY <3>5, <3>6, <3>7 DEF Wrote
    <3> QED
      BY <3>4, <3>8 DEF Authored
  <2> QED
    BY <2>1, <2>3, <2>4
<1> QED
  BY <1>4, <1>5, <1>6, <1>7 DEF Next, AllEnded

(* Every step keeps the inductive invariant. *)
LEMMA IInvStep == IInv /\ [Next]_vars => IInv'
BY TypeOKStep, PostingStep, TicketedStep, PurchasingStep, PublishingStep, AuthoredStep DEF IInv

(* IInv is an invariant. *)
LEMMA IInvHolds == Spec => []IInv
BY IInvInit, IInvStep, PTL DEF Spec

-----------------------------------------------------------------------------
(* Every purchase names a ticket that exists and was issued for the same   *)
(* event and user, and no ticket is sold twice (ReserveTicket).            *)
THEOREM PurchasesHold == Spec => []PurchasesMatchTickets
<1>1. ASSUME IInv
      PROVE  PurchasesMatchTickets
  <2>1. ASSUME NEW i \in PurchaseIds
        PROVE  /\ purchases[i].ticket \in TicketIds
               /\ tickets[purchases[i].ticket] =
                     [event |-> purchases[i].event, user |-> purchases[i].user]
    <3>1. PICK r \in Requests : /\ ticket[r] # 0
                                /\ pc[r] \in {"topay", "email", "done", "lost"}
                                /\ purchases[i] = Purchase(r)
      BY <1>1 DEF IInv, Purchasing
    <3>2. /\ purchases[i].ticket = post[r].id /\ Replied(r)
          /\ purchases[i].event = input[r].event /\ purchases[i].user = input[r].user
      BY <1>1, <3>1 DEF IInv, Ticketed, Purchase
    <3>3. post[r].id \in TicketIds /\ tickets[post[r].id] = input[r] /\ input[r] \in Bookings
      BY <1>1, <3>1, <3>2 DEF IInv, Posting
    <3> QED
      BY <3>2, <3>3, BookingsAssumption
  <2> QED
    BY <1>1, <2>1 DEF IInv, Purchasing, PurchasesMatchTickets
<1> QED
  BY <1>1, IInvHolds, PTL

(* 201 means that the ticket and its purchase are in the two databases,    *)
(* whatever the breaker, the broker or a crash did in the meantime.        *)
THEOREM CreatedHolds == Spec => []CreatedMeansStored
<1>1. ASSUME IInv
      PROVE  CreatedMeansStored
  <2> SUFFICES ASSUME NEW r \in Requests, answer[r] = "created"
               PROVE  ticket[r] \in TicketIds /\ Purchased(ticket[r])
    BY DEF CreatedMeansStored
  <2>1. ticket[r] # 0 /\ Purchased(ticket[r])
    BY <1>1 DEF IInv, Purchasing
  <2> QED
    BY <1>1, <2>1 DEF IInv, Ticketed, Posting
<1> QED
  BY <1>1, IInvHolds, PTL

(* "topay" and the mail are published in this order and after the purchase. *)
THEOREM MessagesHold == Spec => []MessagesFollowPurchases
<1>1. IInv => MessagesFollowPurchases
  BY DEF IInv, Publishing, MessagesFollowPurchases
<1> QED
  BY <1>1, IInvHolds, PTL

(* A client that is told of an error or a refusal is not asked to pay. *)
THEOREM FailuresHold == Spec => []FailedMeansNoMessage
<1>1. ASSUME IInv
      PROVE  FailedMeansNoMessage
  <2> SUFFICES ASSUME NEW r \in Requests, answer[r] \in {"error", "refused"},
                      NEW m \in published, m.ticket = ticket[r]
               PROVE  FALSE
    BY DEF FailedMeansNoMessage
  <2>1. PICK q \in Requests : /\ m.ticket = ticket[q] /\ ticket[q] # 0
                              /\ answer[q] \in {"none", "created"}
    BY <1>1 DEF IInv, Publishing
  <2>2. /\ Replied(q) /\ ticket[q] = post[q].id
        /\ Replied(r) /\ ticket[r] = post[r].id
    <3>1. ticket[r] # 0
      BY <2>1
    <3> QED
      BY <1>1, <2>1, <3>1 DEF IInv, Ticketed
  <2>3. q = r
    BY <1>1, <2>1, <2>2 DEF IInv, Posting
  <2> QED
    BY <2>1, <2>3
<1> QED
  BY <1>1, IInvHolds, PTL

(* However requests are refused, time out, lose a reply or crash, there is *)
(* a failed request of its own for each ticket that nobody bought: sending *)
(* each orphan to its author is an injection into those requests.          *)
THEOREM OrphansHold == Spec => []OrphansHaveFailures
<1>1. ASSUME IInv
      PROVE  OrphansHaveFailures
  <2> SUFFICES ASSUME NEW b \in Bookings
               PROVE  Cardinality({t \in TicketIds : tickets[t] = b /\ ~Purchased(t)})
                          <= Cardinality(NotCreated(b))
    BY DEF OrphansHaveFailures
  <2> DEFINE orphans == {t \in TicketIds : tickets[t] = b /\ ~Purchased(t)}
  <2>1. PICK author \in [TicketIds -> Requests] : Wrote(author)
    BY <1>1 DEF IInv, Authored
  <2>2. ASSUME NEW t \in orphans
        PROVE  author[t] \in NotCreated(b)
    <3>1. /\ author[t] \in Requests
          /\ input[author[t]] = b
          /\ post[author[t]].status \in {"replied", "rejected"}
      BY <2>1, <2>2 DEF Wrote
    <3>2. ASSUME answer[author[t]] = "created"
          PROVE  FALSE
      <4>1. /\ Replied(author[t])
            /\ ticket[author[t]] = post[author[t]].id
            /\ Purchased(ticket[author[t]])
        BY <1>1, <3>1, <3>2 DEF IInv, Purchasing, Ticketed
      <4>2. post[author[t]].id \in TicketIds /\ author[post[author[t]].id] = author[t]
        BY <1>1, <2>1, <3>1, <4>1 DEF IInv, Posting, Wrote
      <4>3. post[author[t]].id = t
        BY <2>1, <2>2, <4>2 DEF Wrote
      <4> QED
        BY <2>2, <4>1, <4>3
    <3> QED
      BY <3>1, <3>2 DEF NotCreated
  <2>3. IsFiniteSet(NotCreated(b))
    BY RequestsAssumption, FS_Subset DEF NotCreated
  <2>4. [t \in orphans |-> author[t]] \in Injection(orphans, NotCreated(b))
    BY <2>1, <2>2 DEF Injection, IsInjective, Wrote
  <2> HIDE DEF orphans
  <2>5. Cardinality(orphans) <= Cardinality(NotCreated(b))
    BY <2>3, <2>4, FS_Injection
  <2> QED
    BY <2>5 DEF orphans
<1> QED
  BY <1>1, IInvHolds, PTL

(* Each variable keeps its type, the breaker's included. *)
THEOREM Typed == Spec => []TypeOK
<1>1. IInv => TypeOK
  BY DEF IInv
<1> QED
  BY <1>1, IInvHolds, PTL

-----------------------------------------------------------------------------
(***************************************************************************)
(* Reservation implements BookingChain.                                    *)
(***************************************************************************)
(* The mail of a request that is about to publish it is not out yet.       *)
Unmailed == \A r \in Requests : pc[r] = "email" => ~Asked("email", r)

(* Who a message or a purchase of a replied ticket belongs to: the request *)
(* that was sent the reply, and only when it is past that step.            *)
LEMMA TracesAreOwn ==
    ASSUME IInv, NEW r \in Requests, Replied(r)
    PROVE  /\ \A k : Asked(k, r) =>
                 /\ ticket[r] = post[r].id
                 /\ pc[r] \in {"email", "done", "lost"} /\ answer[r] \in {"none", "created"}
                 /\ Purchased(post[r].id)
                 /\ k = "email" => Asked("topay", r)
           /\ Purchased(post[r].id) =>
                 /\ ticket[r] = post[r].id
                 /\ pc[r] \in {"topay", "email", "done", "lost"}
<1>0. TypeOK /\ Posting /\ Ticketed /\ Purchasing /\ Publishing
  BY DEF IInv
<1>1. ASSUME NEW q \in Requests, ticket[q] = post[r].id, ticket[q] # 0
      PROVE  q = r
  <2>1. Replied(q) /\ post[q].id = post[r].id
    BY <1>0, <1>1 DEF Ticketed
  <2> QED
    BY <1>0, <2>1 DEF Posting
<1>2. ASSUME NEW k, Asked(k, r)
      PROVE  /\ ticket[r] = post[r].id
             /\ pc[r] \in {"email", "done", "lost"} /\ answer[r] \in {"none", "created"}
             /\ Purchased(post[r].id)
             /\ k = "email" => Asked("topay", r)
  <2> DEFINE m == [kind |-> k, ticket |-> post[r].id]
  <2>1. m \in published /\ m.ticket = post[r].id /\ m.kind = k
    BY <1>2 DEF Asked
  <2>2. PICK q \in Requests : /\ m.ticket = ticket[q] /\ ticket[q] # 0
                              /\ pc[q] \in {"email", "done", "lost"}
                              /\ answer[q] \in {"none", "created"}
    BY <1>0, <2>1 DEF Publishing
  <2>3. q = r
    BY <1>1, <2>1, <2>2
  <2>4. [m EXCEPT !.kind = "topay"] = [kind |-> "topay", ticket |-> post[r].id]
    OBVIOUS
  <2> QED
    BY <1>0, <2>1, <2>2, <2>3, <2>4 DEF Publishing, Asked
<1>3. ASSUME Purchased(post[r].id)
      PROVE  /\ ticket[r] = post[r].id
             /\ pc[r] \in {"topay", "email", "done", "lost"}
  <2>1. PICK i \in PurchaseIds : purchases[i].ticket = post[r].id
    BY <1>3 DEF Purchased
  <2>2. PICK q \in Requests : /\ ticket[q] # 0
                              /\ pc[q] \in {"topay", "email", "done", "lost"}
                              /\ purchases[i] = Purchase(q)
    BY <1>0, <2>1 DEF Purchasing
  <2>3. ticket[q] = post[r].id
    BY <2>1, <2>2 DEF Purchase
  <2> QED
    BY <1>1, <2>2, <2>3
<1> QED
  BY <1>2, <1>3

(* Where a request is in ReserveTicket says how far its booking has come.  *)
LEMMA StageOfStep ==
    ASSUME IInv, Unmailed, NEW r \in Requests
    PROVE  /\ Stage(r) \in {"none", "issued", "bought", "billed", "mailed"}
           /\ pc[r] \in {"idle", "event", "user", "ticket"} => Stage(r) \in {"none", "issued"}
           /\ pc[r] = "purchase" => Stage(r) = "issued" /\ ticket[r] = post[r].id
           /\ pc[r] = "topay" => Stage(r) = "bought" /\ ticket[r] = post[r].id
           /\ pc[r] = "email" => Stage(r) = "billed" /\ ticket[r] = post[r].id
           /\ pc[r] # "done" => answer[r] = "none"
<1>0. Ticketed /\ Purchasing /\ Publishing
  BY DEF IInv
<1>1. pc[r] # "done" => answer[r] = "none"
  BY <1>0 DEF Publishing
<1>2. pc[r] \in {"purchase", "topay", "email"} => Replied(r) /\ ticket[r] = post[r].id
  BY <1>0 DEF Ticketed
<1>3. pc[r] \in {"topay", "email"} => Purchased(post[r].id)
  BY <1>0, <1>2 DEF Purchasing
<1>4. pc[r] = "email" => Asked("topay", r) /\ ~Asked("email", r)
  BY <1>0, <1>2 DEF Publishing, Message, Asked, Unmailed
<1> QED
  BY <1>1, <1>2, <1>3, <1>4, TracesAreOwn DEF Stage

(* A stage is read off the reply, the purchases and the messages alone.    *)
LEMMA StageStays ==
    ASSUME NEW r \in Requests,
           Replied(r)' <=> Replied(r),
           Replied(r) =>
               /\ post'[r] = post[r]
               /\ Purchased(post[r].id)' <=> Purchased(post[r].id)
               /\ \A k \in {"topay", "email"} :
                     [kind |-> k, ticket |-> post[r].id] \in published'
                         <=> [kind |-> k, ticket |-> post[r].id] \in published
    PROVE  Stage(r)' = Stage(r)
<1>1. CASE ~Replied(r)
  BY <1>1 DEF Stage
<1>2. CASE Replied(r)
  <2>1. Asked("email", r)' <=> Asked("email", r)
    BY <1>2 DEF Asked
  <2>2. Asked("topay", r)' <=> Asked("topay", r)
    BY <1>2 DEF Asked
  <2> QED
    BY <1>2, <2>1, <2>2 DEF Stage
<1> QED
  BY <1>1, <1>2

(* Steps that leave the POSTs, the purchases and the messages alone.       *)
LEMMA NothingMoves ==
    ASSUME UNCHANGED <<post, purchases, published>>
    PROVE  \A r \in Requests : Stage(r)' = Stage(r)
BY DEF Stage, Replied, Asked, Purchased, PurchaseIds

(* What a request stores and publishes is of its own ticket, and no other  *)
(* booking moves with it.                                                  *)
LEMMA OthersStay ==
    ASSUME IInv, NEW r \in Requests, Handle(r), ~Execute(r)
    PROVE  \A q \in Requests : q # r => Stage(q)' = Stage(q)
<1> SUFFICES ASSUME NEW q \in Requests, q # r
             PROVE  Stage(q)' = Stage(q)
  OBVIOUS
<1>0. TypeOK /\ Trials /\ Posting /\ Ticketed
  BY DEF IInv
<1>1. UNCHANGED post /\ pc[r] \in Steps
  BY <1>0, HandlersMove DEF Moves
<1>2. CASE Replied(q)
  <2>1. pc[r] \in {"purchase", "topay", "email"} => ticket[r] # post[q].id
    BY <1>0, <1>2 DEF Ticketed, Posting
  <2>2. Purchased(post[q].id)' <=> Purchased(post[q].id)
    <3>1. CASE UNCHANGED purchases
      BY <1>1, <3>1 DEF Purchased, PurchaseIds
    <3>2. CASE pc[r] = "purchase" /\ Store(r)
      <4>1. input[r] \in Bookings
        BY <1>0, <3>2, PostsForBooking
      <4>2. /\ Len(purchases) \in Nat
            /\ Len(purchases') = Len(purchases) + 1
            /\ \A i \in PurchaseIds : purchases'[i] = purchases[i]
            /\ purchases'[Len(purchases) + 1] = Purchase(r)
        BY <1>0, <3>2, <4>1, StoreAppends
      <4>4. Purchase(r).ticket # post[q].id
        BY <2>1, <3>2 DEF Purchase
      <4>3. PurchaseIds' = PurchaseIds \union {Len(purchases) + 1}
        BY <4>2 DEF PurchaseIds
      <4> QED
        BY <1>1, <4>2, <4>3, <4>4 DEF Purchased, PurchaseIds
    <3> QED
      BY <1>0, <3>1, <3>2, HandlersStore
  <2>3. \A k \in {"topay", "email"} :
           [kind |-> k, ticket |-> post[q].id] \in published'
               <=> [kind |-> k, ticket |-> post[q].id] \in published
    <3>1. ASSUME pc[r] \in {"topay", "email"}, NEW k, NEW j
          PROVE  [kind |-> k, ticket |-> post[q].id] # Message(j, r)
      BY <2>1, <3>1 DEF Message
    <3> QED
      BY <1>0, <3>1, HandlersStore
  <2> QED
    BY <1>1, <1>2, <2>2, <2>3, StageStays DEF Replied
<1>3. CASE ~Replied(q)
  BY <1>1, <1>3, StageStays DEF Replied
<1> QED
  BY <1>2, <1>3

(* A mail is out only when its request is past publishing it.              *)
LEMMA UnmailedStep == IInv /\ Unmailed /\ [Next]_vars => Unmailed'
<1> SUFFICES ASSUME IInv, Unmailed, [Next]_vars, NEW q \in Requests, pc'[q] = "email"
             PROVE  ~Asked("email", q)'
  BY DEF Unmailed
<1>0. TypeOK /\ Trials /\ Posting /\ Ticketed
  BY DEF IInv
<1>1. ASSUME UNCHANGED published, pc[q] = "email", post'[q] = post[q]
      PROVE  ~Asked("email", q)'
  BY <1>1 DEF Unmailed, Asked
<1>2. ASSUME NEW r \in Requests, Handle(r), ~Execute(r)
      PROVE  ~Asked("email", q)'
  <2>1. CASE q # r
    <3>1. pc[q] = "email" /\ post'[q] = post[q] /\ Replied(q)
      BY <1>0, <1>2, <2>1, HandlersMove DEF Moves, Ticketed
    <3>2. Stage(q)' = "billed"
      BY <1>2, <2>1, <3>1, OthersStay, StageOfStep
    <3> QED
      BY <3>1, <3>2 DEF Stage, Replied
  <2>2. CASE q = r
    <3>1. pc[r] = "topay" /\ published' = published \union {Message("topay", r)}
      BY <1>0, <1>2, <2>2, HandlersStore
    <3>2. Replied(r) /\ post'[r] = post[r]
      BY <1>0, <1>2, <3>1, HandlersMove DEF Moves, Ticketed
    <3>3. [kind |-> "email", ticket |-> post[r].id] # Message("topay", r)
      BY DEF Message
    <3>4. ~Asked("email", r)
      BY <3>1, <3>2, TracesAreOwn
    <3> QED
      BY <2>2, <3>1, <3>2, <3>3, <3>4 DEF Asked
  <2> QED
    BY <2>1, <2>2
<1>3. ASSUME NEW r \in Requests, Arrive(r) \/ Execute(r)
      PROVE  ~Asked("email", q)'
  BY <1>0, <1>1, <1>3 DEF Arrive, Execute, GoTo, TypeOK, stores
<1>4. ASSUME NEW r \in Requests, TicketService(r)
      PROVE  ~Asked("email", q)'
  <2>1. post[r].status = "sent" /\ UNCHANGED <<pc, published>> /\ (q # r => post'[q] = post[q])
    BY <1>0, <1>4, ServiceAnswers
  <2>2. q # r
    BY <1>0, <2>1 DEF Ticketed, Replied
  <2> QED
    BY <1>1, <2>1, <2>2
<1>5. CASE Crash
  BY <1>0, <1>5 DEF TypeOK, Crash, Steps
<1>6. CASE UNCHANGED vars
  BY <1>1, <1>6 DEF vars
<1> QED
  BY <1>2, <1>3, <1>4, <1>5, <1>6 DEF Next, AllEnded

(* A request's own booking moves and the others stay.                      *)
LEMMA BookingMoves ==
    ASSUME NEW r \in Requests, NEW to, Stage(r)' = to,
           \A q \in Requests : q # r => Stage(q)' = Stage(q)
    PROVE  Booking!Advance(r, Stage(r), to)
<1> DEFINE stage == [q \in Requests |-> Stage(q)]
<1>1. stage[r] = Stage(r)
  OBVIOUS
<1>2. stage' = [stage EXCEPT ![r] = to]
  <2>1. stage' = [q \in Requests |-> Stage(q)']
    OBVIOUS
  <2>2. \A q \in Requests : Stage(q)' = IF q = r THEN to ELSE Stage(q)
    OBVIOUS
  <2> QED
    BY <2>1, <2>2
<1> QED
  BY <1>1, <1>2 DEF Booking!Advance

(* No booking moves. *)
LEMMA BookingsStay ==
    ASSUME \A r \in Requests : Stage(r)' = Stage(r)
    PROVE  UNCHANGED [r \in Requests |-> Stage(r)]
OBVIOUS

(* The first two GETs, and every answer that is not 201.                   *)
LEMMA RejectionsBook ==
    ASSUME IInv, Unmailed, NEW r \in Requests,
           \/ Refused(r) \/ Fetched(r) \/ FetchFails(r) \/ TicketCreated(r) \/ TicketFails(r)
           \/ PurchaseFails(r) /\ UNCHANGED purchases
    PROVE  Booking!Reject(r) \/ UNCHANGED Booking!bookingVars
<1>1. UNCHANGED <<post, purchases, published>>
  BY DEF Refused, Fetched, FetchFails, TicketCreated, TicketFails, PurchaseFails, stores
<1>2. UNCHANGED [q \in Requests |-> Stage(q)]
  BY <1>1, NothingMoves, BookingsStay
<1>3. CASE Fetched(r) \/ TicketCreated(r)
  BY <1>2, <1>3 DEF Fetched, TicketCreated, Booking!bookingVars
<1>4. CASE \/ Refused(r) \/ FetchFails(r) \/ TicketFails(r)
           \/ PurchaseFails(r) /\ UNCHANGED purchases
  <2>1. /\ pc[r] \in {"event", "user", "ticket", "purchase"}
        /\ \E a \in {"error", "refused"} : answer' = [answer EXCEPT ![r] = a]
    BY <1>4 DEF Refused, FetchFails, TicketFails, PurchaseFails, At, Finish
  <2>2. Stage(r) \in {"none", "issued"} /\ answer[r] = "none"
    BY <2>1, StageOfStep
  <2> QED
    BY <1>2, <2>1, <2>2 DEF Booking!Reject, Booking!Tell
<1> QED
  BY <1>3, <1>4

(* CreatePurchase, with its reply or without. *)
LEMMA PurchasesBook ==
    ASSUME IInv, Unmailed, NEW r \in Requests,
           PurchaseStored(r) \/ (PurchaseFails(r) /\ Store(r))
    PROVE  Booking!Buy(r)
<1>0. TypeOK /\ Trials /\ Posting /\ Ticketed
  BY DEF IInv
<1>1. /\ Store(r) /\ pc[r] = "purchase" /\ UNCHANGED <<post, published>>
      /\ \/ UNCHANGED answer
         \/ \E a \in {"created", "error"} : answer' = [answer EXCEPT ![r] = a]
  BY DEF PurchaseStored, PurchaseFails, At, Finish
<1>2. Stage(r) = "issued" /\ ticket[r] = post[r].id /\ answer[r] = "none" /\ Replied(r)
  BY <1>1, StageOfStep DEF Stage
<1>3. Stage(r)' = "bought"
  <2>1. input[r] \in Bookings
    BY <1>0, <1>1, PostsForBooking
  <2>2. /\ Len(purchases) + 1 \in PurchaseIds'
        /\ purchases'[Len(purchases) + 1].ticket = post[r].id
    <3>1. /\ Len(purchases) \in Nat
          /\ Len(purchases') = Len(purchases) + 1
          /\ purchases'[Len(purchases) + 1] = Purchase(r)
      BY <1>0, <1>1, <2>1, StoreAppends
    <3>2. Purchase(r).ticket = post[r].id
      BY <1>2 DEF Purchase
    <3> QED
      BY <3>1, <3>2 DEF PurchaseIds
  <2>3. Purchased(post[r].id)' /\ Replied(r)'
    BY <1>1, <1>2, <2>2 DEF Purchased, Replied
  <2>4. \A k : Asked(k, r)' <=> Asked(k, r)
    BY <1>1 DEF Asked
  <2>5. ~Asked("topay", r) /\ ~Asked("email", r)
    BY <1>1, <1>2, TracesAreOwn
  <2> QED
    BY <2>3, <2>4, <2>5 DEF Stage
<1>4. Handle(r) /\ ~Execute(r)
  BY <1>1 DEF Handle, PurchaseStored, PurchaseFails, At, Execute, Gate!Admits, Gate!Enter,
              Gate!FirstTrial, Gate!NextTrial
<1>5. Booking!Advance(r, "issued", "bought")
  BY <1>2, <1>3, <1>4, OthersStay, BookingMoves
<1> QED
  BY <1>1, <1>2, <1>5 DEF Booking!Buy, Booking!StillOpen, Booking!Tell

(* "topay" is published, then the mail and 201. *)
LEMMA PublicationsBook ==
    ASSUME IInv, Unmailed, NEW r \in Requests, PublishPayment(r) \/ PublishEmail(r)
    PROVE  Booking!Bill(r) \/ Booking!Mail(r)
<1>0. TypeOK /\ Trials
  BY DEF IInv
<1>1. UNCHANGED post /\ r \in inside /\ pc[r] \in {"topay", "email"}
  BY DEF PublishPayment, PublishEmail, At
<1>2. Handle(r) /\ ~Execute(r)
  BY <1>1 DEF Handle, Execute, Gate!Admits, Gate!Enter, Gate!FirstTrial, Gate!NextTrial
<1>3. Replied(r) /\ Replied(r)' /\ ticket[r] = post[r].id /\ answer[r] = "none"
  BY <1>1, StageOfStep DEF Stage, Replied
<1>4. CASE PublishPayment(r)
  <2>1. /\ pc[r] = "topay" /\ published' = published \union {Message("topay", r)}
        /\ UNCHANGED answer
    BY <1>4 DEF PublishPayment, At
  <2>2. Asked("topay", r)' /\ ~Asked("email", r)'
    <3>1. ~Asked("email", r)
      BY <1>3, <2>1, TracesAreOwn
    <3>2. [kind |-> "email", ticket |-> post[r].id] # Message("topay", r)
      BY DEF Message
    <3> QED
      BY <1>1, <1>3, <2>1, <3>1, <3>2 DEF Asked, Message
  <2>3. Stage(r) = "bought" /\ Stage(r)' = "billed"
    BY <1>3, <2>1, <2>2, StageOfStep DEF Stage
  <2>4. Booking!Advance(r, "bought", "billed")
    BY <1>2, <2>3, OthersStay, BookingMoves
  <2> QED
    BY <1>3, <2>1, <2>4 DEF Booking!Bill, Booking!StillOpen
<1>5. CASE PublishEmail(r)
  <2>1. /\ pc[r] = "email" /\ published' = published \union {Message("email", r)}
        /\ answer' = [answer EXCEPT ![r] = "created"]
    BY <1>5 DEF PublishEmail, At, Finish
  <2>2. Asked("email", r)'
    BY <1>1, <1>3, <2>1 DEF Asked, Message
  <2>3. Stage(r) = "billed" /\ Stage(r)' = "mailed"
    BY <1>3, <2>1, <2>2, StageOfStep DEF Stage
  <2>4. Booking!Advance(r, "billed", "mailed")
    BY <1>2, <2>3, OthersStay, BookingMoves
  <2> QED
    BY <1>3, <2>1, <2>4 DEF Booking!Mail, Booking!Tell
<1> QED
  BY <1>4, <1>5

(* Publishing is refused or fails: 201 all the same. *)
LEMMA WarningsBook ==
    ASSUME IInv, Unmailed, NEW r \in Requests, PublishRefused(r) \/ PublishFails(r)
    PROVE  Booking!Accept(r)
<1>1. /\ UNCHANGED <<post, purchases, published>> /\ pc[r] \in {"topay", "email"}
      /\ answer' = [answer EXCEPT ![r] = "created"]
  BY DEF PublishRefused, PublishFails, At, Finish, stores
<1>2. UNCHANGED [q \in Requests |-> Stage(q)]
  BY <1>1, NothingMoves, BookingsStay
<1> QED
  BY <1>1, <1>2, StageOfStep DEF Booking!Accept, Booking!Tell

(* The ticket service inserts a ticket that nobody has bought or been      *)
(* asked to pay for, however late.                                         *)
LEMMA InsertsBook ==
    ASSUME IInv, NEW r \in Requests, TicketService(r)
    PROVE  Booking!Issue(r) \/ UNCHANGED Booking!bookingVars
<1>0. TypeOK /\ Trials /\ Posting /\ Ticketed /\ Purchasing /\ Publishing
  BY DEF IInv
<1>1. /\ UNCHANGED <<answer, purchases, published>> /\ ~Replied(r)
      /\ \A q \in Requests : q # r => post'[q] = post[q]
      /\ \/ post'[r] = [status |-> "replied", id |-> Len(tickets) + 1]
         \/ post'[r].status = "rejected"
  BY <1>0, ServiceAnswers DEF Replied
<1>2. \A q \in Requests : q # r => Stage(q)' = Stage(q)
  BY <1>1 DEF Stage, Replied, Asked, Purchased, PurchaseIds
<1>3. CASE post'[r].status = "rejected"
  <2>1. Stage(r)' = Stage(r)
    BY <1>1, <1>3 DEF Stage, Replied
  <2> QED
    BY <1>1, <1>2, <2>1, BookingsStay DEF Booking!bookingVars
<1>4. CASE post'[r] = [status |-> "replied", id |-> Len(tickets) + 1]
  <2> DEFINE n == Len(tickets) + 1
  <2>1. n \notin TicketIds /\ Len(tickets) \in Nat /\ n # 0
    BY <1>0 DEF TypeOK, TicketIds
  <2>2. \A q \in Requests : ticket[q] # n
    BY <1>0, <2>1 DEF Ticketed, Posting
  <2>3. ~Purchased(n)
    <3>1. \A q \in Requests : Purchase(q).ticket = ticket[q]
      BY DEF Purchase
    <3> QED
      BY <1>0, <2>2, <3>1 DEF Purchasing, Purchased
  <2>4. \A k : [kind |-> k, ticket |-> n] \notin published
    <3> SUFFICES ASSUME NEW k, [kind |-> k, ticket |-> n] \in published
                 PROVE  FALSE
      OBVIOUS
    <3>1. Purchased(n)
      BY <1>0 DEF Publishing
    <3> QED
      BY <2>3, <3>1
  <2>5. ~Purchased(post[r].id)' /\ Replied(r)' /\ \A k : ~Asked(k, r)'
    BY <1>1, <1>4, <2>3, <2>4 DEF Purchased, PurchaseIds, Asked, Replied
  <2>6. Stage(r) = "none" /\ Stage(r)' = "issued"
    BY <1>1, <2>5 DEF Stage
  <2>7. Booking!Advance(r, "none", "issued")
    BY <1>2, <2>6, BookingMoves
  <2> QED
    BY <1>1, <2>7 DEF Booking!Issue
<1> QED
  BY <1>1, <1>3, <1>4

(* Each step of the saga is a step of the booking of one request, or none. *)
LEMMA BookingStep == IInv /\ Unmailed /\ [Next]_vars => [Booking!Next]_(Booking!bookingVars)
<1> SUFFICES ASSUME IInv, Unmailed, [Next]_vars
             PROVE  Booking!Next \/ UNCHANGED Booking!bookingVars
  OBVIOUS
<1>1. ASSUME UNCHANGED <<post, purchases, published, answer>>
      PROVE  UNCHANGED Booking!bookingVars
  BY <1>1, NothingMoves, BookingsStay DEF Booking!bookingVars
<1>2. ASSUME NEW r \in Requests, Handle(r), ~Execute(r)
      PROVE  Booking!Next \/ UNCHANGED Booking!bookingVars
  <2>1. CASE \/ Refused(r) \/ Fetched(r) \/ FetchFails(r) \/ TicketCreated(r) \/ TicketFails(r)
             \/ PurchaseFails(r) /\ UNCHANGED purchases
    BY <2>1, RejectionsBook DEF Booking!Next
  <2>2. CASE PurchaseStored(r) \/ (PurchaseFails(r) /\ Store(r))
    BY <2>2, PurchasesBook DEF Booking!Next
  <2>3. CASE PublishPayment(r) \/ PublishEmail(r)
    BY <2>3, PublicationsBook DEF Booking!Next
  <2>4. CASE PublishRefused(r) \/ PublishFails(r)
    BY <2>4, WarningsBook DEF Booking!Next
  <2>5. PurchaseFails(r) => Store(r) \/ UNCHANGED purchases
    BY DEF PurchaseFails
  <2> QED
    BY <1>2, <2>1, <2>2, <2>3, <2>4, <2>5 DEF Handle
<1>3. ASSUME NEW r \in Requests, Arrive(r)
      PROVE  UNCHANGED Booking!bookingVars
  BY <1>1, <1>3 DEF Arrive, stores
<1>4. ASSUME NEW r \in Requests, Execute(r)
      PROVE  UNCHANGED Booking!bookingVars
  <2>1. /\ UNCHANGED <<answer, purchases, published>>
        /\ \A q \in Requests : q # r \/ pc[r] # "ticket" => post'[q] = post[q]
        /\ pc[r] = "ticket" => post[r].status = "none" /\ post'[r].status = "sent"
    BY <1>4, AdmissionEnters DEF Execute, stores, IInv, TypeOK, Posting
  <2>2. \A q \in Requests : Stage(q)' = Stage(q)
    BY <2>1 DEF Stage, Replied, Asked, Purchased, PurchaseIds
  <2> QED
    BY <2>1, <2>2, BookingsStay DEF Booking!bookingVars
<1>5. ASSUME NEW r \in Requests, TicketService(r)
      PROVE  Booking!Next \/ UNCHANGED Booking!bookingVars
  BY <1>5, InsertsBook DEF Booking!Next
<1>6. CASE Crash
  BY <1>1, <1>6 DEF Crash, stores
<1>7. CASE UNCHANGED vars
  BY <1>1, <1>7 DEF vars
<1> QED
  BY <1>2, <1>3, <1>4, <1>5, <1>6, <1>7 DEF Next, AllEnded

(***************************************************************************)
(* Every behaviour of the saga, with its breaker, late replies, lost       *)
(* statements, failing publishes and crashes, is one of BookingChain: each *)
(* client is told once, and its booking agrees with that ever after.       *)
(***************************************************************************)
THEOREM BookingImplemented == Spec => ImplementsBooking
<1>1. Init => Booking!Init /\ Unmailed
  <2> SUFFICES ASSUME Init
               PROVE  Booking!Init /\ Unmailed
    OBVIOUS
  <2>1. \A r \in Requests : Stage(r) = "none"
    BY DEF Init, Stage, Replied, NoPost
  <2> QED
    BY <2>1 DEF Init, Booking!Init, Unmailed
<1> QED
  BY <1>1, BookingStep, IInvHolds, UnmailedStep, PTL DEF Spec, ImplementsBooking, Booking!Spec

(* What BookingChain says of a client that was told (ReserveTicket returns *)
(* after the one c.JSON of its path, and nothing takes a step back).       *)
THEOREM ToldHolds == Spec => ToldStays
<1>1. Init => Unmailed
  BY DEF Init, Unmailed
<1>2. ASSUME IInv, Unmailed, [Next]_vars, NEW r \in Requests, answer[r] # "none"
      PROVE  /\ answer'[r] = answer[r]
             /\ Stage(r)' # Stage(r) => Stage(r) = "none" /\ Stage(r)' = "issued"
  <2> DEFINE stage == [q \in Requests |-> Stage(q)]
  <2>0. DOMAIN answer = Requests
    BY <1>2 DEF IInv, TypeOK
  <2>1. stage[r] = Stage(r) /\ stage'[r] = Stage(r)'
    OBVIOUS
  <2>2. \/ UNCHANGED <<stage, answer>>
        \/ \E q \in Requests :
              \/ Booking!Issue(q) \/ Booking!Buy(q) \/ Booking!Bill(q)
              \/ Booking!Mail(q) \/ Booking!Accept(q) \/ Booking!Reject(q)
    BY <1>2, BookingStep DEF Booking!Next, Booking!bookingVars
  <2>3. ASSUME NEW q \in Requests, Booking!Issue(q)
        PROVE  /\ UNCHANGED answer
               /\ \/ stage'[r] = stage[r]
                  \/ stage[r] = "none" /\ stage'[r] = "issued"
    BY <2>3 DEF Booking!Issue, Booking!Advance
  <2>4. ASSUME NEW q \in Requests,
               \/ Booking!Buy(q) \/ Booking!Bill(q) \/ Booking!Mail(q)
               \/ Booking!Accept(q) \/ Booking!Reject(q)
        PROVE  answer[q] = "none" /\ (q # r => answer'[r] = answer[r] /\ stage'[r] = stage[r])
    <3>1. CASE Booking!Accept(q) \/ Booking!Reject(q)
      BY <2>0, <3>1 DEF Booking!Accept, Booking!Reject, Booking!Tell
    <3>2. CASE Booking!Bill(q) \/ Booking!Mail(q)
      BY <2>0, <3>2 DEF Booking!Bill, Booking!Mail, Booking!Advance, Booking!Tell, Booking!StillOpen
    <3>3. CASE Booking!Buy(q)
      BY <2>0, <3>3 DEF Booking!Buy, Booking!Advance, Booking!Tell, Booking!StillOpen
    <3> QED
      BY <2>4, <3>1, <3>2, <3>3
  <2> QED
    BY <1>2, <2>1, <2>2, <2>3, <2>4
<1>3. IInv /\ Unmailed /\ [Next]_vars =>
        [\A r \in Requests : answer[r] # "none" =>
            /\ answer'[r] = answer[r]
            /\ Stage(r)' # Stage(r) => Stage(r) = "none" /\ Stage(r)' = "issued"]_vars
  BY <1>2
<1> QED
  BY <1>1, <1>3, IInvHolds, UnmailedStep, PTL DEF Spec, ToldStays

-----------------------------------------------------------------------------
(* A request is inside the breaker's gate only at a step of its handler:   *)
(* each end of a step reports first, and a restart makes a new breaker.    *)
LEMMA InsideStep == IInv /\ Inside /\ [Next]_vars => Inside'
<1> SUFFICES ASSUME IInv, Inside, [Next]_vars
             PROVE  Inside'
  OBVIOUS
<1>0. TypeOK /\ Trials
  BY DEF IInv
<1>1. ASSUME NEW r \in Requests, Execute(r)
      PROVE  Inside'
  BY <1>0, <1>1, AdmissionEnters DEF Inside, Execute
<1>2. ASSUME NEW r \in Requests, Handle(r), ~Execute(r)
      PROVE  Inside'
  <2>1. /\ \A q \in Requests : q # r => pc'[q] = pc[q]
        /\ inside' \subseteq inside /\ inside \subseteq Requests
    BY <1>0, <1>2, HandlersMove DEF Moves, TypeOK
  <2>2. CASE r \notin inside'
    BY <2>1, <2>2 DEF Inside
  <2>3. CASE r \in inside'
    <3>1. PublishPayment(r)
      <4>1. CASE Refused(r) \/ PublishRefused(r)
        BY <1>0, <2>1, <2>3, <4>1 DEF Refused, PublishRefused, Gate!Refuse
      <4>2. CASE \/ Fetched(r) \/ FetchFails(r) \/ TicketCreated(r) \/ TicketFails(r)
                 \/ PurchaseStored(r) \/ PurchaseFails(r) \/ PublishEmail(r) \/ PublishFails(r)
        BY <1>0, <2>3, <4>2, ReportLeaves
           DEF Fetched, FetchFails, TicketCreated, TicketFails, PurchaseStored, PurchaseFails,
               PublishEmail, PublishFails
      <4> QED
        BY <1>2, <4>1, <4>2 DEF Handle
    <3>2. pc'[r] \in Steps
      BY <1>0, <3>1 DEF PublishPayment, GoTo, TypeOK, Steps
    <3> QED
      BY <2>1, <3>2 DEF Inside
  <2> QED
    BY <2>2, <2>3
<1>3. ASSUME NEW r \in Requests, Arrive(r)
      PROVE  Inside'
  BY <1>0, <1>3 DEF Inside, Arrive, GoTo, TypeOK, Steps, gateVars
<1>4. ASSUME NEW r \in Requests, TicketService(r)
      PROVE  Inside'
  BY <1>4 DEF Inside, TicketService, InsertTicket, TicketRejected, gateVars
<1>5. CASE Crash
  BY <1>5 DEF Inside, Crash
<1>6. CASE UNCHANGED vars
  BY <1>6 DEF Inside, vars, gateVars
<1> QED
  BY <1>1, <1>2, <1>3, <1>4, <1>5, <1>6 DEF Next, AllEnded

(* The breaker's limit on probes never refuses all requests with nobody    *)
(* left to decide (NewHandler makes one breaker for all five steps).       *)
THEOREM StepsDecide == Spec => []SomeStepDecides
<1>1. Init => Inside
  BY DEF Init, Gate!Init, Inside
<1>2. IInv /\ Inside => SomeStepDecides
  BY DEF IInv, Trials, Gate!SomeTrialDecides, TypeOK, Inside, SomeStepDecides
<1> QED
  BY <1>1, <1>2, InsideStep, IInvHolds, PTL DEF Spec

=============================================================================
