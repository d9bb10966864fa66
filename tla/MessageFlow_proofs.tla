------------------------- MODULE MessageFlow_proofs -------------------------
(***************************************************************************)
(* Proofs about MessageFlow, for all tickets, restarts and outages: a      *)
(* message is in one place only and one request is charged at most once,   *)
(* and the three loops together implement PaymentChain.                    *)
(***************************************************************************)
EXTENDS MessageFlow, TLAPS

(* A loop has a message exactly when it is not idle, and each loop has its *)
(* own steps.                                                              *)
Working ==
    /\ \A s \in Services : step[s] = "idle" <=> work[s] = None
    /\ step["payment"] \in {"idle", "received", "charged"}
    /\ step["reservation"] \in {"idle", "received", "found"}
    /\ step["notification"] \in {"idle", "received"}

(* A message is in one place. *)
Apart == \A s \in Services :
    /\ queue[s] \intersect buffer[s] = {}
    /\ work[s] \notin queue[s] \union buffer[s]

Held(s) == queue[s] \union buffer[s] \union {work[s]}

(* Every message was published, to the exchange and key of its queue; a    *)
(* ticket's mail reaches no mail queue.                                    *)
Origins == \A t \in Subjects :
    /\ t \in Held("payment") => t \in Tickets /\ Was("tixie", "topay", t)
    /\ t \in Held("reservation") => t \in Tickets /\ Was("tixie", "payment.confirmed", t)
    /\ t \in Held("notification") => Was("notification", "email", t)

(* A request that waits was not charged yet, and a charge that waits for   *)
(* its confirmation has none yet.                                          *)
Paying == \A t \in Tickets :
    /\ \/ t \in queue["payment"] \union buffer["payment"]
       \/ t = work["payment"] /\ step["payment"] = "received"
       => charges[t] = 0
    /\ t = work["payment"] /\ step["payment"] = "charged" =>
          charges[t] = 1 /\ ~Was("tixie", "payment.confirmed", t)

(* A confirmation that waits has notified nobody, and its purchase was     *)
(* found before anybody is.                                                *)
Notifying == \A t \in Tickets :
    /\ t \in Held("reservation") => ~Was("tixie", "email", t)
    /\ t = work["reservation"] /\ step["reservation"] = "found" => t \in purchased

(* No stage without the one before. *)
Staged == \A t \in Tickets :
    /\ Was("tixie", "email", t) => Was("tixie", "payment.confirmed", t)
    /\ Was("tixie", "payment.confirmed", t) => charges[t] = 1
    /\ charges[t] = 1 => Was("tixie", "topay", t)

IInv == TypeOK /\ Working /\ Apart /\ Origins /\ Paying /\ Notifying /\ Staged

-----------------------------------------------------------------------------
(* A message that goes to no bound queue only adds to what was published.  *)
LEMMA RouteNowhere ==
    ASSUME TypeOK, NEW ps, Route(ps),
           \A p \in ps, s \in Services :
              Binding(s).exchange # p.exchange \/ Binding(s).key # p.key
    PROVE  queue' = queue /\ published' = published \union ps
<1>1. \A s \in Services : {p.ticket : p \in {q \in ps : /\ s \in declared
                                                     /\ Binding(s).exchange = q.exchange
                                                     /\ Binding(s).key = q.key}} = {}
  OBVIOUS
<1>2. queue' = [s \in Services |-> queue[s]]
  <2>1. queue' = [s \in Services |-> queue[s] \union
                    {p.ticket : p \in {q \in ps : /\ s \in declared
                                                  /\ Binding(s).exchange = q.exchange
                                                  /\ Binding(s).key = q.key}}]
    BY DEF Route
  <2> QED
    BY <1>1, <2>1
<1> QED
  BY <1>2 DEF TypeOK, Route

(* One publication reaches at most the queue bound to its exchange and key *)
(* (broker.go: Publish), and nothing else counts as published by it.       *)
LEMMA RouteOne ==
    ASSUME TypeOK, NEW e \in {"payment", "tixie", "notification"},
           NEW k \in {"topay", "payment.confirmed", "email"}, NEW t \in Subjects,
           Route({Publication(e, k, t)})
    PROVE  /\ queue' \in [Services -> SUBSET Subjects]
           /\ \A s \in Services :
                 /\ queue'[s] = queue[s] \/ queue'[s] = queue[s] \union {t}
                 /\ Binding(s).exchange # e \/ Binding(s).key # k => queue'[s] = queue[s]
           /\ published' \subseteq [exchange : {"payment", "tixie", "notification"},
                                    key : {"topay", "payment.confirmed", "email"},
                                    ticket : Subjects]
           /\ \A x, y, u : Was(x, y, u)' <=> (Was(x, y, u) \/ (x = e /\ y = k /\ u = t))
<1> DEFINE p == Publication(e, k, t)
           Sent(s) == {q.ticket : q \in {r \in {p} : /\ s \in declared
                                                   /\ Binding(s).exchange = r.exchange
                                                   /\ Binding(s).key = r.key}}
<1>1. p = [exchange |-> e, key |-> k, ticket |-> t]
  BY DEF Publication
<1>2. queue' = [s \in Services |-> queue[s] \union Sent(s)]
  BY DEF Route
<1>3. published' = published \union {p}
  BY DEF Route
<1>4. ASSUME NEW s \in Services
      PROVE  /\ Sent(s) = {} \/ Sent(s) = {t}
             /\ Binding(s).exchange # e \/ Binding(s).key # k => Sent(s) = {}
  <2>1. p.exchange = e /\ p.key = k /\ p.ticket = t
    BY <1>1
  <2> HIDE DEF p
  <2> QED
    BY <2>1
<1> HIDE DEF Sent
<1>5. \A s \in Services :
         /\ queue'[s] = queue[s] \/ queue'[s] = queue[s] \union {t}
         /\ Binding(s).exchange # e \/ Binding(s).key # k => queue'[s] = queue[s]
  <2> SUFFICES ASSUME NEW s \in Services
               PROVE  /\ queue'[s] = queue[s] \/ queue'[s] = queue[s] \union {t}
                      /\ Binding(s).exchange # e \/ Binding(s).key # k => queue'[s] = queue[s]
    OBVIOUS
  <2>1. queue'[s] = queue[s] \union Sent(s)
    BY <1>2
  <2> QED
    BY <1>4, <2>1
<1>6. queue' \in [Services -> SUBSET Subjects]
  BY <1>2, <1>4 DEF TypeOK
<1>7. \A x, y, u : Was(x, y, u)' <=> (Was(x, y, u) \/ (x = e /\ y = k /\ u = t))
  <2> SUFFICES ASSUME NEW x, NEW y, NEW u
               PROVE  Was(x, y, u)' <=> (Was(x, y, u) \/ (x = e /\ y = k /\ u = t))
    OBVIOUS
  <2>1. Publication(x, y, u) = p <=> (x = e /\ y = k /\ u = t)
    <3>1. Publication(x, y, u) = [exchange |-> x, key |-> y, ticket |-> u]
      BY DEF Publication
    <3>2. Publication(x, y, u).exchange = x /\ Publication(x, y, u).key = y
             /\ Publication(x, y, u).ticket = u
      BY <3>1
    <3>3. p.exchange = e /\ p.key = k /\ p.ticket = t
      BY <1>1
    <3>4. (x = e /\ y = k /\ u = t) => Publication(x, y, u) = p
      OBVIOUS
    <3> HIDE DEF p
    <3> QED
      BY <3>2, <3>3, <3>4
  <2>2. Was(x, y, u)' <=> Publication(x, y, u) \in published'
    BY DEF Was, Publication
  <2> QED
    BY <1>3, <2>1, <2>2 DEF Was
<1> QED
  BY <1>1, <1>3, <1>5, <1>6, <1>7 DEF TypeOK

-----------------------------------------------------------------------------
(***************************************************************************)
(* The inductive invariant.                                                *)
(***************************************************************************)
LEMMA InitHolds == Init => IInv
<1> SUFFICES ASSUME Init
             PROVE  IInv
  OBVIOUS
<1>1. TypeOK
  BY BoundsAssumption DEF Init, TypeOK, Services
<1>2. Working
  BY DEF Init, Working, Services
<1>3. Apart
  BY NoneAssumption DEF Init, Apart
<1>4. \A x, y, t : ~Was(x, y, t)
  BY DEF Init, Was
<1>5. Origins /\ Paying /\ Notifying
  BY NoneAssumption DEF Init, Origins, Paying, Notifying, Held, Services, Subjects
<1>6. Staged
  BY <1>4 DEF Init, Staged
<1> QED
  BY <1>1, <1>2, <1>3, <1>5, <1>6 DEF IInv

(* Whatever only loses messages keeps the invariant: a subscription that   *)
(* ends, a service that stops, a RabbitMQ that restarts, a loop that goes  *)
(* on to its next message.                                                 *)
LEMMA LossIsSafe ==
    ASSUME IInv, TypeOK', UNCHANGED <<charges, published>>, purchased \subseteq purchased',
           \A s \in Services :
              /\ queue'[s] \subseteq queue[s] /\ buffer'[s] \subseteq buffer[s]
              /\ \/ work'[s] = work[s] /\ step'[s] = step[s]
                 \/ work'[s] = None /\ step'[s] = "idle"
    PROVE  IInv'
<1>0. /\ TypeOK /\ Working /\ Apart /\ Origins /\ Paying /\ Notifying /\ Staged
      /\ "payment" \in Services /\ "reservation" \in Services /\ "notification" \in Services
  BY DEF IInv, Services
<1>1. Working'
  BY <1>0 DEF Working
<1>2. Apart'
  BY <1>0, NoneAssumption DEF Apart, TypeOK, Subjects
<1>3. \A x, y, t : Was(x, y, t)' <=> Was(x, y, t)
  BY DEF Was, Publication
<1>4. \A s \in Services, t \in Subjects : t \in Held(s)' => t \in Held(s)
  BY NoneAssumption DEF Held, Subjects
<1>5. Origins'
  BY <1>0, <1>3, <1>4 DEF Origins
<1>6. Paying'
  <2>1. \A t \in Tickets : t # None
    BY NoneAssumption
  <2> QED
    BY <1>0, <1>3, <2>1 DEF Paying
<1>7. Notifying'
  <2>1. \A t \in Tickets : t # None /\ t \in Subjects
    BY NoneAssumption DEF Subjects
  <2> QED
    BY <1>0, <1>3, <1>4, <2>1 DEF Notifying
<1>8. Staged'
  BY <1>0, <1>3 DEF Staged
<1> QED
  BY <1>1, <1>2, <1>5, <1>6, <1>7, <1>8 DEF IInv

(* ReserveTicket's messages reach no queue. *)
LEMMA ReserveKeeps == ASSUME IInv, NEW t \in Tickets, Reserve(t) PROVE IInv'
<1>0. TypeOK /\ t \in Subjects
  BY DEF IInv, Subjects
<1>1. PICK keys \in {{}, {"topay", "email"}} :
         Route({Publication("payment", k, t) : k \in keys})
  BY DEF Reserve
<1> DEFINE ps == {Publication("payment", k, t) : k \in keys}
<1>2. \A p \in ps : /\ p.exchange = "payment"
                    /\ p \in [exchange : {"payment", "tixie", "notification"},
                              key : {"topay", "payment.confirmed", "email"}, ticket : Subjects]
  BY <1>0, <1>1 DEF Publication
<1>3. \A s \in Services : Binding(s).exchange # "payment"
  BY DEF Services, Binding
<1> HIDE DEF ps
<1>4. queue' = queue /\ published' = published \union ps
  BY <1>0, <1>1, <1>2, <1>3, RouteNowhere DEF ps
<1>5. \A x, y, u : x # "payment" => (Was(x, y, u)' <=> Was(x, y, u))
  <2> SUFFICES ASSUME NEW x, NEW y, NEW u, x # "payment"
               PROVE  Was(x, y, u)' <=> Was(x, y, u)
    OBVIOUS
  <2>1. Publication(x, y, u).exchange = x
    BY DEF Publication
  <2>2. Publication(x, y, u) \notin ps
    BY <1>2, <2>1
  <2>3. Was(x, y, u)' <=> Publication(x, y, u) \in published'
    BY DEF Was, Publication
  <2> QED
    BY <1>4, <2>2, <2>3 DEF Was
<1>6. UNCHANGED <<loops, charges, mailed, bounds>> /\ purchased' = purchased \union {t}
  BY DEF Reserve
<1>7. TypeOK'
  BY <1>0, <1>2, <1>4, <1>6 DEF TypeOK, loops, bounds
<1>8. \A s : Held(s)' = Held(s)
  BY <1>4, <1>6 DEF Held, loops
<1>9. Origins' /\ Paying' /\ Notifying' /\ Staged'
  BY <1>4, <1>5, <1>6, <1>8 DEF IInv, Origins, Paying, Notifying, Staged, loops
<1>10. Working' /\ Apart'
  BY <1>4, <1>6 DEF IInv, Working, Apart, loops
<1> QED
  BY <1>7, <1>9, <1>10 DEF IInv

(* A payment request, when there was none for the ticket. *)
LEMMA RequestKeeps == ASSUME IInv, NEW t \in Tickets, Request(t) PROVE IInv'
<1>0. /\ TypeOK /\ Working /\ Apart /\ Origins /\ Paying /\ Notifying /\ Staged
      /\ t \in Subjects /\ t # None /\ ~Was("tixie", "topay", t)
      /\ UNCHANGED <<loops, purchased, charges, mailed, bounds>>
  BY NoneAssumption DEF IInv, Subjects, Request, Was
<1>1. /\ queue' \in [Services -> SUBSET Subjects]
      /\ queue'["payment"] \subseteq queue["payment"] \union {t}
      /\ queue'["reservation"] = queue["reservation"]
      /\ queue'["notification"] = queue["notification"]
      /\ published' \subseteq [exchange : {"payment", "tixie", "notification"},
                               key : {"topay", "payment.confirmed", "email"}, ticket : Subjects]
      /\ \A x, y, u : Was(x, y, u)' <=> (Was(x, y, u) \/ (x = "tixie" /\ y = "topay" /\ u = t))
  BY <1>0, RouteOne DEF Request, Services, Binding
<1>2. t \notin Held("payment") /\ charges[t] = 0 /\ ~Was("tixie", "payment.confirmed", t)
  BY <1>0 DEF Origins, Staged, TypeOK
<1>3. TypeOK' /\ Working'
  BY <1>0, <1>1 DEF TypeOK, Working, loops, bounds
<1>4. Apart'
  BY <1>0, <1>1, <1>2 DEF Apart, Held, loops, Services
<1>5. Origins'
  BY <1>0, <1>1 DEF Origins, Held, loops
<1>6. Paying'
  BY <1>0, <1>1, <1>2 DEF Paying, Held, loops
<1>7. Notifying' /\ Staged'
  BY <1>0, <1>1 DEF Notifying, Staged, Held, loops
<1> QED
  BY <1>3, <1>4, <1>5, <1>6, <1>7 DEF IInv

(* The fixed mail of SimulateWebhook, when it was not sent before. *)
LEMMA SimulateKeeps == ASSUME IInv, SimulateWebhook PROVE IInv'
<1>0. /\ TypeOK /\ Working /\ Apart /\ Origins /\ Paying /\ Notifying /\ Staged
      /\ Sample \in Subjects /\ Sample # None /\ ~Was("notification", "email", Sample)
      /\ UNCHANGED <<loops, purchased, charges, mailed, bounds>>
  BY NoneAssumption DEF IInv, Subjects, SimulateWebhook, Was
<1>1. /\ queue' \in [Services -> SUBSET Subjects]
      /\ queue'["notification"] \subseteq queue["notification"] \union {Sample}
      /\ queue'["reservation"] = queue["reservation"]
      /\ queue'["payment"] = queue["payment"]
      /\ published' \subseteq [exchange : {"payment", "tixie", "notification"},
                               key : {"topay", "payment.confirmed", "email"}, ticket : Subjects]
      /\ \A x, y, u : Was(x, y, u)' <=>
            (Was(x, y, u) \/ (x = "notification" /\ y = "email" /\ u = Sample))
  BY <1>0, RouteOne DEF SimulateWebhook, Services, Binding
<1>2. Sample \notin Held("notification")
  BY <1>0 DEF Origins
<1>3. TypeOK' /\ Working'
  BY <1>0, <1>1 DEF TypeOK, Working, loops, bounds
<1>4. Apart'
  BY <1>0, <1>1, <1>2 DEF Apart, Held, loops, Services
<1>5. Origins'
  BY <1>0, <1>1 DEF Origins, Held, loops
<1>6. Paying' /\ Notifying' /\ Staged'
  BY <1>0, <1>1 DEF Paying, Notifying, Staged, Held, loops
<1> QED
  BY <1>3, <1>4, <1>5, <1>6 DEF IInv

(* RabbitMQ forgets a message that it delivers. *)
LEMMA DeliverKeeps ==
    ASSUME IInv, NEW s \in Services, NEW t \in Subjects, Deliver(s, t)
    PROVE  IInv'
<1>0. /\ TypeOK /\ Working /\ Apart /\ Origins /\ Paying /\ Notifying /\ Staged
      /\ UNCHANGED <<declared, up, listening, work, step, purchased, charges, published,
                     mailed, bounds>>
  BY DEF IInv, Deliver
<1>1. /\ \A q \in Services : queue'[q] = IF q = s THEN queue[q] \ {t} ELSE queue[q]
      /\ \A q \in Services : buffer'[q] = IF q = s THEN buffer[q] \union {t} ELSE buffer[q]
      /\ t \in queue[s]
  BY <1>0 DEF Deliver, TypeOK
<1>2. TypeOK'
  BY <1>0 DEF Deliver, TypeOK, bounds
<1>3. \A q \in Services : Held(q)' = Held(q)
  BY <1>0, <1>1 DEF Held
<1>4. Apart' /\ Working'
  BY <1>0, <1>1 DEF Apart, Working
<1>5. \A x, y, u : Was(x, y, u)' <=> Was(x, y, u)
  BY <1>0 DEF Was, Publication
<1>6. Origins' /\ Notifying' /\ Staged'
  BY <1>0, <1>3, <1>5 DEF Origins, Notifying, Staged, Services
<1>7. Paying'
  BY <1>0, <1>1, <1>5 DEF Paying, Services
<1> QED
  BY <1>2, <1>4, <1>6, <1>7 DEF IInv

(* A loop takes what was delivered to it. *)
LEMMA TakeKeeps == ASSUME IInv, NEW s \in Services, Take(s) PROVE IInv'
<1>0. /\ TypeOK /\ Working /\ Apart /\ Origins /\ Paying /\ Notifying /\ Staged
      /\ UNCHANGED <<declared, up, listening, queue, purchased, charges, published, mailed, bounds>>
      /\ work[s] = None
  BY DEF IInv, Take
<1>1. PICK t \in buffer[s] : work' = [work EXCEPT ![s] = t] /\ buffer' = [buffer EXCEPT ![s] = @ \ {t}]
  BY DEF Take
<1>2. t \in Subjects /\ t # None /\ step' = [step EXCEPT ![s] = "received"]
  BY <1>0, NoneAssumption DEF TypeOK, Subjects, Take
<1>3. /\ \A q \in Services : buffer'[q] = IF q = s THEN buffer[q] \ {t} ELSE buffer[q]
      /\ \A q \in Services : work'[q] = IF q = s THEN t ELSE work[q]
      /\ \A q \in Services : step'[q] = IF q = s THEN "received" ELSE step[q]
  BY <1>0, <1>1, <1>2 DEF TypeOK
<1>4. TypeOK'
  BY <1>0, <1>1, <1>2 DEF TypeOK, bounds
<1>5. Working'
  BY <1>0, <1>2, <1>3 DEF Working, Services
<1>6. Apart'
  BY <1>0, <1>3 DEF Apart
<1>7. \A q \in Services, u \in Subjects : u \in Held(q)' => u \in Held(q)
  BY <1>0, <1>3 DEF Held
<1>8. \A x, y, u : Was(x, y, u)' <=> Was(x, y, u)
  BY <1>0 DEF Was, Publication
<1>9. Origins' /\ Staged'
  BY <1>0, <1>7, <1>8 DEF Origins, Staged, Services
<1>10. Paying'
  BY <1>0, <1>3, <1>8 DEF Paying, Services
<1>11. Notifying'
  <2>1. \A u \in Tickets : u \in Subjects
    BY DEF Subjects
  <2> QED
    BY <1>0, <1>3, <1>7, <1>8, <2>1 DEF Notifying, Services
<1> QED
  BY <1>4, <1>5, <1>6, <1>9, <1>10, <1>11 DEF IInv

(* What the end of a message does to the loop that had it. *)
LEMMA NextMessageFrees ==
    ASSUME TypeOK, NEW s \in Services, NextMessage(s)
    PROVE  /\ \A q \in Services : work'[q] = IF q = s THEN None ELSE work[q]
           /\ \A q \in Services : step'[q] = IF q = s THEN "idle" ELSE step[q]
           /\ work' \in [Services -> Subjects \union {None}]
           /\ step' \in [Services -> {"idle", "received", "charged", "found"}]
BY DEF TypeOK, NextMessage

(* A charge, answered or not, is of a request that had none. *)
LEMMA ChargeKeeps == ASSUME IInv, Charge PROVE IInv'
<1> DEFINE t == work["payment"]
<1>0. /\ TypeOK /\ Working /\ Apart /\ Origins /\ Paying /\ Notifying /\ Staged
      /\ UNCHANGED <<subscriptions, queue, purchased, published, mailed, bounds>>
      /\ step["payment"] = "received" /\ "payment" \in Services
  BY DEF IInv, Charge, Services
<1>1. t \in Tickets /\ charges[t] = 0 /\ Was("tixie", "topay", t)
  <2>1. t \in Subjects /\ t \in Held("payment")
    BY <1>0 DEF Working, TypeOK, Held
  <2> QED
    BY <1>0, <2>1 DEF Origins, Paying
<1>2. t \notin queue["payment"] \union buffer["payment"] /\ ~Was("tixie", "payment.confirmed", t)
  BY <1>0, <1>1 DEF Apart, Staged
<1>3. CASE UNCHANGED charges /\ NextMessage("payment")
  <2>1. TypeOK'
    BY <1>0, <1>3, NextMessageFrees DEF TypeOK, subscriptions, bounds
  <2> QED
    BY <1>0, <1>3, <2>1, NextMessageFrees, LossIsSafe DEF subscriptions
<1>4. CASE charges' = [charges EXCEPT ![t] = @ + 1] /\ (GoOn("payment", "charged") \/ NextMessage("payment"))
  <2>1. \A u \in Tickets : charges'[u] = IF u = t THEN 1 ELSE charges[u]
    BY <1>0, <1>1, <1>4 DEF TypeOK
  <2>2. charges' \in [Tickets -> 0 .. 1]
    BY <1>0, <1>1, <1>4 DEF TypeOK
  <2>3. /\ \A q \in Services : q # "payment" => work'[q] = work[q] /\ step'[q] = step[q]
        /\ \/ work'["payment"] = t /\ step'["payment"] = "charged"
           \/ work'["payment"] = None /\ step'["payment"] = "idle"
        /\ work' \in [Services -> Subjects \union {None}]
        /\ step' \in [Services -> {"idle", "received", "charged", "found"}]
    <3>1. CASE GoOn("payment", "charged")
      BY <1>0, <3>1 DEF GoOn, TypeOK
    <3>2. CASE NextMessage("payment")
      BY <1>0, <3>2, NextMessageFrees
    <3> QED
      BY <1>4, <3>1, <3>2
  <2> HIDE DEF t
  <2>4. TypeOK'
    BY <1>0, <2>2, <2>3 DEF TypeOK, subscriptions, bounds
  <2>5. Working'
    <3>1. t # None
      BY <1>1, NoneAssumption
    <3> QED
      BY <1>0, <2>3, <3>1 DEF Working, Services
  <2>6. Apart'
    <3>1. \A q \in Services : work'[q] = work[q] \/ work'[q] = None
      BY <2>3 DEF t
    <3> QED
      BY <1>0, <3>1, NoneAssumption DEF Apart, subscriptions, TypeOK, Subjects
  <2>7. \A q \in Services, u \in Subjects : u \in Held(q)' => u \in Held(q)
    <3>1. \A q \in Services : work'[q] = work[q] \/ work'[q] = None
      BY <2>3 DEF t
    <3> QED
      BY <1>0, <3>1, NoneAssumption DEF Held, subscriptions, Subjects
  <2>8. \A x, y, u : Was(x, y, u)' <=> Was(x, y, u)
    BY <1>0 DEF Was, Publication
  <2>9. Origins'
    BY <1>0, <2>7, <2>8 DEF Origins, Services
  <2>10. Staged'
    BY <1>0, <1>1, <2>1, <2>8 DEF Staged
  <2>11. Paying'
    <3>1. \A u \in Tickets : u # None
      BY NoneAssumption
    <3> QED
      BY <1>0, <1>2, <2>1, <2>3, <2>8, <3>1 DEF Paying, subscriptions
  <2>12. Notifying'
    <3>1. \A u \in Tickets : u \in Subjects
      BY DEF Subjects
    <3> QED
      BY <1>0, <2>3, <2>7, <2>8, <3>1 DEF Notifying, Services
  <2> QED
    BY <2>4, <2>5, <2>6, <2>9, <2>10, <2>11, <2>12 DEF IInv
<1> QED
  BY <1>3, <1>4 DEF Charge, RefusedCharge, AfterError

(* A confirmation goes to the reservation service, and only once. *)
LEMMA ConfirmKeeps == ASSUME IInv, Confirm PROVE IInv'
<1> DEFINE t == work["payment"]
<1>0. /\ TypeOK /\ Working /\ Apart /\ Origins /\ Paying /\ Notifying /\ Staged
      /\ UNCHANGED <<subscriptions, purchased, charges, mailed, bounds>>
      /\ step["payment"] = "charged" /\ "payment" \in Services
      /\ NextMessage("payment")
  BY DEF IInv, Confirm, Services
<1>1. t \in Tickets /\ t \in Subjects /\ charges[t] = 1 /\ ~Was("tixie", "payment.confirmed", t)
  <2>1. t \in Subjects /\ t \in Held("payment")
    BY <1>0 DEF Working, TypeOK, Held
  <2> QED
    BY <1>0, <2>1 DEF Origins, Paying
<1>2. /\ \A q \in Services : work'[q] = IF q = "payment" THEN None ELSE work[q]
      /\ \A q \in Services : step'[q] = IF q = "payment" THEN "idle" ELSE step[q]
      /\ work' \in [Services -> Subjects \union {None}]
      /\ step' \in [Services -> {"idle", "received", "charged", "found"}]
  BY <1>0, NextMessageFrees
<1> HIDE DEF t
<1>3. CASE UNCHANGED <<queue, published>>
  <2>1. TypeOK'
    BY <1>0, <1>2, <1>3 DEF TypeOK, subscriptions, bounds
  <2> QED
    BY <1>0, <1>2, <1>3, <2>1, LossIsSafe DEF subscriptions
<1>4. CASE Route({Publication("tixie", "payment.confirmed", t)})
  <2>1. /\ queue' \in [Services -> SUBSET Subjects]
        /\ queue'["reservation"] \subseteq queue["reservation"] \union {t}
        /\ queue'["payment"] = queue["payment"]
        /\ queue'["notification"] = queue["notification"]
        /\ published' \subseteq [exchange : {"payment", "tixie", "notification"},
                                 key : {"topay", "payment.confirmed", "email"}, ticket : Subjects]
        /\ \A x, y, u : Was(x, y, u)' <=>
              (Was(x, y, u) \/ (x = "tixie" /\ y = "payment.confirmed" /\ u = t))
    BY <1>0, <1>1, <1>4, RouteOne DEF Services, Binding
  <2>2. t \notin Held("reservation") /\ ~Was("tixie", "email", t) /\ t # None
    BY <1>0, <1>1, NoneAssumption DEF Origins, Staged
  <2>3. TypeOK'
    BY <1>0, <1>2, <2>1 DEF TypeOK, subscriptions, bounds
  <2>4. Working'
    BY <1>0, <1>2 DEF Working, Services
  <2>5. None \notin Subjects
    BY NoneAssumption DEF Subjects
  <2>6. Apart'
    <3>1. \A q \in Services : queue'[q] = queue[q] \/ (q = "reservation" /\ queue'[q] \subseteq queue[q] \union {t})
      BY <2>1 DEF Services
    <3>2. \A q \in Services : None \notin queue'[q] \union buffer[q]
      BY <1>0, <2>1, <2>5 DEF TypeOK
    <3> QED
      BY <1>0, <1>2, <2>2, <3>1, <3>2 DEF Apart, Held, subscriptions
  <2>7. Origins'
    BY <1>0, <1>1, <1>2, <2>1, <2>5 DEF Origins, Held, subscriptions, Services
  <2>8. Paying'
    BY <1>0, <1>2, <2>1, NoneAssumption DEF Paying, subscriptions, Services
  <2>9. Notifying'
    BY <1>0, <1>2, <2>1, <2>2 DEF Notifying, Held, subscriptions, Services
  <2>10. Staged'
    BY <1>0, <1>1, <2>1 DEF Staged
  <2> QED
    BY <2>3, <2>4, <2>6, <2>7, <2>8, <2>9, <2>10 DEF IInv
<1> QED
  BY <1>3, <1>4 DEF Confirm, t

(* The reservation service goes on only with a purchase it found. *)
LEMMA LookUpKeeps == ASSUME IInv, LookUp PROVE IInv'
<1>0. /\ TypeOK /\ Working /\ Apart /\ Origins /\ Paying /\ Notifying /\ Staged
      /\ UNCHANGED <<subscriptions, queue, purchased, charges, published, mailed, bounds>>
      /\ step["reservation"] = "received" /\ "reservation" \in Services
  BY DEF IInv, LookUp, Services
<1>1. CASE NextMessage("reservation")
  <2>1. TypeOK'
    BY <1>0, <1>1, NextMessageFrees DEF TypeOK, subscriptions, bounds
  <2> QED
    BY <1>0, <1>1, <2>1, NextMessageFrees, LossIsSafe DEF subscriptions
<1>2. CASE work["reservation"] \in purchased /\ GoOn("reservation", "found")
  <2>1. /\ work' = work
        /\ \A q \in Services : step'[q] = IF q = "reservation" THEN "found" ELSE step[q]
        /\ step' \in [Services -> {"idle", "received", "charged", "found"}]
    BY <1>0, <1>2 DEF GoOn, TypeOK
  <2>2. TypeOK'
    BY <1>0, <2>1 DEF TypeOK, subscriptions, bounds
  <2>3. Working'
    BY <1>0, <2>1 DEF Working, Services
  <2>4. \A x, y, u : Was(x, y, u)' <=> Was(x, y, u)
    BY <1>0 DEF Was, Publication
  <2>5. Apart' /\ Origins' /\ Staged'
    BY <1>0, <2>1, <2>4 DEF Apart, Origins, Staged, Held, subscriptions
  <2>6. Paying' /\ Notifying'
    BY <1>0, <1>2, <2>1, <2>4 DEF Paying, Notifying, Held, subscriptions, Services
  <2> QED
    BY <2>2, <2>3, <2>5, <2>6 DEF IInv
<1> QED
  BY <1>1, <1>2 DEF LookUp, AfterError

(* The notification of a ticket goes to no queue, and out only once. *)
LEMMA NotifyKeeps == ASSUME IInv, Notify PROVE IInv'
<1> DEFINE t == work["reservation"]
<1>0. /\ TypeOK /\ Working /\ Apart /\ Origins /\ Paying /\ Notifying /\ Staged
      /\ UNCHANGED <<subscriptions, purchased, charges, mailed, bounds>>
      /\ step["reservation"] = "found" /\ "reservation" \in Services
      /\ NextMessage("reservation")
  BY DEF IInv, Notify, Services
<1>1. t \in Tickets /\ t \in Subjects /\ Was("tixie", "payment.confirmed", t)
  <2>1. t \in Subjects /\ t \in Held("reservation")
    BY <1>0 DEF Working, TypeOK, Held
  <2> QED
    BY <1>0, <2>1 DEF Origins
<1>2. /\ \A q \in Services : work'[q] = IF q = "reservation" THEN None ELSE work[q]
      /\ \A q \in Services : step'[q] = IF q = "reservation" THEN "idle" ELSE step[q]
      /\ work' \in [Services -> Subjects \union {None}]
      /\ step' \in [Services -> {"idle", "received", "charged", "found"}]
  BY <1>0, NextMessageFrees
<1>3. CASE UNCHANGED <<queue, published>>
  <2>1. TypeOK'
    BY <1>0, <1>2, <1>3 DEF TypeOK, subscriptions, bounds
  <2> QED
    BY <1>0, <1>2, <1>3, <2>1, LossIsSafe DEF subscriptions
<1>4. CASE Route({Publication("tixie", "email", t)})
  <2>1. /\ queue' \in [Services -> SUBSET Subjects]
        /\ \A q \in Services : queue'[q] = queue[q]
        /\ published' \subseteq [exchange : {"payment", "tixie", "notification"},
                                 key : {"topay", "payment.confirmed", "email"}, ticket : Subjects]
        /\ \A x, y, u : Was(x, y, u)' <=> (Was(x, y, u) \/ (x = "tixie" /\ y = "email" /\ u = t))
    <3>1. \A q \in Services : Binding(q).exchange # "tixie" \/ Binding(q).key # "email"
      BY DEF Services, Binding
    <3> QED
      BY <1>0, <1>1, <1>4, <3>1, RouteOne
  <2>2. t \notin queue["reservation"] \union buffer["reservation"] /\ t # None
    BY <1>0, <1>1, NoneAssumption DEF Apart
  <2>3. TypeOK'
    BY <1>0, <1>2, <2>1 DEF TypeOK, subscriptions, bounds
  <2>4. Working'
    BY <1>0, <1>2 DEF Working, Services
  <2>5. None \notin Subjects
    BY NoneAssumption DEF Subjects
  <2>6. Apart'
    BY <1>0, <1>2, <2>1, <2>5 DEF Apart, TypeOK, subscriptions
  <2>7. \A q \in Services, u \in Subjects : u \in Held(q)' => u \in Held(q)
    BY <1>0, <1>2, <2>1, <2>5 DEF Held, subscriptions
  <2>8. Origins'
    BY <1>0, <2>1, <2>7 DEF Origins, Services
  <2>9. Paying'
    BY <1>0, <1>2, <2>1, NoneAssumption DEF Paying, subscriptions, Services
  <2>10. Notifying'
    <3>1. \A u \in Tickets : u \in Subjects /\ u # None
      BY NoneAssumption DEF Subjects
    <3>2. t \notin Held("reservation")'
      BY <1>0, <1>1, <1>2, <2>1, <2>2 DEF Held, subscriptions
    <3> QED
      BY <1>0, <1>2, <2>1, <2>7, <3>1, <3>2 DEF Notifying
  <2>11. Staged'
    BY <1>0, <1>1, <2>1 DEF Staged
  <2> QED
    BY <2>3, <2>4, <2>6, <2>8, <2>9, <2>10, <2>11 DEF IInv
<1> QED
  BY <1>3, <1>4 DEF Notify

(* The steps that only lose messages, or start a service. *)
LEMMA RestKeeps ==
    ASSUME IInv,
           \/ DeferredClose \/ Outage \/ Mail
           \/ \E s \in Services : Start(s) \/ StartDeaf(s) \/ Stop(s)
    PROVE  IInv'
<1>0. TypeOK
  BY DEF IInv
<1>1. ASSUME NEW S, Deafen(S)
      PROVE  /\ listening' \in [Services -> BOOLEAN]
             /\ \A s \in Services : listening'[s] => listening[s] /\ s \notin S
             /\ buffer' \in [Services -> SUBSET Subjects]
             /\ \A s \in Services : buffer'[s] \subseteq buffer[s]
  BY <1>0, <1>1 DEF Deafen, TypeOK
<1>2. CASE DeferredClose
  <2>1. TypeOK'
    BY <1>0, <1>1, <1>2 DEF DeferredClose, TypeOK, bounds
  <2> QED
    BY <1>1, <1>2, <2>1, LossIsSafe DEF DeferredClose
<1>3. CASE Outage
  <2>1. TypeOK'
    <3>1. outages' \in 0 .. MaxOutages
      BY <1>0, <1>3, BoundsAssumption DEF Outage, TypeOK
    <3> QED
      BY <1>0, <1>1, <1>3, <3>1 DEF Outage, TypeOK
  <2> QED
    BY <1>1, <1>3, <2>1, LossIsSafe DEF Outage
<1>4. CASE Mail
  <2>0. "notification" \in Services /\ NextMessage("notification")
    BY <1>4 DEF Services, Mail
  <2>1. work["notification"] \in Subjects
    BY <1>0, <1>4, <2>0 DEF IInv, Working, TypeOK, Mail
  <2>2. TypeOK'
    BY <1>0, <1>4, <2>0, <2>1, NextMessageFrees DEF Mail, TypeOK, subscriptions, bounds
  <2> QED
    BY <1>0, <1>4, <2>0, <2>2, NextMessageFrees, LossIsSafe DEF Mail, subscriptions
<1>5. ASSUME NEW s \in Services, Start(s)
      PROVE  IInv'
  <2>1. TypeOK'
    BY <1>0, <1>5 DEF Start, TypeOK, bounds
  <2> QED
    BY <1>5, <2>1, LossIsSafe DEF Start
<1>6. ASSUME NEW s \in Services, StartDeaf(s)
      PROVE  IInv'
  <2>1. TypeOK'
    BY <1>0, <1>6 DEF StartDeaf, TypeOK, bounds
  <2> QED
    BY <1>6, <2>1, LossIsSafe DEF StartDeaf
<1>7. ASSUME NEW s \in Services, Stop(s)
      PROVE  IInv'
  <2>1. TypeOK'
    <3>1. restarts' \in 0 .. MaxRestarts
      BY <1>0, <1>7, BoundsAssumption DEF Stop, TypeOK
    <3>2. Deafen({s}) /\ NextMessage(s) /\ up' = [up EXCEPT ![s] = FALSE]
      BY <1>7 DEF Stop
    <3> QED
      BY <1>0, <1>1, <1>7, <3>1, <3>2, NextMessageFrees DEF Stop, TypeOK
  <2> QED
    BY <1>0, <1>1, <1>7, <2>1, NextMessageFrees, LossIsSafe DEF Stop
<1> QED
  BY <1>2, <1>3, <1>4, <1>5, <1>6, <1>7

(* Every step keeps the invariant. *)
LEMMA StepKeeps == IInv /\ [Next]_vars => IInv'
<1> SUFFICES ASSUME IInv, [Next]_vars
             PROVE  IInv'
  OBVIOUS
<1>1. CASE UNCHANGED vars
  BY <1>1 DEF IInv, TypeOK, Working, Apart, Origins, Paying, Notifying, Staged, Held, Was, vars
<1>2. ASSUME NEW s \in Services, Loop(s)
      PROVE  IInv'
  BY <1>2, TakeKeeps, ChargeKeeps, ConfirmKeeps, LookUpKeeps, NotifyKeeps, RestKeeps DEF Loop
<1>3. ASSUME NEW s \in Services, NEW t \in Tickets \union {Sample}, Deliver(s, t)
      PROVE  IInv'
  BY <1>3, DeliverKeeps DEF Subjects
<1>4. ASSUME NEW t \in Tickets, Reserve(t) \/ Request(t)
      PROVE  IInv'
  BY <1>4, ReserveKeeps, RequestKeeps
<1> QED
  BY <1>1, <1>2, <1>3, <1>4, SimulateKeeps, RestKeeps DEF Next

(* The invariant from which the properties of the run follow. *)
THEOREM Inductive == Spec => []IInv
BY InitHolds, StepKeeps, PTL DEF Spec

(***************************************************************************)
(* For all tickets and whatever stops: a payment request is charged at     *)
(* most once, and a message is never in two places (broker.go: Consume     *)
(* with automatic acknowledgement).                                        *)
(***************************************************************************)
THEOREM RequestedOnceHolds == Spec => []RequestedOnce
<1>1. IInv => RequestedOnce
  BY DEF IInv, TypeOK, Apart, RequestedOnce
<1> QED
  BY <1>1, Inductive, PTL

(* Types hold. *)
THEOREM Typed == Spec => []TypeOK
<1>1. IInv => TypeOK
  BY DEF IInv
<1> QED
  BY <1>1, Inductive, PTL

-----------------------------------------------------------------------------
(***************************************************************************)
(* The refinement.                                                         *)
(***************************************************************************)
(* How far a payment is, without the other cases: under the invariant each *)
(* stage left behind what all stages before it did.                        *)
LEMMA StageIs ==
    ASSUME IInv, NEW t \in Tickets
    PROVE  /\ Stage(t) = "none" <=> ~Was("tixie", "topay", t)
           /\ Stage(t) = "requested" <=> Was("tixie", "topay", t) /\ charges[t] = 0
           /\ Stage(t) = "charged" <=> charges[t] = 1 /\ ~Was("tixie", "payment.confirmed", t)
           /\ Stage(t) = "confirmed" <=> /\ Was("tixie", "payment.confirmed", t)
                                         /\ ~Was("tixie", "email", t)
           /\ Stage(t) = "notified" <=> Was("tixie", "email", t)
<1>1. charges[t] \in 0 .. 1
  BY DEF IInv, TypeOK
<1>2. /\ Was("tixie", "email", t) => Was("tixie", "payment.confirmed", t)
      /\ Was("tixie", "payment.confirmed", t) => charges[t] = 1
      /\ charges[t] = 1 => Was("tixie", "topay", t)
  BY DEF IInv, Staged
<1> QED
  BY <1>1, <1>2 DEF Stage

(* A step that leaves the publications to the exchange "tixie" and the     *)
(* charges alone leaves the stages alone.                                  *)
LEMMA StageStays ==
    ASSUME UNCHANGED charges,
           \A y, t : Was("tixie", y, t)' <=> Was("tixie", y, t)
    PROVE  \A t \in Tickets : Stage(t)' = Stage(t)
<1> SUFFICES ASSUME NEW t \in Tickets
             PROVE  Stage(t)' = Stage(t)
  OBVIOUS
<1>1. /\ Was("tixie", "email", t)' <=> Was("tixie", "email", t)
      /\ Was("tixie", "payment.confirmed", t)' <=> Was("tixie", "payment.confirmed", t)
      /\ Was("tixie", "topay", t)' <=> Was("tixie", "topay", t)
      /\ charges'[t] = charges[t]
  OBVIOUS
<1> QED
  BY <1>1 DEF Stage

(* What an Advance of the chain is, in terms of the stages here. *)
LEMMA StageAdvances ==
    ASSUME NEW t \in Tickets, NEW from, NEW to,
           Stage(t) = from, Stage(t)' = to, UNCHANGED purchased,
           \A u \in Tickets : u # t => Stage(u)' = Stage(u)
    PROVE  Chain!Advance(t, from, to)
<1> DEFINE stage == [u \in Tickets |-> Stage(u)]
<1>1. stage[t] = from
  OBVIOUS
<1>2. stage' = [stage EXCEPT ![t] = to]
  <2>1. stage' = [u \in Tickets |-> Stage(u)']
    OBVIOUS
  <2>2. \A u \in Tickets : Stage(u)' = IF u = t THEN to ELSE Stage(u)
    OBVIOUS
  <2> QED
    BY <2>1, <2>2
<1> QED
  BY <1>1, <1>2 DEF Chain!Advance

(* When only the publication of k about t is new, the other tickets stay  *)
(* where they are.                                                         *)
LEMMA OthersStay ==
    ASSUME NEW t \in Tickets, NEW k, UNCHANGED charges,
           \A x, y, u : Was(x, y, u)' <=> (Was(x, y, u) \/ (x = "tixie" /\ y = k /\ u = t))
    PROVE  \A u \in Tickets : u # t => Stage(u)' = Stage(u)
<1> SUFFICES ASSUME NEW u \in Tickets, u # t
             PROVE  Stage(u)' = Stage(u)
  OBVIOUS
<1>1. /\ Was("tixie", "email", u)' <=> Was("tixie", "email", u)
      /\ Was("tixie", "payment.confirmed", u)' <=> Was("tixie", "payment.confirmed", u)
      /\ Was("tixie", "topay", u)' <=> Was("tixie", "topay", u)
      /\ charges'[u] = charges[u]
  OBVIOUS
<1> QED
  BY <1>1 DEF Stage

(* ReserveTicket buys. *)
LEMMA ReserveBuys ==
    ASSUME IInv, NEW t \in Tickets, Reserve(t)
    PROVE  Chain!Buy(t)
<1>1. PICK keys \in {{}, {"topay", "email"}} :
         Route({Publication("payment", k, t) : k \in keys})
  BY DEF Reserve
<1>2. published' = published \union {Publication("payment", k, t) : k \in keys}
  BY <1>1 DEF Route
<1>3. \A y, u : Was("tixie", y, u)' <=> Was("tixie", y, u)
  <2> SUFFICES ASSUME NEW y, NEW u
               PROVE  Was("tixie", y, u)' <=> Was("tixie", y, u)
    OBVIOUS
  <2>1. \A k : Publication("tixie", y, u) # Publication("payment", k, t)
    <3> SUFFICES ASSUME NEW k
                 PROVE  Publication("tixie", y, u) # Publication("payment", k, t)
      OBVIOUS
    <3>1. Publication("tixie", y, u).exchange = "tixie" /\ Publication("payment", k, t).exchange = "payment"
      BY DEF Publication
    <3> QED
      BY <3>1
  <2>2. Was("tixie", y, u)' <=> Publication("tixie", y, u) \in published'
    BY DEF Was, Publication
  <2> QED
    BY <1>2, <2>1, <2>2 DEF Was
<1>4. \A u \in Tickets : Stage(u)' = Stage(u)
  BY <1>3, StageStays DEF Reserve
<1>5. purchased' = purchased \union {t}
  BY DEF Reserve
<1> QED
  BY <1>4, <1>5 DEF Chain!Buy

(* A request is the chain's first stage. *)
LEMMA RequestAsks ==
    ASSUME IInv, IInv', NEW t \in Tickets, Request(t)
    PROVE  Chain!Ask(t)
<1>0. TypeOK /\ t \in Subjects /\ ~Was("tixie", "topay", t) /\ UNCHANGED <<purchased, charges>>
  BY DEF IInv, Subjects, Request, Was
<1>1. \A x, y, u : Was(x, y, u)' <=> (Was(x, y, u) \/ (x = "tixie" /\ y = "topay" /\ u = t))
  BY <1>0, RouteOne DEF Request
<1>2. Stage(t) = "none" /\ charges[t] = 0
  BY <1>0, StageIs DEF IInv, Staged, TypeOK
<1>3. Stage(t)' = "requested"
  <2>1. ~Was("tixie", "email", t) /\ ~Was("tixie", "payment.confirmed", t)
    BY <1>0 DEF IInv, Staged
  <2>2. /\ Was("tixie", "topay", t)' /\ charges'[t] = 0
        /\ ~Was("tixie", "email", t)' /\ ~Was("tixie", "payment.confirmed", t)'
    BY <1>0, <1>1, <1>2, <2>1
  <2> QED
    BY <2>2 DEF Stage
<1> QED
  BY <1>0, <1>1, <1>2, <1>3, OthersStay, StageAdvances DEF Chain!Ask

(* A charge is made of a request, and a message that is lost changes no    *)
(* stage.                                                                  *)
LEMMA ChargePays ==
    ASSUME IInv, Charge
    PROVE  (\E t \in Tickets : Chain!Pay(t)) \/ UNCHANGED Chain!chainVars
<1> PICK t : t = work["payment"]
  OBVIOUS
<1>0. UNCHANGED <<published, purchased>> /\ TypeOK /\ step["payment"] = "received"
  BY DEF IInv, Charge
<1>1. \A x, y, u : Was(x, y, u)' <=> Was(x, y, u)
  BY <1>0 DEF Was, Publication
<1>2. CASE UNCHANGED charges
  <2>1. \A u \in Tickets : Stage(u)' = Stage(u)
    BY <1>1, <1>2, StageStays
  <2> QED
    BY <1>0, <2>1 DEF Chain!chainVars
<1>3. CASE charges' = [charges EXCEPT ![t] = @ + 1]
  <2>1. t \in Tickets /\ charges[t] = 0 /\ Was("tixie", "topay", t)
    <3>1. t \in Subjects /\ t \in Held("payment")
      BY <1>0 DEF IInv, Working, TypeOK, Held, Services
    <3> QED
      BY <1>0, <3>1 DEF IInv, Origins, Paying
  <2>2. \A u \in Tickets : charges'[u] = IF u = t THEN 1 ELSE charges[u]
    BY <1>0, <1>3, <2>1 DEF TypeOK
  <2>3. ~Was("tixie", "payment.confirmed", t) /\ ~Was("tixie", "email", t)
    BY <2>1 DEF IInv, Staged
  <2>4. Stage(t) = "requested"
    BY <2>1, StageIs
  <2>5. Stage(t)' = "charged"
    <3>1. charges'[t] = 1 /\ ~Was("tixie", "payment.confirmed", t)' /\ ~Was("tixie", "email", t)'
      BY <1>1, <2>1, <2>2, <2>3
    <3> QED
      BY <3>1 DEF Stage
  <2>6. \A u \in Tickets : u # t => Stage(u)' = Stage(u)
    <3> SUFFICES ASSUME NEW u \in Tickets, u # t
                 PROVE  Stage(u)' = Stage(u)
      OBVIOUS
    <3>1. charges'[u] = charges[u]
      BY <2>2
    <3> QED
      BY <1>1, <3>1 DEF Stage
  <2> QED
    BY <1>0, <2>1, <2>4, <2>5, <2>6, StageAdvances DEF Chain!Pay
<1> QED
  BY <1>2, <1>3 DEF Charge

(* A confirmation is of a charge. *)
LEMMA ConfirmApproves ==
    ASSUME IInv, Confirm
    PROVE  (\E t \in Tickets : Chain!Approve(t)) \/ UNCHANGED Chain!chainVars
<1> PICK t : t = work["payment"]
  OBVIOUS
<1>0. TypeOK /\ step["payment"] = "charged" /\ UNCHANGED <<purchased, charges>>
  BY DEF IInv, Confirm
<1>1. CASE UNCHANGED published
  <2>1. \A u \in Tickets : Stage(u)' = Stage(u)
    BY <1>0, <1>1, StageStays DEF Was, Publication
  <2> QED
    BY <1>0, <2>1 DEF Chain!chainVars
<1>2. CASE Route({Publication("tixie", "payment.confirmed", t)})
  <2>1. t \in Tickets /\ t \in Subjects /\ charges[t] = 1 /\ ~Was("tixie", "payment.confirmed", t)
    <3>1. t \in Subjects /\ t \in Held("payment")
      BY <1>0 DEF IInv, Working, TypeOK, Held, Services
    <3> QED
      BY <1>0, <3>1 DEF IInv, Origins, Paying
  <2>2. \A x, y, u : Was(x, y, u)' <=>
           (Was(x, y, u) \/ (x = "tixie" /\ y = "payment.confirmed" /\ u = t))
    BY <1>0, <1>2, <2>1, RouteOne
  <2>3. Stage(t) = "charged"
    BY <2>1, StageIs
  <2>4. Stage(t)' = "confirmed"
    <3>1. ~Was("tixie", "email", t)
      BY <2>1 DEF IInv, Staged
    <3>2. Was("tixie", "payment.confirmed", t)' /\ ~Was("tixie", "email", t)'
      BY <2>2, <3>1
    <3> QED
      BY <3>2 DEF Stage
  <2> QED
    BY <1>0, <2>1, <2>2, <2>3, <2>4, OthersStay, StageAdvances DEF Chain!Approve
<1> QED
  BY <1>1, <1>2 DEF Confirm

(* A notification is of a confirmed payment for a purchased ticket. *)
LEMMA NotifyTells ==
    ASSUME IInv, Notify
    PROVE  (\E t \in Tickets : Chain!Tell(t)) \/ UNCHANGED Chain!chainVars
<1> PICK t : t = work["reservation"]
  OBVIOUS
<1>0. TypeOK /\ step["reservation"] = "found" /\ UNCHANGED <<purchased, charges>>
  BY DEF IInv, Notify
<1>1. CASE UNCHANGED published
  <2>1. \A u \in Tickets : Stage(u)' = Stage(u)
    BY <1>0, <1>1, StageStays DEF Was, Publication
  <2> QED
    BY <1>0, <2>1 DEF Chain!chainVars
<1>2. CASE Route({Publication("tixie", "email", t)})
  <2>1. /\ t \in Tickets /\ t \in Subjects /\ t \in purchased
        /\ Was("tixie", "payment.confirmed", t) /\ ~Was("tixie", "email", t)
    <3>1. t \in Subjects /\ t \in Held("reservation")
      BY <1>0 DEF IInv, Working, TypeOK, Held, Services
    <3> QED
      BY <1>0, <3>1 DEF IInv, Origins, Notifying
  <2>2. \A x, y, u : Was(x, y, u)' <=> (Was(x, y, u) \/ (x = "tixie" /\ y = "email" /\ u = t))
    BY <1>0, <1>2, <2>1, RouteOne
  <2>3. Stage(t) = "confirmed"
    BY <2>1, StageIs
  <2>4. Stage(t)' = "notified"
    <3>1. Was("tixie", "email", t)'
      BY <2>2
    <3> QED
      BY <3>1 DEF Stage
  <2> QED
    BY <1>0, <2>1, <2>2, <2>3, <2>4, OthersStay, StageAdvances DEF Chain!Tell
<1> QED
  BY <1>1, <1>2 DEF Notify

(* No other step moves a payment on. *)
LEMMA RestStutters ==
    ASSUME IInv,
           \/ SimulateWebhook \/ DeferredClose \/ Outage \/ LookUp \/ Mail
           \/ \E s \in Services : Start(s) \/ StartDeaf(s) \/ Stop(s) \/ Take(s)
           \/ \E s \in Services, t \in Subjects : Deliver(s, t)
    PROVE  UNCHANGED Chain!chainVars
<1>1. UNCHANGED <<charges, purchased>>
  BY DEF SimulateWebhook, DeferredClose, Outage, LookUp, Mail, Start, StartDeaf, Stop, Take, Deliver
<1>2. \A y, t : Was("tixie", y, t)' <=> Was("tixie", y, t)
  <2>1. CASE SimulateWebhook
    <3>1. Route({Publication("notification", "email", Sample)}) /\ Sample \in Subjects /\ TypeOK
      BY <2>1 DEF SimulateWebhook, Subjects, IInv
    <3>2. \A x, y, u : Was(x, y, u)' <=>
             (Was(x, y, u) \/ (x = "notification" /\ y = "email" /\ u = Sample))
      BY <3>1, RouteOne
    <3> QED
      BY <3>2
  <2>2. CASE UNCHANGED published
    BY <2>2 DEF Was, Publication
  <2> QED
    BY <2>1, <2>2 DEF DeferredClose, Outage, LookUp, Mail, Start, StartDeaf, Stop, Take, Deliver
<1>3. \A u \in Tickets : Stage(u)' = Stage(u)
  BY <1>1, <1>2, StageStays
<1> QED
  BY <1>1, <1>3 DEF Chain!chainVars

(***************************************************************************)
(* The refinement: with any number of tickets, whatever stops and is lost, *)
(* a payment goes from request to charge to confirmation to notification,  *)
(* one stage at a time, and only a bought ticket gets to the last.         *)
(***************************************************************************)
THEOREM ChainImplemented == Spec => ImplementsChain
<1>1. Init => Chain!Init
  <2> SUFFICES ASSUME Init
               PROVE  Chain!Init
    OBVIOUS
  <2>1. \A t \in Tickets : Stage(t) = "none"
    BY DEF Init, Stage, Was
  <2> QED
    BY <2>1 DEF Init, Chain!Init
<1>2. IInv /\ IInv' /\ [Next]_vars => [Chain!Next]_(Chain!chainVars)
  <2> SUFFICES ASSUME IInv, IInv', [Next]_vars
               PROVE  Chain!Next \/ UNCHANGED Chain!chainVars
    OBVIOUS
  <2>1. CASE UNCHANGED vars
    <3>1. UNCHANGED <<charges, published, purchased>>
      BY <2>1 DEF vars
    <3>2. \A u \in Tickets : Stage(u)' = Stage(u)
      BY <3>1, StageStays DEF Was, Publication
    <3> QED
      BY <3>1, <3>2 DEF Chain!chainVars
  <2>2. ASSUME NEW t \in Tickets, Reserve(t) \/ Request(t)
        PROVE  Chain!Next
    BY <2>2, ReserveBuys, RequestAsks DEF Chain!Next
  <2>3. ASSUME NEW s \in Services, Loop(s)
        PROVE  Chain!Next \/ UNCHANGED Chain!chainVars
    BY <2>3, ChargePays, ConfirmApproves, NotifyTells, RestStutters DEF Loop, Chain!Next
  <2>4. ASSUME NEW s \in Services, NEW t \in Tickets \union {Sample}, Deliver(s, t)
        PROVE  UNCHANGED Chain!chainVars
    BY <2>4, RestStutters DEF Subjects
  <2> QED
    BY <2>1, <2>2, <2>3, <2>4, RestStutters DEF Next
<1> QED
  BY <1>1, <1>2, Inductive, PTL DEF Spec, ImplementsChain, Chain!Spec

=============================================================================
