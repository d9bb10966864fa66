------------------------- MODULE EventService_proofs -------------------------
(***************************************************************************)
(* Proofs about EventService, for every set of requests and events and all *)
(* initial rows: the table's invariants under buyers that check a row      *)
(* which others change before they write, and that every request gives     *)
(* back the breaker's slot it took.                                        *)
(***************************************************************************)
EXTENDS EventService, TLAPS

Breaker == INSTANCE CircuitBreaker_proofs WITH Callers <- Requests

(* What the table holds are rows, with no more recorded as sold than there *)
(* are (a new event's total may be negative), and tickets_left their rest. *)
RowOK(row) ==
    /\ row \in Rows
    /\ row.sold > 0 => row.sold <= row.total
    /\ IF row.left = Null THEN row.sold = 0 ELSE row.left = row.total - row.sold

TableOK ==
    /\ DOMAIN table = Events
    /\ \A e \in Events : table[e] = NoRow \/ RowOK(table[e])

(***************************************************************************)
(* What a buyer between its SELECT and its UPDATE still knows of a row that*)
(* others may have changed: the event is there, its total is the one read, *)
(* and the sum it is about to write fits in it.                            *)
(***************************************************************************)
BuyerOK(r) ==
    pc[r] = "read" =>
        /\ op[r].event \in Events
        /\ op[r].qty \in Int /\ op[r].qty > 0
        /\ seen[r] \in Rows
        /\ seen[r].sold + op[r].qty <= seen[r].total
        /\ table[op[r].event] # NoRow
        /\ table[op[r].event].total = seen[r].total

FunctionsOK ==
    /\ DOMAIN pc = Requests
    /\ DOMAIN op = Requests
    /\ DOMAIN seen = Requests

(* An admitted buyer asked for a positive number of tickets of an event,   *)
(* and a new event comes with some total.                                  *)
InputOK(r) ==
    pc[r] = "admitted" =>
        /\ Buys(r) => op[r].event \in Events /\ op[r].qty \in Int /\ op[r].qty > 0
        /\ op[r].kind = "create" => op[r].total \in Int

Safe ==
    /\ FunctionsOK
    /\ TableOK
    /\ \A r \in Requests : InputOK(r) /\ BuyerOK(r)

-----------------------------------------------------------------------------
(* The row an UPDATE writes is in order if the sum was in order when it was*)
(* computed, whatever the row has become since (event_repository.go:88).   *)
LEMMA SoldRowOK ==
    ASSUME NEW row \in Rows, NEW read \in Rows, NEW qty \in Int, qty > 0,
           row.total = read.total, read.sold + qty <= read.total
    PROVE  RowOK(SoldRow(row, read, qty)) /\ SoldRow(row, read, qty).total = row.total
BY NullAssumption DEF RowOK, SoldRow, Rows

(* The rows of event.sql and requests that have not begun are in order. *)
LEMMA SafeInit == Init => Safe
<1> SUFFICES ASSUME Init
             PROVE  Safe
  OBVIOUS
<1>1. FunctionsOK
  BY DEF Init, FunctionsOK
<1>2. TableOK
  BY RowsAssumption, NullAssumption DEF Init, TableOK, RowOK, Rows
<1>3. \A r \in Requests : InputOK(r) /\ BuyerOK(r)
  BY DEF Init, InputOK, BuyerOK
<1> QED
  BY <1>1, <1>2, <1>3 DEF Safe

(* A step that leaves the table and every other request alone, and after   *)
(* which its own request is neither admitted nor between its statements.   *)
LEMMA LeavesSafe ==
    ASSUME Safe, NEW r \in Requests, NEW step,
           pc' = [pc EXCEPT ![r] = step],
           step \notin {"admitted", "read"},
           DOMAIN op' = Requests,
           \A q \in Requests : q # r => op'[q] = op[q],
           UNCHANGED <<table, seen>>
    PROVE  Safe'
<1>1. FunctionsOK'
  BY DEF Safe, FunctionsOK
<1>2. TableOK'
  BY DEF Safe, TableOK
<1>3. ASSUME NEW q \in Requests
      PROVE  InputOK(q)' /\ BuyerOK(q)'
  <2>1. CASE q = r
    BY <2>1 DEF Safe, FunctionsOK, InputOK, BuyerOK
  <2>2. CASE q # r
    BY <2>2 DEF Safe, FunctionsOK, InputOK, BuyerOK, Buys
  <2> QED
    BY <2>1, <2>2
<1> QED
  BY <1>1, <1>2, <1>3 DEF Safe

(* Writing a sale keeps the table, and what every other buyer knows: no    *)
(* UPDATE changes a total or removes a row.                                *)
LEMMA WriteSafe ==
    ASSUME Safe, NEW r \in Requests, pc[r] = "read", WriteSold(r),
           pc' = [pc EXCEPT ![r] = "returning"],
           UNCHANGED <<op, seen>>
    PROVE  Safe'
<1> DEFINE e == op[r].event
<1> DEFINE new == SoldRow(table[e], seen[r], op[r].qty)
<1>1. /\ e \in Events
      /\ table[e] # NoRow
      /\ table' = [table EXCEPT ![e] = new]
  BY DEF Safe, BuyerOK, WriteSold
<1>2. RowOK(new) /\ new.total = table[e].total
  <2>1. /\ table[e] \in Rows
        /\ seen[r] \in Rows
        /\ op[r].qty \in Int /\ op[r].qty > 0
        /\ table[e].total = seen[r].total
        /\ seen[r].sold + op[r].qty <= seen[r].total
    BY <1>1 DEF Safe, BuyerOK, TableOK, RowOK
  <2> QED
    BY <2>1, SoldRowOK
<1>3. new # NoRow
  BY <1>2, RowsAssumption DEF RowOK
<1> HIDE DEF e, new
<1>4. FunctionsOK'
  BY DEF Safe, FunctionsOK
<1>5. TableOK'
  BY <1>1, <1>2 DEF Safe, TableOK
<1>6. ASSUME NEW f \in Events, table[f] # NoRow
      PROVE  table'[f] # NoRow /\ table'[f].total = table[f].total
  BY <1>1, <1>2, <1>3, <1>6 DEF Safe, TableOK
<1>7. ASSUME NEW q \in Requests
      PROVE  InputOK(q)' /\ BuyerOK(q)'
  <2>1. CASE q = r
    BY <2>1 DEF Safe, FunctionsOK, InputOK, BuyerOK
  <2>2. CASE q # r
    BY <1>6, <2>2 DEF Safe, FunctionsOK, InputOK, BuyerOK, Buys
  <2> QED
    BY <2>1, <2>2
<1> QED
  BY <1>4, <1>5, <1>7 DEF Safe

(* Every step preserves Safe. *)
LEMMA SafeStep == Safe /\ [Next]_vars => Safe'
<1> SUFFICES ASSUME Safe, [Next]_vars
             PROVE  Safe'
  OBVIOUS
<1>1. ASSUME NEW r \in Requests, NEW o \in Ops, RejectInput(r, o) \/ Unavailable(r, o)
      PROVE  Safe'
  <2>1. /\ pc' = [pc EXCEPT ![r] = "done"]
        /\ op' = [op EXCEPT ![r] = o]
        /\ UNCHANGED <<table, seen>>
    BY <1>1 DEF RejectInput, Unavailable
  <2> QED
    BY <2>1, LeavesSafe DEF Safe, FunctionsOK
<1>2. ASSUME NEW r \in Requests, NEW o \in Ops, Admit(r, o)
      PROVE  Safe'
  <2>1. /\ pc' = [pc EXCEPT ![r] = "admitted"]
        /\ op' = [op EXCEPT ![r] = o]
        /\ UNCHANGED <<table, seen>>
        /\ ~BadInput(o)
    BY <1>2 DEF Admit
  <2>2. FunctionsOK' /\ TableOK'
    BY <2>1 DEF Safe, FunctionsOK, TableOK
  <2>3. /\ o.kind = "buy" => o.event \in Events /\ o.qty \in Int /\ o.qty > 0
        /\ o.kind = "create" => o.total \in Int
    <3>1. CASE o \in [kind : {"buy"}, event : Events, qty : Quantities]
      <4>1. o.event \in Events /\ o.qty \in Quantities /\ o.kind = "buy"
        BY <3>1
      <4>2. ~(o.qty <= 0)
        BY <2>1, <4>1 DEF BadInput
      <4>3. o.qty \in Int
        BY <4>1, QuantitiesAssumption
      <4>4. o.qty > 0
        BY <4>2, <4>3
      <4> QED
        BY <4>1, <4>3, <4>4
    <3>2. CASE o \in [kind : {"get"}, event : Events] \/ o \in [kind : {"list"}]
      <4>1. o.kind # "buy" /\ o.kind # "create"
        BY <3>2
      <4> QED
        BY <4>1
    <3>3. CASE o \in [kind : {"create"}, total : NewTotals]
      <4>1. o.kind = "create" /\ o.total \in NewTotals
        BY <3>3
      <4> QED
        BY <4>1, NewTotalsAssumption
    <3> QED
      BY <3>1, <3>2, <3>3 DEF Ops
  <2>4. ASSUME NEW q \in Requests
        PROVE  InputOK(q)' /\ BuyerOK(q)'
    <3>1. CASE q = r
      BY <2>1, <2>3, <3>1 DEF Safe, FunctionsOK, InputOK, BuyerOK, Buys
    <3>2. CASE q # r
      BY <2>1, <3>2 DEF Safe, FunctionsOK, InputOK, BuyerOK, Buys
    <3> QED
      BY <3>1, <3>2
  <2> QED
    BY <2>2, <2>4 DEF Safe
<1>3. ASSUME NEW r \in Requests, DatabaseFails(r) \/ GetEvent(r) \/ GetAllEvents(r)
      PROVE  Safe'
  <2>1. pc' = [pc EXCEPT ![r] = "returning"] /\ UNCHANGED <<op, table, seen>>
    BY <1>3 DEF DatabaseFails, GetEvent, GetAllEvents, Returns
  <2> QED
    BY <2>1, LeavesSafe DEF Safe, FunctionsOK
<1>4. ASSUME NEW r \in Requests, CreateEvent(r)
      PROVE  Safe'
  <2> DEFINE new == [total |-> op[r].total, sold |-> 0, left |-> Null]
  <2>0. op[r].total \in Int
    BY <1>4 DEF CreateEvent, Safe, InputOK
  <2>1. PICK e \in Events : table[e] = NoRow /\ table' = [table EXCEPT ![e] = new]
    BY <1>4 DEF CreateEvent
  <2>2. pc' = [pc EXCEPT ![r] = "returning"] /\ UNCHANGED <<op, seen>>
    BY <1>4 DEF CreateEvent, Returns
  <2>3. RowOK(new)
    BY <2>0, NullAssumption DEF RowOK, Rows
  <2> HIDE DEF new
  <2>4. FunctionsOK' /\ TableOK'
    BY <2>1, <2>2, <2>3 DEF Safe, FunctionsOK, TableOK
  <2>5. ASSUME NEW q \in Requests
        PROVE  InputOK(q)' /\ BuyerOK(q)'
    <3>1. CASE q = r
      BY <2>2, <3>1 DEF Safe, FunctionsOK, InputOK, BuyerOK
    <3>2. CASE q # r
      BY <2>1, <2>2, <3>2 DEF Safe, FunctionsOK, TableOK, InputOK, BuyerOK, Buys
    <3> QED
      BY <3>1, <3>2
  <2> QED
    BY <2>4, <2>5 DEF Safe
<1>5. ASSUME NEW r \in Requests, SelectEvent(r)
      PROVE  Safe'
  <2> DEFINE row == table[op[r].event]
  <2>0. pc[r] = "admitted" /\ Buys(r) /\ UNCHANGED <<table, op>>
    BY <1>5 DEF SelectEvent
  <2>1. CASE pc' = [pc EXCEPT ![r] = "returning"] /\ UNCHANGED seen
    <3>1. pc' = [pc EXCEPT ![r] = "returning"] /\ UNCHANGED <<op, table, seen>>
      BY <2>0, <2>1
    <3> QED
      BY <3>1, LeavesSafe DEF Safe, FunctionsOK
  <2>2. CASE /\ pc' = [pc EXCEPT ![r] = "read"]
             /\ seen' = [seen EXCEPT ![r] = row]
             /\ row # NoRow
             /\ Fits(row, op[r].qty)
    <3>1. FunctionsOK' /\ TableOK'
      BY <2>0, <2>2 DEF Safe, FunctionsOK, TableOK
    <3>2. op[r].event \in Events /\ op[r].qty \in Int /\ op[r].qty > 0
      BY <2>0 DEF Safe, InputOK
    <3>3. row \in Rows /\ row.sold + op[r].qty <= row.total
      BY <2>2, <3>2 DEF Safe, TableOK, RowOK, Fits
    <3> HIDE DEF row
    <3>4. ASSUME NEW q \in Requests
          PROVE  InputOK(q)' /\ BuyerOK(q)'
      <4>1. CASE q = r
        BY <2>0, <2>2, <3>2, <3>3, <4>1 DEF Safe, FunctionsOK, InputOK, BuyerOK, row
      <4>2. CASE q # r
        BY <2>0, <2>2, <4>2 DEF Safe, FunctionsOK, InputOK, BuyerOK, Buys
      <4> QED
        BY <4>1, <4>2
    <3> QED
      BY <3>1, <3>4 DEF Safe
  <2> QED
    BY <1>5, <2>1, <2>2 DEF SelectEvent, Returns
<1>6. ASSUME NEW r \in Requests, UpdateEvent(r) \/ UpdateReplyLost(r)
      PROVE  Safe'
  BY <1>6, WriteSafe DEF UpdateEvent, UpdateReplyLost, Returns
<1>7. ASSUME NEW r \in Requests, Answer(r)
      PROVE  Safe'
  <2>1. pc' = [pc EXCEPT ![r] = "done"] /\ UNCHANGED <<op, table, seen>>
    BY <1>7 DEF Answer
  <2> QED
    BY <2>1, LeavesSafe DEF Safe, FunctionsOK
<1>8. CASE UNCHANGED <<table, pc, op, seen>>
  BY <1>8 DEF Safe, FunctionsOK, TableOK, InputOK, BuyerOK, Buys
<1> QED
  BY <1>1, <1>2, <1>3, <1>4, <1>5, <1>6, <1>7, <1>8
     DEF Next, Serve, TimeoutPasses, AllAnswered, vars

(* Safe is an invariant. *)
LEMMA SafeHolds == Spec => []Safe
BY SafeInit, SafeStep, PTL DEF Spec

(* tickets_left belongs to the sold_tickets written with it.               *)
THEOREM LeftHolds == Spec => []LeftMatchesSold
<1>1. Safe => LeftMatchesSold
  BY DEF Safe, TableOK, RowOK, LeftMatchesSold
<1> QED
  BY <1>1, SafeHolds, PTL

-----------------------------------------------------------------------------
(***************************************************************************)
(* The sales on record.  An event that is not there has sold nothing; what *)
(* is on record, and what a buyer has read, is no more than was taken; and *)
(* without overlap an event has one buyer at a time, whose row is fresh.   *)
(***************************************************************************)
Reader(r, e) == pc[r] = "read" /\ op[r].event = e

Tally ==
    /\ taken \in [Events -> Nat]
    /\ \A e \in Events : table[e] = NoRow => InitialRows[e] = NoRow /\ taken[e] = 0
    /\ OnlyWrittenSalesCount
    /\ \A r \in Requests : pc[r] = "read" =>
          /\ Buys(r)
          /\ seen[r].sold <= InitialSold(op[r].event) + taken[op[r].event]

Fresh ==
    /\ ExactWithoutOverlap
    /\ \A e \in Events \ overlapped : \A r \in Requests : Reader(r, e) =>
          /\ seen[r].sold = table[e].sold
          /\ \A q \in Requests : Reader(q, e) => q = r

Recorded == Safe /\ Tally /\ Fresh

(* What was sold is a number of tickets. *)
LEMMA SoldIsNat ==
    ASSUME Safe, NEW e \in Events
    PROVE  InitialSold(e) \in Nat /\ SoldNow(e) \in Nat
<1>1. InitialSold(e) \in Nat
  BY RowsAssumption DEF InitialSold, Rows
<1>2. SoldNow(e) \in Nat
  BY DEF Safe, TableOK, RowOK, Rows, SoldNow
<1> QED
  BY <1>1, <1>2

(* The rows of event.sql are on record as they are. *)
LEMMA RecordedInit == Init => Recorded
<1> SUFFICES ASSUME Init
             PROVE  Recorded
  OBVIOUS
<1>1. Safe
  BY SafeInit
<1>2. /\ table = InitialRows /\ taken \in [Events -> Nat]
      /\ \A e \in Events : taken[e] = 0
      /\ \A r \in Requests : pc[r] = "idle"
  BY DEF Init
<1>3. \A e \in Events : SoldNow(e) = InitialSold(e) /\ InitialSold(e) \in Nat
  BY <1>1, <1>2, SoldIsNat DEF SoldNow, InitialSold
<1>4. Tally
  BY <1>2, <1>3 DEF Tally, OnlyWrittenSalesCount
<1>5. Fresh
  BY <1>2, <1>3 DEF Fresh, ExactWithoutOverlap, Reader
<1> QED
  BY <1>1, <1>4, <1>5 DEF Recorded

(* A step after which its request is no buyer between its statements, and  *)
(* that leaves the table alone.                                            *)
LEMMA LeavesRecorded ==
    ASSUME Recorded, NEW r \in Requests, pc'[r] # "read",
           \A q \in Requests : q # r => pc'[q] = pc[q] /\ op'[q] = op[q],
           UNCHANGED <<table, seen, taken, overlapped>>
    PROVE  Tally' /\ Fresh'
<1>1. \A e : SoldNow(e)' = SoldNow(e)
  BY DEF SoldNow
<1>2. \A q \in Requests : pc'[q] = "read" =>
          q # r /\ pc[q] = "read" /\ op'[q] = op[q] /\ (Buys(q)' <=> Buys(q))
  BY DEF Buys
<1>3. \A e : \A q \in Requests : Reader(q, e)' => Reader(q, e)
  BY <1>2 DEF Reader
<1>4. Tally'
  BY <1>1, <1>2 DEF Recorded, Tally, OnlyWrittenSalesCount
<1>5. Fresh'
  BY <1>1, <1>3 DEF Recorded, Fresh, ExactWithoutOverlap
<1> QED
  BY <1>4, <1>5

(* A new event has no buyers. *)
LEMMA CreateRecorded ==
    ASSUME Recorded, NEW r \in Requests, CreateEvent(r)
    PROVE  Tally' /\ Fresh'
<1> DEFINE new == [total |-> op[r].total, sold |-> 0, left |-> Null]
<1>0. op[r].total \in Int
  BY DEF CreateEvent, Recorded, Safe, InputOK
<1>1. PICK e \in Events : table[e] = NoRow /\ table' = [table EXCEPT ![e] = new]
  BY DEF CreateEvent
<1>2. /\ UNCHANGED <<op, seen, taken, overlapped>>
      /\ pc' = [pc EXCEPT ![r] = "returning"]
  BY DEF CreateEvent, Returns, historyVars
<1>3. new.sold = 0 /\ new # NoRow
  BY <1>0, RowsAssumption, NullAssumption DEF Rows
<1> HIDE DEF new
<1>4. /\ DOMAIN table = Events
      /\ table'[e] = new
      /\ \A f \in Events : f # e => table'[f] = table[f]
  BY <1>1 DEF Recorded, Safe, TableOK
<1>5. \A f \in Events : SoldNow(f)' = SoldNow(f)
  BY <1>1, <1>3, <1>4 DEF SoldNow
<1>6. \A q \in Requests : pc'[q] = "read" =>
          /\ pc[q] = "read" /\ op'[q] = op[q] /\ (Buys(q)' <=> Buys(q))
          /\ op[q].event # e
  BY <1>1, <1>2 DEF Recorded, Safe, FunctionsOK, BuyerOK, Buys
<1>7. \A f : \A q \in Requests : Reader(q, f)' => Reader(q, f) /\ f # e
  BY <1>6 DEF Reader
<1>8. Tally'
  BY <1>1, <1>2, <1>3, <1>4, <1>5, <1>6 DEF Recorded, Tally, OnlyWrittenSalesCount
<1>9. Fresh'
  BY <1>2, <1>4, <1>5, <1>7 DEF Recorded, Fresh, ExactWithoutOverlap
<1> QED
  BY <1>8, <1>9

(* A buyer that reads meets another only if the event is then overlapped.  *)
LEMMA SelectRecorded ==
    ASSUME Recorded, NEW r \in Requests, SelectEvent(r)
    PROVE  Tally' /\ Fresh'
<1>0. PICK e : e = op[r].event
  OBVIOUS
<1>1. /\ pc[r] = "admitted" /\ Buys(r) /\ UNCHANGED <<table, op, taken>>
  BY DEF SelectEvent
<1>2. CASE pc' = [pc EXCEPT ![r] = "returning"] /\ UNCHANGED <<seen, overlapped>>
  <2>1. pc'[r] # "read" /\ \A q \in Requests : q # r => pc'[q] = pc[q]
    BY <1>2 DEF Recorded, Safe, FunctionsOK
  <2> QED
    BY <1>1, <1>2, <2>1, LeavesRecorded
<1>3. CASE /\ pc' = [pc EXCEPT ![r] = "read"]
           /\ seen' = [seen EXCEPT ![r] = table[e]]
           /\ table[e] # NoRow
           /\ overlapped' = IF Reading(e) = {} THEN overlapped ELSE overlapped \union {e}
  <2>1. e \in Events
    BY <1>0, <1>1 DEF Recorded, Safe, InputOK
  <2>2. /\ pc'[r] = "read" /\ seen'[r] = table[e]
        /\ \A q \in Requests : q # r => pc'[q] = pc[q] /\ seen'[q] = seen[q]
    BY <1>3 DEF Recorded, Safe, FunctionsOK
  <2>3. \A f \in Events : SoldNow(f)' = SoldNow(f)
    BY <1>1 DEF SoldNow
  <2>4. table[e].sold = SoldNow(e)
    BY <1>3 DEF SoldNow
  <2>5. op[r].event = e
    BY <1>0
  <2>6. Tally'
    <3>1. ASSUME NEW q \in Requests, pc'[q] = "read"
          PROVE  /\ Buys(q)'
                 /\ seen'[q].sold <= InitialSold(op[q].event) + taken[op[q].event]
      <4>1. CASE q = r
        BY <1>1, <2>1, <2>2, <2>4, <2>5, <4>1 DEF Recorded, Tally, OnlyWrittenSalesCount, Buys
      <4>2. CASE q # r
        BY <1>1, <2>2, <3>1, <4>2 DEF Recorded, Tally, Buys
      <4> QED
        BY <4>1, <4>2
    <3>2. OnlyWrittenSalesCount'
      BY <1>1, <2>3 DEF Recorded, Tally, OnlyWrittenSalesCount
    <3> QED
      BY <1>1, <3>1, <3>2 DEF Recorded, Tally
  <2>7. \A q \in Requests : pc[q] = "read" => q \in Reading(op[q].event)
    BY DEF Recorded, Tally, Reading
  <2>8. ExactWithoutOverlap'
    BY <1>1, <1>3, <2>3 DEF Recorded, Fresh, ExactWithoutOverlap
  <2>9. ASSUME NEW f \in Events \ overlapped', NEW q \in Requests, Reader(q, f)'
        PROVE  /\ seen'[q].sold = table[f].sold
               /\ \A p \in Requests : Reader(p, f)' => p = q
    <3>1. f \notin overlapped
      BY <1>3, <2>9
    <3>2. CASE f = e
      <4>1. Reading(e) = {}
        BY <1>3, <2>9, <3>2
      <4>2. \A p \in Requests : Reader(p, e)' => p = r
        BY <1>1, <2>2, <2>7, <4>1 DEF Reader
      <4> QED
        BY <2>2, <2>9, <3>2, <4>2
    <3>3. CASE f # e
      <4>1. \A p \in Requests : Reader(p, f)' => p # r /\ Reader(p, f)
        BY <1>1, <2>2, <2>5, <3>3 DEF Reader
      <4> QED
        BY <2>2, <2>9, <3>1, <4>1 DEF Recorded, Fresh
    <3> QED
      BY <3>2, <3>3
  <2>10. Fresh'
    BY <1>1, <2>8, <2>9 DEF Fresh
  <2> QED
    BY <2>6, <2>10
<1> QED
  BY <1>0, <1>2, <1>3 DEF SelectEvent, Returns

(* A buyer whose event is not overlapped adds to the sum it has read. *)
LEMMA WriteRecorded ==
    ASSUME Recorded, NEW r \in Requests, pc[r] = "read", WriteSold(r),
           pc' = [pc EXCEPT ![r] = "returning"],
           UNCHANGED <<op, seen, overlapped>>
    PROVE  Tally' /\ Fresh'
<1>0. PICK e, qty : e = op[r].event /\ qty = op[r].qty
  OBVIOUS
<1>n. PICK new : new = SoldRow(table[e], seen[r], qty)
  OBVIOUS
<1>1. /\ e \in Events /\ qty \in Nat /\ seen[r].sold \in Nat
      /\ seen[r].sold <= InitialSold(e) + taken[e]
  BY <1>0 DEF Recorded, Safe, BuyerOK, Tally, Rows
<1>2. Safe'
  BY WriteSafe DEF Recorded
<1>3. /\ table' = [table EXCEPT ![e] = new]
      /\ taken' = [taken EXCEPT ![e] = @ + qty]
  BY <1>0, <1>n DEF WriteSold
<1>4. new.sold = seen[r].sold + qty
  BY <1>n DEF SoldRow
<1>5. \A q \in Requests : pc'[q] = "read" => q # r /\ pc[q] = "read" /\ (Buys(q)' <=> Buys(q))
  BY DEF Recorded, Safe, FunctionsOK, Buys
<1>6. table[e] # NoRow /\ table'[e] # NoRow
  <2>1. table[e] # NoRow
    BY <1>0 DEF Recorded, Safe, BuyerOK
  <2>2. /\ table[e] \in Rows /\ seen[r] \in Rows
        /\ qty \in Int /\ qty > 0
        /\ table[e].total = seen[r].total
        /\ seen[r].sold + qty <= seen[r].total
    BY <1>0, <1>1, <2>1 DEF Recorded, Safe, BuyerOK, TableOK, RowOK
  <2>3. RowOK(new)
    BY <1>n, <2>2, SoldRowOK
  <2> QED
    BY <1>1, <1>3, <2>1, <2>3, RowsAssumption DEF Recorded, Safe, TableOK, RowOK
<1>7. /\ taken \in [Events -> Nat] /\ DOMAIN table = Events
      /\ \A f \in Events : InitialSold(f) \in Nat /\ SoldNow(f) \in Nat
  BY SoldIsNat DEF Recorded, Safe, TableOK, Tally
<1>8. /\ taken' \in [Events -> Nat]
      /\ taken'[e] = taken[e] + qty /\ table'[e] = new
      /\ \A f \in Events : f # e => taken'[f] = taken[f] /\ table'[f] = table[f]
  BY <1>1, <1>3, <1>7
<1>9. /\ SoldNow(e)' = seen[r].sold + qty
      /\ \A f \in Events : f # e => SoldNow(f)' = SoldNow(f)
  BY <1>1, <1>4, <1>6, <1>8 DEF SoldNow
<1>10. OnlyWrittenSalesCount'
  BY <1>1, <1>7, <1>8, <1>9 DEF Recorded, Tally, OnlyWrittenSalesCount
<1>11. ASSUME NEW q \in Requests, pc'[q] = "read"
       PROVE  /\ Buys(q)'
              /\ seen[q].sold <= InitialSold(op[q].event) + taken'[op[q].event]
  <2>1. /\ pc[q] = "read" /\ Buys(q) /\ op[q].event \in Events /\ seen[q].sold \in Nat
        /\ seen[q].sold <= InitialSold(op[q].event) + taken[op[q].event]
    BY <1>5, <1>11 DEF Recorded, Tally, Safe, BuyerOK, Rows
  <2> QED
    BY <1>1, <1>5, <1>7, <1>8, <1>11, <2>1
<1>12. Tally'
  <2>1. \A f \in Events : table'[f] = NoRow => InitialRows[f] = NoRow /\ taken'[f] = 0
    BY <1>6, <1>8 DEF Recorded, Tally
  <2> QED
    BY <1>8, <1>10, <1>11, <2>1 DEF Tally
<1>13. ASSUME NEW f \in Events \ overlapped
       PROVE  /\ SoldNow(f)' = InitialSold(f) + taken'[f]
              /\ \A q \in Requests : Reader(q, f)' =>
                    /\ seen[q].sold = table'[f].sold
                    /\ \A p \in Requests : Reader(p, f)' => p = q
  <2>1. \A q \in Requests : Reader(q, f)' => q # r /\ Reader(q, f)
    BY <1>5 DEF Reader
  <2>2. CASE f = e
    <3>1. Reader(r, e)
      BY <1>0 DEF Reader
    <3>2. /\ seen[r].sold = table[e].sold
          /\ \A q \in Requests : Reader(q, e) => q = r
      BY <1>13, <2>2, <3>1 DEF Recorded, Fresh
    <3>3. table[e].sold = InitialSold(e) + taken[e]
      BY <1>6, <1>13, <2>2 DEF Recorded, Fresh, ExactWithoutOverlap, SoldNow
    <3> QED
      BY <1>1, <1>7, <1>8, <1>9, <2>1, <2>2, <3>2, <3>3
  <2>3. CASE f # e
    BY <1>8, <1>9, <1>13, <2>1, <2>3 DEF Recorded, Fresh, ExactWithoutOverlap
  <2> QED
    BY <2>2, <2>3
<1>14. Fresh'
  BY <1>13 DEF Fresh, ExactWithoutOverlap
<1> QED
  BY <1>12, <1>14

(* Every step keeps the record. *)
LEMMA RecordedStep == Recorded /\ [Next]_vars => Recorded'
<1> SUFFICES ASSUME Recorded, [Next]_vars
             PROVE  Tally' /\ Fresh'
  BY SafeStep DEF Recorded
<1>1. ASSUME NEW r \in Requests, NEW step, step # "read", NEW o,
             pc' = [pc EXCEPT ![r] = step], op' = [op EXCEPT ![r] = o],
             UNCHANGED <<table, seen, taken, overlapped>>
      PROVE  Tally' /\ Fresh'
  <2>1. /\ pc'[r] # "read"
        /\ \A q \in Requests : q # r => pc'[q] = pc[q] /\ op'[q] = op[q]
    BY <1>1 DEF Recorded, Safe, FunctionsOK
  <2> QED
    BY <1>1, <2>1, LeavesRecorded
<1>2. ASSUME NEW r \in Requests, NEW o \in Ops,
             RejectInput(r, o) \/ Admit(r, o) \/ Unavailable(r, o)
      PROVE  Tally' /\ Fresh'
  BY <1>1, <1>2 DEF RejectInput, Admit, Unavailable, historyVars
<1>3. ASSUME NEW r \in Requests,
             DatabaseFails(r) \/ GetEvent(r) \/ GetAllEvents(r) \/ Answer(r)
      PROVE  Tally' /\ Fresh'
  <2>1. /\ \E step : step # "read" /\ pc' = [pc EXCEPT ![r] = step]
        /\ UNCHANGED <<op, table, seen, taken, overlapped>>
    BY <1>3 DEF DatabaseFails, GetEvent, GetAllEvents, Answer, Returns, historyVars
  <2>2. /\ pc'[r] # "read"
        /\ \A q \in Requests : q # r => pc'[q] = pc[q] /\ op'[q] = op[q]
    BY <2>1 DEF Recorded, Safe, FunctionsOK
  <2> QED
    BY <2>1, <2>2, LeavesRecorded
<1>4. ASSUME NEW r \in Requests, UpdateEvent(r) \/ UpdateReplyLost(r)
      PROVE  Tally' /\ Fresh'
  BY <1>4, WriteRecorded DEF UpdateEvent, UpdateReplyLost, Returns
<1>5. CASE UNCHANGED <<table, pc, op, seen, historyVars>>
  <2>1. /\ UNCHANGED <<table, pc, op, seen, taken, overlapped>>
        /\ \A e : SoldNow(e)' = SoldNow(e)
        /\ \A e, r : Reader(r, e)' <=> Reader(r, e)
        /\ \A r : Buys(r)' <=> Buys(r)
    BY <1>5 DEF historyVars, SoldNow, Reader, Buys
  <2>2. Tally'
    BY <2>1 DEF Recorded, Tally, OnlyWrittenSalesCount
  <2>3. Fresh'
    BY <2>1 DEF Recorded, Fresh, ExactWithoutOverlap
  <2> QED
    BY <2>2, <2>3
<1> QED
  BY <1>2, <1>3, <1>4, <1>5, CreateRecorded, SelectRecorded
     DEF Next, Serve, TimeoutPasses, AllAnswered, vars

(* Recorded is an invariant. *)
LEMMA RecordedHolds == Spec => []Recorded
BY RecordedInit, RecordedStep, PTL DEF Spec

(* No event has more sales on record than UPDATEs carried out took, for    *)
(* any number of buyers: what the breaker, a check or the database refused *)
(* adds nothing.                                                           *)
THEOREM WrittenHolds == Spec => []OnlyWrittenSalesCount
<1>1. Recorded => OnlyWrittenSalesCount
  BY DEF Recorded, Tally
<1> QED
  BY <1>1, RecordedHolds, PTL

(* Where no buyers overlapped, every sale taken is on record. *)
THEOREM ExactHolds == Spec => []ExactWithoutOverlap
<1>1. Recorded => ExactWithoutOverlap
  BY DEF Recorded, Fresh
<1> QED
  BY <1>1, RecordedHolds, PTL

(* An event is oversold only if two buyers of it have read its row before  *)
(* either wrote (UpdateTicketsSold): for any buyers, totals and failures,  *)
(* the UPDATEs carried out otherwise take no more tickets than it has.     *)
THEOREM OversellingNeedsOverlap == Spec => []OversoldOnlyByOverlap
<1>1. ASSUME Recorded, NEW e \in Events \ overlapped, taken[e] > 0
      PROVE  InitialSold(e) + taken[e] <= table[e].total
  <2>1. table[e] # NoRow
    BY <1>1 DEF Recorded, Tally
  <2>2. table[e].sold = InitialSold(e) + taken[e]
    BY <1>1, <2>1 DEF Recorded, Fresh, ExactWithoutOverlap, SoldNow
  <2>3. InitialSold(e) \in Nat /\ taken[e] \in Nat
    BY <1>1, SoldIsNat DEF Recorded, Tally
  <2> QED
    BY <1>1, <2>1, <2>2, <2>3 DEF Recorded, Safe, TableOK, RowOK
<1>2. Recorded => OversoldOnlyByOverlap
  BY <1>1 DEF OversoldOnlyByOverlap
<1> QED
  BY <1>2, RecordedHolds, PTL

-----------------------------------------------------------------------------
(***************************************************************************)
(* The breaker's slots.  What its call table must be for that, without the *)
(* counts and the state.                                                   *)
(***************************************************************************)
Slots ==
    /\ DOMAIN pc = Requests
    /\ call \in [Requests -> {"idle", "current", "stale"}]
    /\ SlotsMatchRequests

InMethod == {"admitted", "read", "returning"}

(* setState ends no call and begins none. *)
LEMMA GenerationKeepsCalls ==
    ASSUME NEW tab \in [Requests -> {"idle", "current", "stale"}]
    PROVE  /\ CB!NextGeneration(tab) \in [Requests -> {"idle", "current", "stale"}]
           /\ \A q \in Requests : CB!NextGeneration(tab)[q] = "idle" <=> tab[q] = "idle"
BY DEF CB!NextGeneration

(* An admission makes the call of its request run, and no other's. *)
LEMMA AdmissionTakesSlot ==
    ASSUME Slots, NEW r \in Requests, CB!BeforeRequest(r)
    PROVE  /\ call' \in [Requests -> {"idle", "current", "stale"}]
           /\ call'[r] # "idle"
           /\ \A q \in Requests : q # r => (call'[q] = "idle" <=> call[q] = "idle")
<1>1. /\ CB!NextGeneration(call) \in [Requests -> {"idle", "current", "stale"}]
      /\ \A q \in Requests : CB!NextGeneration(call)[q] = "idle" <=> call[q] = "idle"
  BY GenerationKeepsCalls DEF Slots
<1>2. \/ call' = [call EXCEPT ![r] = "current"]
      \/ call' = [CB!NextGeneration(call) EXCEPT ![r] = "current"]
  BY DEF CB!BeforeRequest, CB!BeforeRequestClosed, CB!BeforeRequestOpen, CB!BeforeRequestHalfOpen
<1> QED
  BY <1>1, <1>2 DEF Slots

(* Whatever the result and the generation, afterRequest ends the call of   *)
(* its request, and no other's.                                            *)
LEMMA ReportReturnsSlot ==
    ASSUME Slots, NEW r \in Requests, Reported(r)
    PROVE  /\ call' \in [Requests -> {"idle", "current", "stale"}]
           /\ call'[r] = "idle"
           /\ \A q \in Requests : q # r => (call'[q] = "idle" <=> call[q] = "idle")
<1>1. /\ CB!Idle(r) \in [Requests -> {"idle", "current", "stale"}]
      /\ CB!Idle(r)[r] = "idle"
      /\ \A q \in Requests : q # r => CB!Idle(r)[q] = call[q]
  BY DEF Slots, CB!Idle
<1>2. /\ CB!NextGeneration(CB!Idle(r)) \in [Requests -> {"idle", "current", "stale"}]
      /\ \A q \in Requests :
            CB!NextGeneration(CB!Idle(r))[q] = "idle" <=> CB!Idle(r)[q] = "idle"
  BY <1>1, GenerationKeepsCalls
<1>3. call' = CB!Idle(r) \/ call' = CB!NextGeneration(CB!Idle(r))
  BY DEF Reported, CB!AfterRequest, CB!AfterRequestStale, CB!OnSuccess, CB!OnFailure, CB!SetState
<1> QED
  BY <1>1, <1>2, <1>3

(* Every step keeps slots and requests in step. *)
LEMMA SlotsStep == Slots /\ [Next]_vars => Slots'
<1> SUFFICES ASSUME Slots, [Next]_vars
             PROVE  Slots'
  OBVIOUS
<1> USE DEF Slots, SlotsMatchRequests, CB!Running
<1>1. ASSUME NEW r \in Requests, NEW o \in Ops, RejectInput(r, o)
      PROVE  Slots'
  BY <1>1 DEF RejectInput, breakerVars
<1>2. ASSUME NEW r \in Requests, NEW o \in Ops, Unavailable(r, o)
      PROVE  Slots'
  BY <1>2 DEF Unavailable, CB!Refuse, CB!vars
<1>3. ASSUME NEW r \in Requests, NEW o \in Ops, Admit(r, o)
      PROVE  Slots'
  <2>1. CB!BeforeRequest(r) /\ pc' = [pc EXCEPT ![r] = "admitted"]
    BY <1>3 DEF Admit
  <2>2. /\ call' \in [Requests -> {"idle", "current", "stale"}]
        /\ call'[r] # "idle"
        /\ \A q \in Requests : q # r => (call'[q] = "idle" <=> call[q] = "idle")
    BY <2>1, AdmissionTakesSlot
  <2> QED
    BY <2>1, <2>2
<1>4. ASSUME NEW r \in Requests, NEW step \in InMethod,
             pc[r] \in InMethod, pc' = [pc EXCEPT ![r] = step], UNCHANGED breakerVars
      PROVE  Slots'
  BY <1>4 DEF InMethod, breakerVars
<1>5. ASSUME NEW r \in Requests,
             DatabaseFails(r) \/ GetEvent(r) \/ GetAllEvents(r) \/ CreateEvent(r)
               \/ SelectEvent(r) \/ UpdateEvent(r) \/ UpdateReplyLost(r)
      PROVE  Slots'
  <2>1. /\ pc[r] \in InMethod
        /\ UNCHANGED breakerVars
        /\ \E step \in InMethod : pc' = [pc EXCEPT ![r] = step]
    BY <1>5 DEF InMethod, DatabaseFails, GetEvent, GetAllEvents, CreateEvent, SelectEvent,
                UpdateEvent, UpdateReplyLost, Returns
  <2> QED
    BY <2>1, <1>4
<1>6. ASSUME NEW r \in Requests, Answer(r)
      PROVE  Slots'
  <2>1. Reported(r) /\ pc' = [pc EXCEPT ![r] = "done"]
    BY <1>6 DEF Answer
  <2>2. /\ call' \in [Requests -> {"idle", "current", "stale"}]
        /\ call'[r] = "idle"
        /\ \A q \in Requests : q # r => (call'[q] = "idle" <=> call[q] = "idle")
    BY <2>1, ReportReturnsSlot
  <2> QED
    BY <2>1, <2>2
<1>7. CASE UNCHANGED <<call, pc>>
  BY <1>7
<1> QED
  BY <1>1, <1>2, <1>3, <1>5, <1>6, <1>7
     DEF Next, Serve, TimeoutPasses, CB!TimeoutPasses, AllAnswered, vars, breakerVars

(* Each of the error returns of the handlers and of the repository gives   *)
(* back the breaker's slot, once (Execute).                                *)
THEOREM SlotsHold == Spec => []SlotsMatchRequests
<1>1. Init => Slots
  BY DEF Init, CB!Init, Slots, SlotsMatchRequests, CB!Running
<1>2. Slots => SlotsMatchRequests
  BY DEF Slots
<1> QED
  BY <1>1, <1>2, SlotsStep, PTL DEF Spec

-----------------------------------------------------------------------------
(***************************************************************************)
(* The service uses its breaker as circuitbreaker.go says it behaves: what *)
(* it does to the breaker is a behaviour of CircuitBreaker, whatever the   *)
(* handlers and the database do, and what is proved of the breaker with    *)
(* any callers holds of it.                                                *)
(***************************************************************************)
LEMMA BreakerSteps == [Next]_vars => [CB!Next]_(CB!vars)
<1> SUFFICES ASSUME [Next]_vars
             PROVE  CB!Next \/ UNCHANGED CB!vars
  OBVIOUS
<1>1. ASSUME NEW r \in Requests, NEW o \in Ops, Admit(r, o) \/ Unavailable(r, o)
      PROVE  CB!Next
  BY <1>1 DEF Admit, Unavailable, CB!Next
<1>2. ASSUME NEW r \in Requests, Answer(r)
      PROVE  CB!Next
  <2>1. CB!Completes(r)
    BY <1>2 DEF Answer, Reported, CB!Completes
  <2> QED
    BY <2>1 DEF CB!Next
<1>3. CASE TimeoutPasses
  BY <1>3 DEF TimeoutPasses, CB!Next
<1>4. CASE UNCHANGED breakerVars
  BY <1>4 DEF breakerVars, CB!vars
<1> QED
  BY <1>1, <1>2, <1>3, <1>4
     DEF Next, Serve, RejectInput, DatabaseFails, GetEvent, GetAllEvents, CreateEvent,
         SelectEvent, UpdateEvent, UpdateReplyLost, AllAnswered, vars, breakerVars

(* What the event service does to its breaker is what its callers may do   *)
(* by circuitbreaker.go (event_repository.go: every method is one Execute).*)
THEOREM BreakerFollowed == Spec => CB!Spec
<1>1. Init => CB!Init
  BY DEF Init
<1> QED
  BY <1>1, BreakerSteps, PTL DEF Spec, CB!Spec

(* The breaker of this service is the one of CircuitBreaker_proofs. *)
LEMMA SameBreaker == [CB!Next]_(CB!vars) => [Breaker!Next]_(Breaker!vars)
BY DEF CB!Next, CB!vars, CB!BeforeRequest, CB!BeforeRequestClosed, CB!BeforeRequestOpen,
       CB!BeforeRequestHalfOpen, CB!Refuse, CB!TimeoutOver, CB!TimeoutPasses, CB!Completes,
       CB!AfterRequest, CB!AfterRequestStale, CB!SameGeneration, CB!OnSuccess, CB!OnFailure,
       CB!SetState, CB!Idle, CB!Running, CB!NextGeneration, CB!ProbesSpent, CB!ProbesPassed,
       CB!ReadyToTrip, CB!ResetCounts, CB!ZeroCounts, CB!CountSuccess, CB!CountFailure, CB!Forgive,
       Breaker!Next, Breaker!vars, Breaker!BeforeRequest, Breaker!BeforeRequestClosed,
       Breaker!BeforeRequestOpen, Breaker!BeforeRequestHalfOpen, Breaker!Refuse,
       Breaker!TimeoutOver, Breaker!TimeoutPasses, Breaker!Completes, Breaker!AfterRequest,
       Breaker!AfterRequestStale, Breaker!SameGeneration, Breaker!OnSuccess, Breaker!OnFailure,
       Breaker!SetState, Breaker!Idle, Breaker!Running, Breaker!NextGeneration,
       Breaker!ProbesSpent, Breaker!ProbesPassed, Breaker!ReadyToTrip, Breaker!ResetCounts,
       Breaker!ZeroCounts, Breaker!CountSuccess, Breaker!CountFailure, Breaker!Forgive

(* So its inductive invariant is one of the service. *)
LEMMA BreakerInvariant == Spec => [](Breaker!TypeOK /\ Breaker!Accounts)
<1>1. Breaker!IsFiniteSet(Requests)
  BY RequestsAssumption DEF IsFiniteSet, Breaker!IsFiniteSet
<1>2. Init => Breaker!TypeOK /\ Breaker!Accounts
  <2>1. Breaker!Init => Breaker!Accounts
    BY <1>1, BreakerAssumption, Breaker!AccountsInit
  <2>2. Init => Breaker!Init
    BY DEF Init, CB!Init, CB!ZeroCounts, Breaker!Init, Breaker!ZeroCounts
  <2>3. Breaker!Init => Breaker!TypeOK
    BY DEF Breaker!Init, Breaker!TypeOK, Breaker!States, Breaker!Counts, Breaker!ZeroCounts
  <2> QED
    BY <2>1, <2>2, <2>3
<1>3. Breaker!TypeOK /\ [Breaker!Next]_(Breaker!vars) => Breaker!TypeOK'
  BY <1>1, BreakerAssumption, Breaker!TypeStep
<1>4. Breaker!TypeOK /\ Breaker!Accounts /\ [Breaker!Next]_(Breaker!vars) => Breaker!Accounts'
  BY <1>1, BreakerAssumption, Breaker!AccountsStep
<1> QED
  BY <1>2, <1>3, <1>4, BreakerSteps, SameBreaker, PTL DEF Spec

(* The counts of the service's breaker agree with the methods that run, in *)
(* every state of it, whichever of the many returns they take.             *)
THEOREM BreakerAccounted == Spec => [](CB!ClosedAccounting /\ CB!ProbeAccounting)
<1>1. Breaker!Accounts => CB!ClosedAccounting /\ CB!ProbeAccounting
  BY DEF Breaker!Accounts, Breaker!ClosedAccounting, Breaker!ProbeAccounting, Breaker!InFlight,
         Breaker!Cardinality, CB!ClosedAccounting, CB!ProbeAccounting, CB!InFlight, CB!Cardinality,
         Cardinality
<1> QED
  BY <1>1, BreakerInvariant, PTL

(* A refusal in a half-open period is never for ever: there is a method    *)
(* inside that will close or open the breaker when it returns (Execute).   *)
THEOREM MethodsDecide == Spec => []SomeMethodDecides
<1>1. Breaker!IsFiniteSet(Requests)
  BY RequestsAssumption DEF IsFiniteSet, Breaker!IsFiniteSet
<1>2. Breaker!TypeOK /\ Breaker!Accounts => Breaker!SomeProbeDecides
  BY <1>1, BreakerAssumption, Breaker!SpentProbesRun
<1>3. ASSUME Breaker!SomeProbeDecides, SlotsMatchRequests
      PROVE  SomeMethodDecides
  <2> SUFFICES ASSUME state = "HalfOpen", CB!ProbesSpent(counts)
               PROVE  \E r \in Requests :
                         call[r] = "current" /\ pc[r] \in {"admitted", "read", "returning"}
    BY DEF SomeMethodDecides
  <2>1. PICK r \in Requests : call[r] = "current"
    BY <1>3 DEF Breaker!SomeProbeDecides, Breaker!ProbesSpent, Breaker!InFlight, CB!ProbesSpent
  <2> QED
    BY <1>3, <2>1 DEF SlotsMatchRequests, CB!Running
<1> QED
  BY <1>2, <1>3, BreakerInvariant, SlotsHold, PTL

-----------------------------------------------------------------------------
(***************************************************************************)
(* The types of the table and of what a request knows.                     *)
(***************************************************************************)
Shape ==
    /\ table \in [Events -> Rows \union {NoRow}]
    /\ pc \in [Requests -> {"idle", "admitted", "read", "returning", "done"}]
    /\ op \in [Requests -> Ops \union {NoOp}]
    /\ seen \in [Requests -> Rows \union {NoRow}]
    /\ answer \in [Requests -> Answers]
    /\ overlapped \subseteq Events

(* A buyer that was let in asked for tickets of an event. *)
LEMMA BuyersAskForEvents ==
    ASSUME Shape, NEW r \in Requests, Buys(r)
    PROVE  op[r].event \in Events
BY DEF Shape, Buys, Ops, NoOp

(* The row an UPDATE leaves behind is a row. *)
LEMMA WrittenRow ==
    ASSUME Shape, Safe, NEW r \in Requests, pc[r] = "read", WriteSold(r)
    PROVE  table'[op[r].event] \in Rows
<1>1. /\ op[r].event \in Events /\ op[r].qty \in Int /\ op[r].qty > 0
      /\ seen[r] \in Rows /\ seen[r].sold + op[r].qty <= seen[r].total
      /\ table[op[r].event] # NoRow /\ table[op[r].event].total = seen[r].total
  BY DEF Safe, BuyerOK
<1>2. table[op[r].event] \in Rows
  BY <1>1 DEF Shape
<1>3. SoldRow(table[op[r].event], seen[r], op[r].qty) \in Rows
  BY <1>1, <1>2, SoldRowOK DEF RowOK
<1> QED
  BY <1>1, <1>3 DEF WriteSold, Shape

(* Each handler and each statement keeps the types. *)
LEMMA ShapeStep == Shape /\ Safe /\ [Next]_vars => Shape'
<1> SUFFICES ASSUME Shape, Safe, [Next]_vars
             PROVE  Shape'
  OBVIOUS
<1>1. ASSUME NEW r \in Requests, NEW o \in Ops,
             RejectInput(r, o) \/ Admit(r, o) \/ Unavailable(r, o)
      PROVE  Shape'
  BY <1>1 DEF Shape, RejectInput, Admit, Unavailable, Answers, historyVars
<1>2. ASSUME NEW r \in Requests,
             DatabaseFails(r) \/ GetEvent(r) \/ GetAllEvents(r) \/ Answer(r)
      PROVE  Shape'
  BY <1>2 DEF Shape, DatabaseFails, GetEvent, GetAllEvents, Answer, Returns, Answers, historyVars
<1>5. ASSUME NEW r \in Requests, UpdateEvent(r) \/ UpdateReplyLost(r)
      PROVE  Shape'
  <2>1. table' \in [Events -> Rows \union {NoRow}]
    <3>1. table'[op[r].event] \in Rows
      BY <1>5, WrittenRow DEF UpdateEvent, UpdateReplyLost
    <3> QED
      BY <1>5, <3>1 DEF Shape, UpdateEvent, UpdateReplyLost, WriteSold
  <2> QED
    BY <1>5, <2>1 DEF Shape, UpdateEvent, UpdateReplyLost, WriteSold, Returns, Answers
<1>6. ASSUME NEW r \in Requests, CreateEvent(r)
      PROVE  Shape'
  <2>1. [total |-> op[r].total, sold |-> 0, left |-> Null] \in Rows
    BY <1>6 DEF Rows, CreateEvent, Safe, InputOK
  <2> QED
    BY <1>6, <2>1 DEF Shape, CreateEvent, Returns, Answers, historyVars
<1>3. ASSUME NEW r \in Requests, SelectEvent(r)
      PROVE  Shape'
  <2>1. op[r].event \in Events
    BY <1>3, BuyersAskForEvents DEF SelectEvent
  <2>2. table[op[r].event] \in Rows \union {NoRow}
    BY <2>1 DEF Safe, TableOK, RowOK
  <2> QED
    BY <1>3, <2>1, <2>2 DEF Shape, SelectEvent, Returns, Answers
<1>4. CASE TimeoutPasses \/ UNCHANGED vars
  BY <1>4 DEF Shape, TimeoutPasses, historyVars, vars
<1> QED
  BY <1>1, <1>2, <1>3, <1>4, <1>5, <1>6 DEF Next, Serve, AllAnswered

(* Tables, requests and the breaker keep their types: no count of the      *)
(* breaker goes below zero, and no row holds anything but numbers.         *)
THEOREM Typed == Spec => []TypeOK
<1>1. Init => Shape
  BY RowsAssumption DEF Init, Shape, Answers
<1>2. Shape /\ Recorded /\ Breaker!TypeOK => TypeOK
  <2> SUFFICES ASSUME Shape, Recorded, Breaker!TypeOK
               PROVE  TypeOK
    OBVIOUS
  <2>1. CB!TypeOK
    BY DEF CB!TypeOK, CB!States, CB!Counts, Breaker!TypeOK, Breaker!States, Breaker!Counts
  <2>2. taken \in [Events -> Nat]
    BY DEF Recorded, Tally
  <2> QED
    BY <2>1, <2>2 DEF TypeOK, Shape
<1>3. Recorded => Safe
  BY DEF Recorded
<1> QED
  BY <1>1, <1>2, <1>3, ShapeStep, RecordedHolds, BreakerInvariant, PTL DEF Spec

=============================================================================
