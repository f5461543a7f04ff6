--------------------------- MODULE CommerceProofs ---------------------------
(***************************************************************************)
(* Theorems about modules Orders, OrderModeration and Commerce, for every  *)
(* set of orders, types, users, carts and desk sessions.  The orders:      *)
(* OrderInv is the inductive invariant; each action has a lemma that it    *)
(* preserves it, which the desk's proofs reuse.  The desk: what checkout   *)
(* promises survives any number of desk sessions that act on rows they     *)
(* loaded before; the desk refines the orders' life cycle, and does so to  *)
(* the letter when one session works at a time (OneSession).  The          *)
(* composition: orders, desk and payments refine the orders and the desk   *)
(* on their own, so the life cycle too; nobody gets seats that were not    *)
(* paid for, and money that went back is booked (ReturnInv).               *)
(***************************************************************************)
EXTENDS Commerce, SumLemmas, FiniteSetTheorems, TLAPS

----------------------------------------------------------------------------
(* The orders (module Orders) *)

(* What a status says about the rest of the order's rows. *)
SettledStatus == {"paid", "refunded"}

\* An order has items exactly when it exists, and only carts a request may ask for.
CartsOK == \A o \in Orders : /\ cart[o] \in Carts \cup {{}}
                             /\ status[o] = "none" <=> cart[o] = {}

\* A request that has not reserved yet has no order.
RequestsOK == \A o \in Orders : stage[o] \in {"new", "admitted"} => status[o] = "none"

\* The issued seats are those of the settled orders' items.
SeatsOK == \A s \in Seats :
             ticket[s] # "none" <=> /\ status[s[1]] \in SettledStatus
                                    /\ s[2] \in cart[s[1]]

\* One sale entry per settled order.
SalesOK == \A o \in Orders :
             ledger[o].sale = IF status[o] \in SettledStatus THEN 1 ELSE 0

HoldsOK == \A o \in Orders : hold[o] # 0 => status[o] = "pending"

FirstSaleOK == /\ \A o \in firstSale : status[o] \in SettledStatus
               /\ (\E o \in Orders : status[o] \in SettledStatus) => firstSale # {}

OrderInv == /\ OrdersTypeOK
            /\ CartsOK /\ RequestsOK /\ SeatsOK /\ SalesOK /\ HoldsOK /\ FirstSaleOK

----------------------------------------------------------------------------
(* Finiteness *)

\* The slots of a cart are finitely many.
LEMMA SlotFinite == IsFiniteSet(Slot)
<1> DEFINE T == (Lines \X Types) \X (1..MaxQty)
           f == [x \in T |-> [line |-> x[1][1], type |-> x[1][2], n |-> x[2]]]
<1>1. IsFiniteSet(1..MaxQty)
  BY FS_Interval, TicketsAssumption
<1>2. IsFiniteSet(T)
  BY <1>1, FS_Product, TicketsAssumption
<1>3. f \in Surjection(T, Slot)
  <2>1. f \in [T -> Slot]
    BY DEF Slot
  <2>2. ASSUME NEW y \in Slot PROVE \E x \in T : f[x] = y
    <3>1. <<<<y.line, y.type>>, y.n>> \in T
      BY DEF Slot
    <3>2. f[<<<<y.line, y.type>>, y.n>>] = y
      BY <3>1 DEF Slot
    <3> QED BY <3>1, <3>2
  <2> QED BY <2>1, <2>2 DEF Surjection
<1> HIDE DEF f
<1> QED BY <1>2, <1>3, FS_Surjection

\* The issued-ticket counts are numbers: every set of seats is finite.
LEMMA SeatsCount ==
  ASSUME NEW S \in SUBSET Seats
  PROVE  IsFiniteSet(S) /\ Cardinality(S) \in Nat
<1>1. IsFiniteSet(Seats)
  BY SlotFinite, FS_Product, TicketsAssumption DEF Seats
<1>2. IsFiniteSet(S)
  BY <1>1, FS_Subset
<1> QED BY <1>2, FS_CardinalityType

SlotPrice == [x \in Slot |-> Price[x.type]]

\* A subtotal is a sum over the cart's slots, whatever order they are added in.
LEMMA SubtotalIsSum ==
  ASSUME NEW c \in SUBSET Slot
  PROVE  Subtotal(c) = SumOver(SlotPrice, c)
<1> DEFINE G(h) == h = [s \in SUBSET c |->
                          IF s = {} THEN 0 ELSE Price[Pick(s).type] + h[s \ {Pick(s)}]]
<1>1. \A s \in SUBSET c : s # {} => SlotPrice[Pick(s)] = Price[Pick(s).type]
  BY PickIn DEF SlotPrice
<1>2. ASSUME NEW h PROVE G(h) <=> IsRunningSum(h, SlotPrice, c)
  BY <1>1 DEF IsRunningSum
<1>3. (CHOOSE h : G(h)) = RunningSum(SlotPrice, c)
  <2> HIDE DEF G
  <2> QED BY <1>2, Zenon DEF RunningSum
<1>4. Subtotal(c) = (CHOOSE h : G(h))[c]
  BY DEF Subtotal, MapThenSumSet, MapThenFoldSet, Pick
<1> QED BY <1>3, <1>4, SumIsRunningSum

\* A price in minor units is a natural number, so a subtotal is one.
LEMMA SubtotalNat ==
  ASSUME NEW c \in SUBSET Slot
  PROVE  Subtotal(c) \in Nat
<1>1. IsFiniteSet(c)
  BY SlotFinite, FS_Subset
<1>2. \A x \in c : SlotPrice[x] \in Nat
  BY OrdersAssumption DEF SlotPrice, Slot
<1> QED BY <1>1, <1>2, SubtotalIsSum, SumNat

\* An order's seats, and those of one type, can be counted.
LEMMA OrderSeatsCount ==
  ASSUME CartsOK, NEW o \in Orders
  PROVE  /\ SeatsOf(o) \in SUBSET Seats
         /\ Cardinality(SeatsOf(o)) \in Nat
         /\ \A t \in Types : Cardinality(OfType(SeatsOf(o), t)) \in Nat
         /\ Subtotal(cart[o]) \in Nat
<1>1. cart[o] \in SUBSET Slot
  BY OrdersAssumption DEF CartsOK
<1>2. SeatsOf(o) \in SUBSET Seats
  BY <1>1 DEF SeatsOf, Seats
<1>3. Cardinality(SeatsOf(o)) \in Nat
  BY <1>2, SeatsCount
<1>4. ASSUME NEW t \in Types PROVE Cardinality(OfType(SeatsOf(o), t)) \in Nat
  <2>1. OfType(SeatsOf(o), t) \in SUBSET Seats
    BY <1>2 DEF OfType
  <2> QED BY <2>1, SeatsCount
<1>5. Subtotal(cart[o]) \in Nat
  BY <1>1, SubtotalNat
<1> QED BY <1>2, <1>3, <1>4, <1>5

----------------------------------------------------------------------------
(* The actions *)

\* A request is admitted before anything of its order exists.
LEMMA AdmitInv ==
  ASSUME OrderInv, NEW o \in Orders, NEW u \in Users, Admit(o, u)
  PROVE  OrderInv'
<1>1. OrdersTypeOK'
  BY DEF OrderInv, OrdersTypeOK, TicketsTypeOK, Admit, Stage, ticketVars
<1>2. (CartsOK /\ RequestsOK /\ SeatsOK /\ SalesOK /\ HoldsOK /\ FirstSaleOK)'
  BY DEF OrderInv, OrdersTypeOK, CartsOK, RequestsOK, SeatsOK, SalesOK, HoldsOK,
         FirstSaleOK, Admit, ticketVars, Stage
<1> QED BY <1>1, <1>2 DEF OrderInv

\* A reservation creates a pending order, its items and its hold.
LEMMA ReserveInv ==
  ASSUME OrderInv, NEW o \in Orders, NEW c \in Carts, Reserve(o, c)
  PROVE  OrderInv' /\ status[o] = "none" /\ status' = [status EXCEPT ![o] = "pending"]
<1>1. status[o] = "none" /\ cart[o] = {}
  BY DEF OrderInv, RequestsOK, CartsOK, Reserve
<1>2. OrdersTypeOK'
  BY OrdersAssumption, TicketsAssumption
     DEF OrderInv, OrdersTypeOK, TicketsTypeOK, Reserve, Stage, OrderStatus, ticketVars
<1>3. (CartsOK /\ RequestsOK /\ SalesOK /\ HoldsOK)'
  BY <1>1 DEF OrderInv, OrdersTypeOK, TicketsTypeOK, CartsOK, RequestsOK, SalesOK, HoldsOK,
         Reserve, SettledStatus
<1>4. SeatsOK'
  BY <1>1 DEF OrderInv, OrdersTypeOK, TicketsTypeOK, SeatsOK, Seats, Reserve,
         ticketVars, SettledStatus
<1>5. FirstSaleOK'
  BY <1>1 DEF OrderInv, OrdersTypeOK, FirstSaleOK, Reserve, SettledStatus
<1> QED BY <1>1, <1>2, <1>3, <1>4, <1>5 DEF OrderInv, Reserve

\* The payment part of a checkout touches the order's payment link only.
LEMMA PayingInv ==
  ASSUME OrderInv, NEW o \in Orders,
         StartPayment(o) \/ StartFails(o) \/ LinkPayment(o)
  PROVE  OrderInv'
<1>1. /\ UNCHANGED <<now, cart, ticketVars, status, buyer, hold, revenue, ledger,
                     firstSale, late, sweep, crashes>>
      /\ stage' \in {[stage EXCEPT ![o] = "paying"], [stage EXCEPT ![o] = "closed"]}
      /\ payRow' \in {payRow, [payRow EXCEPT ![o] = "created"],
                       [payRow EXCEPT ![o] = "linked"]}
  BY DEF StartPayment, StartFails, LinkPayment, orderVars
<1>2. OrdersTypeOK'
  BY <1>1 DEF OrderInv, OrdersTypeOK, TicketsTypeOK, Stage, PayRow, ticketVars
<1>3. (CartsOK /\ RequestsOK /\ SeatsOK /\ SalesOK /\ HoldsOK /\ FirstSaleOK)'
  BY <1>1 DEF OrderInv, OrdersTypeOK, CartsOK, RequestsOK, SeatsOK, SalesOK, HoldsOK,
         FirstSaleOK, ticketVars
<1> QED BY <1>2, <1>3 DEF OrderInv

\* Fulfilment issues the order's seats in the step that pays it.  This lemma is
\* stated for every way of asking for it: the caller leaves requests alone or
\* closes its own.
LEMMA FulfillInv ==
  ASSUME OrderInv, NEW o \in Orders, Fulfill(o),
         stage' = stage \/ stage' = [stage EXCEPT ![o] = "closed"],
         UNCHANGED <<sweep, crashes>>
  PROVE  OrderInv'
<1> USE DEF OrderInv, SettledStatus
<1>1. status[o] = "pending" /\ cart[o] # {} /\ status \in [Orders -> OrderStatus \cup {"none"}]
  BY DEF Fulfill, CartsOK, OrdersTypeOK
<1>2. status' = [status EXCEPT ![o] = "paid"] /\ cart' = cart
  BY DEF Fulfill
<1>3. TicketsTypeOK'
  <2>1. ticket' \in [Seats -> TicketStatus \cup {"none"}]
    BY DEF OrdersTypeOK, TicketsTypeOK, Fulfill, IssueForOrder, SetSeats, TicketStatus
  <2>2. soldCount' \in [Types -> Nat]
    BY OrderSeatsCount DEF OrdersTypeOK, TicketsTypeOK, Fulfill, IssueForOrder
  <2>3. ticketsSold' \in Nat
    BY OrderSeatsCount DEF OrdersTypeOK, TicketsTypeOK, Fulfill, IssueForOrder
  <2> QED BY <2>1, <2>2, <2>3 DEF OrdersTypeOK, TicketsTypeOK, Fulfill
<1>4. revenue' \in Nat
  BY OrderSeatsCount DEF OrdersTypeOK, Fulfill
<1>5. ledger' \in [Orders -> [sale : Nat, refund : Nat]]
  BY DEF OrdersTypeOK, Fulfill, RecordSale
<1>6. OrdersTypeOK'
  BY <1>2, <1>3, <1>4, <1>5
     DEF OrdersTypeOK, Fulfill, Stage, OrderStatus, LiveHold
<1>7. (CartsOK /\ RequestsOK /\ HoldsOK)'
  BY <1>1, <1>2 DEF CartsOK, RequestsOK, HoldsOK, OrdersTypeOK, Fulfill
<1>8. SalesOK'
  BY <1>1, <1>2 DEF SalesOK, Fulfill, RecordSale, OrdersTypeOK
<1>9. SeatsOK'
  <2>1. ASSUME NEW s \in Seats
        PROVE  ticket'[s] # "none" <=> (status'[s[1]] \in SettledStatus /\ s[2] \in cart'[s[1]])
    <3>1. s[1] \in Orders /\ s = <<s[1], s[2]>>
      BY DEF Seats
    <3>2. ticket'[s] = IF s \in SeatsOf(o) THEN "valid" ELSE ticket[s]
      BY DEF Fulfill, IssueForOrder, SetSeats
    <3>3. s \in SeatsOf(o) <=> s[1] = o /\ s[2] \in cart[o]
      BY <3>1 DEF SeatsOf
    <3>4. CASE s[1] = o
      <4>1. ticket[s] = "none"
        BY <1>1, <3>4 DEF SeatsOK
      <4> QED BY <1>1, <1>2, <3>2, <3>3, <3>4, <4>1
    <3>5. CASE s[1] # o
      BY <1>1, <1>2, <3>1, <3>2, <3>3, <3>5 DEF SeatsOK
    <3> QED BY <3>4, <3>5
  <2> QED BY <2>1 DEF SeatsOK
<1>10. FirstSaleOK'
  BY <1>1, <1>2 DEF FirstSaleOK, Fulfill, OrdersTypeOK
<1> QED BY <1>6, <1>7, <1>8, <1>9, <1>10

\* A cancellation drops a pending order's hold.
LEMMA CancelInv ==
  ASSUME OrderInv, NEW o \in Orders, CancelOrder(o),
         stage' = stage, sweep' \subseteq sweep, crashes' = crashes
  PROVE  OrderInv'
<1> USE DEF OrderInv, SettledStatus
<1>1. /\ status[o] = "pending" /\ cart[o] # {}
      /\ status' = [status EXCEPT ![o] = "cancelled"]
      /\ hold' = [hold EXCEPT ![o] = 0]
      /\ UNCHANGED <<now, cart, ticketVars, buyer, payRow, revenue, ledger,
                     firstSale, late>>
  BY DEF CancelOrder, CartsOK
<1>2. OrdersTypeOK'
  BY <1>1 DEF OrdersTypeOK, TicketsTypeOK, ticketVars, OrderStatus
<1>3. (CartsOK /\ RequestsOK /\ SeatsOK /\ SalesOK /\ HoldsOK /\ FirstSaleOK)'
  BY <1>1 DEF OrdersTypeOK, CartsOK, RequestsOK, SeatsOK, SalesOK, HoldsOK, FirstSaleOK,
         ticketVars, Seats
<1> QED BY <1>2, <1>3

\* The cron jobs, the clock and a crash settle nothing: they may only drop
\* holds, stale-order lists and requests.
LEMMA IdleInv ==
  ASSUME OrderInv,
         ExpireHolds \/ ReadStale \/ Tick \/ CrashRequests
  PROVE  OrderInv'
<1> USE DEF OrderInv
<1>1. CASE ExpireHolds
  BY <1>1 DEF ExpireHolds, OrdersTypeOK, TicketsTypeOK, ticketVars, requestVars, CartsOK,
         RequestsOK, SeatsOK, SalesOK, HoldsOK, FirstSaleOK
<1>2. CASE ReadStale
  BY <1>2 DEF ReadStale, OrdersTypeOK, TicketsTypeOK, ticketVars, orderVars, CartsOK,
         RequestsOK, SeatsOK, SalesOK, HoldsOK, FirstSaleOK
<1>3. CASE Tick
  BY <1>3, TicketsAssumption
     DEF Tick, OrdersTypeOK, TicketsTypeOK, ticketVars, orderVars, requestVars, CartsOK,
         RequestsOK, SeatsOK, SalesOK, HoldsOK, FirstSaleOK
<1>4. CASE CrashRequests
  <2>1. stage' \in [Orders -> Stage]
    BY <1>4 DEF CrashRequests, OrdersTypeOK, Stage
  <2>2. crashes' \in 0..MaxCrashes
    BY <1>4, OrdersAssumption DEF CrashRequests, OrdersTypeOK
  <2>3. \A o \in Orders : stage'[o] \in {"new", "admitted"} => stage[o] \in {"new", "admitted"}
    BY <1>4 DEF CrashRequests, OrdersTypeOK, Stage
  <2>4. OrdersTypeOK'
    BY <1>4, <2>1, <2>2 DEF CrashRequests, OrdersTypeOK, TicketsTypeOK, ticketVars, orderVars
  <2>5. (CartsOK /\ RequestsOK /\ SeatsOK /\ SalesOK /\ HoldsOK /\ FirstSaleOK)'
    BY <1>4, <2>3 DEF CrashRequests, ticketVars, orderVars, CartsOK,
         RequestsOK, SeatsOK, SalesOK, HoldsOK, FirstSaleOK
  <2> QED BY <2>4, <2>5
<1> QED BY <1>1, <1>2, <1>3, <1>4

\* Only a valid ticket is scanned, so the issued seats stay the same.
LEMMA ScanInv ==
  ASSUME OrderInv, NEW s \in Seats, Scan(s)
  PROVE  OrderInv'
<1> USE DEF OrderInv, Scan, ScanByCode, SetSeats, orderVars, requestVars
<1>1. ticket' \in [Seats -> TicketStatus \cup {"none"}]
  BY DEF OrdersTypeOK, TicketsTypeOK, TicketStatus
<1>2. OrdersTypeOK'
  BY <1>1 DEF OrdersTypeOK, TicketsTypeOK
<1>3. \A x \in Seats : ticket'[x] # "none" <=> ticket[x] # "none"
  OBVIOUS
<1>4. (CartsOK /\ RequestsOK /\ SeatsOK /\ SalesOK /\ HoldsOK /\ FirstSaleOK)'
  BY <1>3 DEF CartsOK, RequestsOK, SeatsOK, SalesOK, HoldsOK, FirstSaleOK
<1> QED BY <1>2, <1>4

----------------------------------------------------------------------------
(* The invariant *)

\* An order moves forward by one of these steps, or not at all.
StatusStep ==
  \/ status' = status
  \/ \E o \in Orders :
       \/ status[o] = "none" /\ status' = [status EXCEPT ![o] = "pending"]
       \/ status[o] = "pending" /\ status' = [status EXCEPT ![o] = "paid"]
       \/ status[o] = "pending" /\ status' = [status EXCEPT ![o] = "cancelled"]

\* No step of module Orders books a refund.
RefundsKept == \A o \in Orders : ledger'[o].refund = ledger[o].refund

\* The invariant holds of an empty shop.
LEMMA InitInv == OrdersInit => OrderInv /\ \A o \in Orders : ledger[o].refund = 0
<1> SUFFICES ASSUME OrdersInit PROVE OrderInv /\ \A o \in Orders : ledger[o].refund = 0
  OBVIOUS
<1>1. OrdersTypeOK
  BY OrdersAssumption, TicketsAssumption
     DEF OrdersInit, TicketsInit, OrdersTypeOK, TicketsTypeOK, Stage, PayRow
<1>2. CartsOK /\ RequestsOK /\ SeatsOK /\ SalesOK /\ HoldsOK /\ FirstSaleOK
  BY DEF OrdersInit, TicketsInit, CartsOK, RequestsOK, SeatsOK, SalesOK, HoldsOK,
         FirstSaleOK, SettledStatus, Seats
<1> QED BY <1>1, <1>2 DEF OrderInv, OrdersInit

\* Every step of checkout, fulfilment, cancellation, cron job, gate, clock and
\* crash preserves the invariant and moves at most one order, forward.
LEMMA StepInv ==
  ASSUME OrderInv, OrdersStep \/ CrashRequests
  PROVE  OrderInv' /\ StatusStep /\ RefundsKept
<1>1. ASSUME NEW o \in Orders, NEW u \in Users, Admit(o, u)
      PROVE  OrderInv' /\ StatusStep /\ RefundsKept
  BY <1>1, AdmitInv DEF Admit, StatusStep, RefundsKept
<1>2. ASSUME NEW o \in Orders, NEW c \in Carts, Reserve(o, c)
      PROVE  OrderInv' /\ StatusStep /\ RefundsKept
  BY <1>2, ReserveInv DEF Reserve, StatusStep, RefundsKept
<1>3. ASSUME NEW o \in Orders, StartPayment(o) \/ StartFails(o) \/ LinkPayment(o)
      PROVE  OrderInv' /\ StatusStep /\ RefundsKept
  <2>1. OrderInv'
    BY <1>3, PayingInv
  <2> QED BY <1>3, <2>1
        DEF StartPayment, StartFails, LinkPayment, orderVars, StatusStep, RefundsKept
<1>4. ASSUME NEW o \in Orders, FulfillFree(o) \/ PaymentSucceeded(o)
      PROVE  OrderInv' /\ StatusStep /\ RefundsKept
  <2>1. /\ Fulfill(o)
        /\ stage' = stage \/ stage' = [stage EXCEPT ![o] = "closed"]
        /\ UNCHANGED <<sweep, crashes>>
    BY <1>4 DEF FulfillFree, PaymentSucceeded, requestVars
  <2>2. OrderInv'
    BY <2>1, FulfillInv
  <2>3. StatusStep
    BY <2>1 DEF Fulfill, StatusStep
  <2>4. RefundsKept
    BY <2>1 DEF Fulfill, RecordSale, RefundsKept, OrderInv, OrdersTypeOK
  <2> QED BY <2>2, <2>3, <2>4
<1>5. ASSUME NEW o \in Orders, Cancel(o) \/ CancelStale(o)
      PROVE  OrderInv' /\ StatusStep /\ RefundsKept
  <2>1. CASE CancelOrder(o)
    <3>1. stage' = stage /\ sweep' \subseteq sweep /\ crashes' = crashes
      BY <1>5 DEF Cancel, CancelStale, requestVars
    <3>2. OrderInv'
      BY <2>1, <3>1, CancelInv
    <3> QED BY <2>1, <3>2 DEF CancelOrder, StatusStep, RefundsKept
  <2>2. CASE ~CancelOrder(o)
    <3>1. /\ UNCHANGED <<now, cart, ticketVars, orderVars, stage, crashes>>
          /\ sweep' \subseteq sweep
      BY <1>5, <2>2 DEF Cancel, CancelStale
    <3> QED BY <3>1
          DEF OrderInv, OrdersTypeOK, TicketsTypeOK, ticketVars, orderVars, CartsOK,
              RequestsOK, SeatsOK, SalesOK, HoldsOK, FirstSaleOK, StatusStep, RefundsKept
  <2> QED BY <2>1, <2>2
<1>6. ASSUME NEW s \in Seats, Scan(s)
      PROVE  OrderInv' /\ StatusStep /\ RefundsKept
  BY <1>6, ScanInv DEF Scan, orderVars, StatusStep, RefundsKept
<1>7. ASSUME ExpireHolds \/ ReadStale \/ Tick \/ CrashRequests
      PROVE  OrderInv' /\ StatusStep /\ RefundsKept
  <2>1. OrderInv'
    BY <1>7, IdleInv
  <2> QED BY <1>7, <2>1
        DEF ExpireHolds, ReadStale, Tick, CrashRequests, orderVars, StatusStep, RefundsKept
<1> QED BY <1>1, <1>2, <1>3, <1>4, <1>5, <1>6, <1>7 DEF OrdersStep

\* It is about the state alone.
LEMMA StutterInv ==
  ASSUME OrderInv, UNCHANGED vars
  PROVE  OrderInv'
  BY DEF vars, orderVars, requestVars, ticketVars, OrderInv, OrdersTypeOK, TicketsTypeOK,
         CartsOK, RequestsOK, SeatsOK, SalesOK, HoldsOK, FirstSaleOK

\* The orders with issued seats are the settled ones: SeatsOK, since a settled
\* order has items.
LEMMA IssuedAreSettled == OrderInv => IssuedOrders = Settled
<1> SUFFICES ASSUME OrderInv PROVE IssuedOrders = Settled
  OBVIOUS
<1>1. ASSUME NEW o \in Orders, NEW s \in SeatsOf(o), ticket[s] # "none"
      PROVE  o \in Settled
  <2>1. s \in Seats /\ s[1] = o
    BY <1>1 DEF SeatsOf, Seats, OrderInv, OrdersTypeOK, TicketsTypeOK
  <2> QED BY <1>1, <2>1 DEF OrderInv, SeatsOK, Settled, SettledStatus
<1>2. ASSUME NEW o \in Orders, status[o] \in SettledStatus
      PROVE  \E s \in SeatsOf(o) : ticket[s] # "none"
  <2>1. PICK x : x \in cart[o]
    BY <1>2 DEF OrderInv, CartsOK, SettledStatus
  <2>2. <<o, x>> \in SeatsOf(o) /\ <<o, x>> \in Seats
    BY <2>1 DEF SeatsOf, Seats, OrderInv, OrdersTypeOK, TicketsTypeOK
  <2>3. ticket[<<o, x>>] # "none"
    BY <1>2, <2>1, <2>2 DEF OrderInv, SeatsOK
  <2> QED BY <2>2, <2>3
<1> QED BY <1>1, <1>2 DEF IssuedOrders, Settled, SettledStatus

\* OrderInv is strong enough for the property the runs check.
LEMMA InvFulfilledOnce == OrderInv => FulfilledOnce
<1> SUFFICES ASSUME OrderInv PROVE FulfilledOnce
  OBVIOUS
<1>1. IssuedOrders = Settled
  BY IssuedAreSettled
<1>2. \A o \in Orders : o \in Settled <=> status[o] \in SettledStatus
  BY DEF Settled, SettledStatus
<1>3. /\ \A o \in Orders : ledger[o].sale = IF o \in Settled THEN 1 ELSE 0
      /\ \A o \in Orders : hold[o] # 0 => status[o] = "pending"
  BY <1>2 DEF OrderInv, SalesOK, HoldsOK
<1>4. /\ firstSale \subseteq Settled
      /\ (firstSale = {}) = (Settled = {})
  BY <1>2 DEF OrderInv, OrdersTypeOK, FirstSaleOK, Settled, SettledStatus
<1> QED BY <1>1, <1>3, <1>4 DEF FulfilledOnce

----------------------------------------------------------------------------
(* Theorems *)

\* Whatever requests, payments, cron jobs and crashes do, every variable keeps
\* its type and OrderInv holds.
THEOREM OrdersInvariant == Spec => []OrderInv
<1>1. OrdersInit => OrderInv
  BY InitInv
<1>2. OrderInv /\ [Next]_vars => OrderInv'
  BY StepInv, StutterInv DEF Next
<1> QED BY <1>1, <1>2, PTL DEF Spec

\* Orders, tickets, holds and counters keep their types: fulfilment and
\* cancellation never write a counter below zero.
THEOREM OrdersTypeCorrect == Spec => []OrdersTypeOK
<1>1. OrderInv => OrdersTypeOK
  BY DEF OrderInv
<1> QED BY <1>1, OrdersInvariant, PTL

\* An order is fulfilled at most once, and its seats, its sale entry, its hold
\* and the event's first-sale mark always agree with its status.
THEOREM FulfilledOnceHolds == Spec => []FulfilledOnce
  BY OrdersInvariant, InvFulfilledOnce, PTL

----------------------------------------------------------------------------
(* The event row's caches *)

PaidOrders == {o \in Orders : status[o] = "paid"}
Subtotals == [o \in Orders |-> Subtotal(cart[o])]

\* The revenue the orders add up to is a sum over the paid ones.
LEMMA RevenueIsSum ==
  MapThenSumSet(LAMBDA o : Subtotal(cart[o]), {o \in Orders : status[o] = "paid"})
    = SumOver(Subtotals, PaidOrders)
<1> DEFINE G(h) == h = [s \in SUBSET PaidOrders |->
                          IF s = {} THEN 0 ELSE Subtotal(cart[Pick(s)]) + h[s \ {Pick(s)}]]
<1>1. \A s \in SUBSET PaidOrders : s # {} => Subtotals[Pick(s)] = Subtotal(cart[Pick(s)])
  BY PickIn DEF Subtotals, PaidOrders
<1>2. ASSUME NEW h PROVE G(h) <=> IsRunningSum(h, Subtotals, PaidOrders)
  BY <1>1 DEF IsRunningSum
<1>3. (CHOOSE h : G(h)) = RunningSum(Subtotals, PaidOrders)
  <2> HIDE DEF G
  <2> QED BY <1>2, Zenon DEF RunningSum
<1>4. MapThenSumSet(LAMBDA o : Subtotal(cart[o]), PaidOrders)
        = (CHOOSE h : G(h))[PaidOrders]
  BY DEF MapThenSumSet, MapThenFoldSet, Pick
<1>5. MapThenSumSet(LAMBDA o : Subtotal(cart[o]), PaidOrders) = SumOver(Subtotals, PaidOrders)
  BY <1>3, <1>4, SumIsRunningSum
<1> QED BY <1>5 DEF PaidOrders

RevenueAddsUp == revenue = SumOver(Subtotals, PaidOrders)

\* RevenueExact speaks of that sum, now and in the next state.
LEMMA RevenueAsSum == RevenueExact <=> RevenueAddsUp
  BY RevenueIsSum DEF RevenueExact, RevenueAddsUp

LEMMA RevenueNextAsSum == RevenueExact' <=> revenue' = SumOver(Subtotals', PaidOrders')
<1>1. RevenueExact' <=> RevenueAddsUp'
  BY RevenueAsSum, PTL
<1>2. RevenueAddsUp' <=> revenue' = SumOver(Subtotals', PaidOrders')
  BY DEF RevenueAddsUp
<1> QED BY <1>1, <1>2

\* What the sums of the books range over is finite and made of numbers.
LEMMA SubtotalsFinite ==
  ASSUME CartsOK, NEW S \in SUBSET Orders
  PROVE  /\ IsFiniteSet(S)
         /\ \A o \in Orders : Subtotals[o] = Subtotal(cart[o]) /\ Subtotals[o] \in Nat
         /\ SumOver(Subtotals, S) \in Nat
<1>1. IsFiniteSet(S)
  BY FS_Subset, TicketsAssumption
<1>2. \A o \in Orders : Subtotals[o] = Subtotal(cart[o]) /\ Subtotals[o] \in Nat
  BY OrderSeatsCount DEF Subtotals
<1>3. \A x \in S : Subtotals[x] \in Nat
  BY <1>2
<1> QED BY <1>1, <1>2, <1>3, SumNat

\* What a step that fulfils nothing leaves alone.
CountsKept ==
  /\ UNCHANGED <<soldCount, ticketsSold, revenue>>
  /\ \A s \in Seats : Live(s)' <=> Live(s)
  /\ PaidOrders' = PaidOrders
  /\ \A o \in PaidOrders : cart'[o] = cart[o]

\* Every step of module Orders but fulfilment is such a step.
LEMMA StepCounts ==
  ASSUME OrderInv, OrdersStep \/ CrashRequests
  PROVE  CountsKept \/ \E o \in Orders : Fulfill(o)
<1> USE DEF CountsKept, PaidOrders, Live, ticketVars, orderVars
<1>1. ASSUME NEW o \in Orders, NEW u \in Users, Admit(o, u)
      PROVE  CountsKept
  BY <1>1 DEF Admit
<1>2. ASSUME NEW o \in Orders, NEW c \in Carts, Reserve(o, c)
      PROVE  CountsKept
  <2>1. status[o] = "none"
    BY <1>2, ReserveInv
  <2> QED BY <1>2, <2>1 DEF Reserve, OrderInv, OrdersTypeOK, TicketsTypeOK
<1>3. ASSUME NEW o \in Orders, StartPayment(o) \/ StartFails(o) \/ LinkPayment(o)
      PROVE  CountsKept
  BY <1>3 DEF StartPayment, StartFails, LinkPayment
<1>4. ASSUME NEW o \in Orders, Cancel(o) \/ CancelStale(o)
      PROVE  CountsKept
  <2>1. CASE CancelOrder(o)
    BY <2>1 DEF CancelOrder, OrderInv, OrdersTypeOK
  <2> QED BY <1>4, <2>1 DEF Cancel, CancelStale
<1>5. ASSUME NEW s \in Seats, Scan(s)
      PROVE  CountsKept
  BY <1>5 DEF Scan, ScanByCode, SetSeats
<1>6. ASSUME ExpireHolds \/ ReadStale \/ Tick \/ CrashRequests
      PROVE  CountsKept
  BY <1>6 DEF ExpireHolds, ReadStale, Tick, CrashRequests
<1> HIDE DEF CountsKept
<1> QED BY <1>1, <1>2, <1>3, <1>4, <1>5, <1>6
        DEF OrdersStep, FulfillFree, PaymentSucceeded

\* Counts of seats that no set shares add up, by type as well.
LEMMA SeatsAdd ==
  ASSUME NEW A \in SUBSET Seats, NEW B \in SUBSET Seats, A \cap B = {}
  PROVE  /\ Cardinality(A \cup B) = Cardinality(A) + Cardinality(B)
         /\ \A t \in Types : Cardinality(OfType(A \cup B, t))
                               = Cardinality(OfType(A, t)) + Cardinality(OfType(B, t))
<1>1. ASSUME NEW C \in SUBSET Seats, NEW D \in SUBSET Seats, C \cap D = {}
      PROVE  Cardinality(C \cup D) = Cardinality(C) + Cardinality(D)
  <2>1. IsFiniteSet(C) /\ IsFiniteSet(D) /\ Cardinality(C) \in Nat /\ Cardinality(D) \in Nat
    BY SeatsCount
  <2>2. Cardinality(C \cup D) = Cardinality(C) + Cardinality(D) - Cardinality({})
    BY <1>1, <2>1, FS_Union
  <2> QED BY <2>1, <2>2, FS_EmptySet
<1>2. ASSUME NEW t \in Types
      PROVE  Cardinality(OfType(A \cup B, t))
               = Cardinality(OfType(A, t)) + Cardinality(OfType(B, t))
  <2>1. /\ OfType(A, t) \in SUBSET Seats /\ OfType(B, t) \in SUBSET Seats
        /\ OfType(A, t) \cap OfType(B, t) = {}
        /\ OfType(A \cup B, t) = OfType(A, t) \cup OfType(B, t)
    BY DEF OfType
  <2> QED BY <1>1, <2>1
<1>3. Cardinality(A \cup B) = Cardinality(A) + Cardinality(B)
  BY <1>1
<1> QED BY <1>2, <1>3

\* The revenue stays exact while the paid orders and their items do.
LEMMA KeptRevenue ==
  ASSUME BooksExact, revenue' = revenue, PaidOrders' = PaidOrders,
         \A o \in PaidOrders : cart'[o] = cart[o]
  PROVE  RevenueExact'
<1>1. PaidOrders \in SUBSET Orders /\ IsFiniteSet(PaidOrders)
  BY TicketsAssumption, FS_Subset DEF PaidOrders
<1>2. SumOver(Subtotals', PaidOrders) = SumOver(Subtotals, PaidOrders)
  <2>1. \A o \in PaidOrders : Subtotals'[o] = Subtotals[o]
    BY <1>1 DEF Subtotals
  <2> QED BY <1>1, <2>1, SumSame
<1>3. revenue = SumOver(Subtotals, PaidOrders)
  BY RevenueAsSum DEF BooksExact, RevenueAddsUp
<1> QED BY <1>2, <1>3, RevenueNextAsSum

\* Steps that change no ticket's standing keep both caches exact.
LEMMA KeptBooks ==
  ASSUME BooksExact, CountsKept
  PROVE  BooksExact'
<1>1. LiveSeats' = LiveSeats
  BY DEF CountsKept, LiveSeats
<1>2. CountersExact'
  BY <1>1 DEF BooksExact, CountersExact, CountsKept, OfType
<1>3. RevenueExact'
  BY KeptRevenue DEF CountsKept
<1> QED BY <1>2, <1>3 DEF BooksExact

\* Fulfilment moves the counters and the revenue by exactly what it issues.
LEMMA FulfillBooks ==
  ASSUME OrderInv, BooksExact, NEW o \in Orders, Fulfill(o)
  PROVE  BooksExact'
<1>1. CartsOK /\ status[o] = "pending" /\ status \in [Orders -> OrderStatus \cup {"none"}]
  BY DEF OrderInv, OrdersTypeOK, Fulfill
<1>2. SeatsOf(o) \in SUBSET Seats /\ LiveSeats \in SUBSET Seats
  BY <1>1, OrderSeatsCount DEF LiveSeats
<1>3. LiveSeats \cap SeatsOf(o) = {}
  <2>1. ASSUME NEW s \in SeatsOf(o) PROVE ticket[s] = "none"
    <3>1. s \in Seats /\ s[1] = o
      BY <1>2 DEF SeatsOf
    <3> QED BY <1>1, <3>1 DEF OrderInv, SeatsOK, SettledStatus
  <2> QED BY <2>1 DEF LiveSeats, Live
<1>4. LiveSeats' = LiveSeats \cup SeatsOf(o)
  BY <1>2 DEF LiveSeats, Live, Fulfill, IssueForOrder, SetSeats
<1>5. CountersExact'
  BY <1>2, <1>3, <1>4, SeatsAdd DEF BooksExact, CountersExact, Fulfill, IssueForOrder
<1>6. PaidOrders' = PaidOrders \cup {o} /\ o \notin PaidOrders
  BY <1>1 DEF PaidOrders, Fulfill
<1>7. Subtotals' = Subtotals
  BY DEF Subtotals, Fulfill
<1>8. SumOver(Subtotals, PaidOrders \cup {o}) = SumOver(Subtotals, PaidOrders) + Subtotals[o]
  <2>1. PaidOrders \in SUBSET Orders
    BY DEF PaidOrders
  <2>2. IsFiniteSet(PaidOrders) /\ \A p \in PaidOrders \cup {o} : Subtotals[p] \in Int
    BY <1>1, <2>1, SubtotalsFinite
  <2> QED BY <1>6, <2>2, SumAdd
<1>9. revenue' = revenue + Subtotals[o]
  BY DEF Fulfill, Subtotals
<1>10. revenue = SumOver(Subtotals, PaidOrders)
  BY RevenueAsSum DEF BooksExact, RevenueAddsUp
<1>11. revenue' = SumOver(Subtotals', PaidOrders')
  BY <1>6, <1>7, <1>8, <1>9, <1>10
<1> QED BY <1>5, <1>11, RevenueNextAsSum DEF BooksExact

\* No checkout, payment, cron job or crash puts the caches out of step.
LEMMA BooksStep ==
  ASSUME OrderInv, BooksExact, OrdersStep \/ CrashRequests
  PROVE  BooksExact'
  BY StepCounts, KeptBooks, FulfillBooks DEF OrderInv

\* An empty shop's books are empty.
LEMMA BooksInit == OrdersInit => BooksExact
<1> SUFFICES ASSUME OrdersInit PROVE BooksExact
  OBVIOUS
<1>1. LiveSeats = {} /\ PaidOrders = {}
  BY DEF OrdersInit, TicketsInit, LiveSeats, Live, PaidOrders
<1>2. \A t \in Types : OfType(LiveSeats, t) = {}
  BY <1>1 DEF OfType
<1>3. CountersExact
  BY <1>1, <1>2, FS_EmptySet DEF CountersExact, OrdersInit, TicketsInit
<1>4. SumOver(Subtotals, PaidOrders) = 0
  BY <1>1, SumEmpty
<1>5. RevenueExact
  BY <1>4, RevenueAsSum DEF RevenueAddsUp, OrdersInit
<1> QED BY <1>3, <1>5 DEF BooksExact

\* Nor does a step of any kind, or none.
LEMMA InvBooksStep ==
  ASSUME OrderInv, BooksExact, [Next]_vars
  PROVE  OrderInv' /\ BooksExact'
<1>1. CASE Next
  BY <1>1, StepInv, BooksStep DEF Next
<1>2. CASE UNCHANGED vars
  <2>1. CountsKept
    BY <1>2 DEF vars, ticketVars, orderVars, CountsKept, Live, PaidOrders
  <2> QED BY <1>2, <2>1, StutterInv, KeptBooks DEF OrderInv
<1> QED BY <1>1, <1>2

\* Checkout alone keeps the event row's caches exact: sold counts, tickets sold
\* and revenue are what a count of the tickets and a sum of the paid orders
\* give, whatever payments, cron jobs and crashes come in between.
THEOREM CheckoutBooksExact == Spec => []BooksExact
<1>1. OrdersInit => OrderInv /\ BooksExact
  BY InitInv, BooksInit
<1>2. OrderInv /\ BooksExact /\ [Next]_vars => (OrderInv /\ BooksExact)'
  BY InvBooksStep
<1> QED BY <1>1, <1>2, PTL DEF Spec

----------------------------------------------------------------------------
(* The stock *)

\* The seats in use or held that were compared with the stock when it mattered.
CheckedSeats == (LiveSeats \cup HeldSeats) \ UncheckedSeats
CheckedOf(u, t) == {s \in OfType(CheckedSeats, t) : buyer[OrderOf(s)] = u}

\* They fit: what Reserve admits, and what nothing but Reserve adds to.
StockOK ==
  /\ \A t \in Types : Cardinality(OfType(CheckedSeats, t)) <= Quantity[t]
  /\ \A u \in Users, t \in Types : Cardinality(CheckedOf(u, t)) <= MaxPerUser[t]

\* All of these are sets of seats.
LEMMA SeatSets ==
  ASSUME OrderInv
  PROVE  /\ LiveSeats \in SUBSET Seats /\ HeldSeats \in SUBSET Seats
         /\ UncheckedSeats \in SUBSET Seats /\ CheckedSeats \in SUBSET Seats
         /\ LiveSeats \cap HeldSeats = {}
<1>1. \A o \in Orders : SeatsOf(o) \in SUBSET Seats
  BY OrderSeatsCount DEF OrderInv
<1>2. LiveSeats \in SUBSET Seats /\ HeldSeats \in SUBSET Seats
  BY <1>1 DEF LiveSeats, HeldSeats
<1>3. UncheckedSeats \in SUBSET Seats
  BY <1>1 DEF UncheckedSeats, RepeatedType, OrderInv, OrdersTypeOK
<1>4. ASSUME NEW s \in HeldSeats PROVE s \notin LiveSeats
  <2>1. PICK o \in Orders : s \in SeatsOf(o) /\ hold[o] > now
    BY DEF HeldSeats, LiveHold
  <2>2. hold[o] # 0 /\ s \in Seats /\ s[1] = o
    BY <1>2, <2>1 DEF SeatsOf, OrderInv, OrdersTypeOK, TicketsTypeOK
  <2>3. status[o] = "pending"
    BY <2>2 DEF OrderInv, HoldsOK
  <2>4. ticket[s] = "none"
    BY <2>2, <2>3 DEF OrderInv, SeatsOK, SettledStatus
  <2> QED BY <2>4 DEF LiveSeats, Live
<1> QED BY <1>2, <1>3, <1>4 DEF CheckedSeats

\* Two disjoint sets of seats inside two others are no larger together.
LEMMA SeatsBound ==
  ASSUME NEW A \in SUBSET Seats, NEW B \in SUBSET Seats, A \cap B = {},
         NEW C \in SUBSET Seats, NEW D \in SUBSET Seats, A \cup B \subseteq C \cup D
  PROVE  Cardinality(A) + Cardinality(B) <= Cardinality(C) + Cardinality(D)
<1>1. Cardinality(A \cup B) = Cardinality(A) + Cardinality(B)
  BY SeatsAdd
<1>2. /\ IsFiniteSet(C) /\ IsFiniteSet(D) /\ Cardinality(C) \in Nat
      /\ Cardinality(D) \in Nat /\ Cardinality(C \cap D) \in Nat
      /\ IsFiniteSet(C \cup D) /\ Cardinality(C \cup D) \in Nat
      /\ Cardinality(A \cup B) \in Nat
  BY SeatsCount
<1>3. Cardinality(C \cup D) = Cardinality(C) + Cardinality(D) - Cardinality(C \cap D)
  BY <1>2, FS_Union
<1>4. Cardinality(A \cup B) <= Cardinality(C \cup D)
  BY <1>2, FS_Subset
<1> QED BY <1>1, <1>2, <1>3, <1>4

\* If the checked seats fit, only unchecked ones go beyond stock and cap.
LEMMA StockSuffices ==
  ASSUME OrderInv, CountersExact, StockOK
  PROVE  StockExplained
<1>1. OversellExplained
  <2> SUFFICES ASSUME NEW t \in Types
               PROVE  soldCount[t] + Cardinality(OfType(HeldSeats, t))
                        <= Quantity[t] + Cardinality(OfType(UncheckedSeats, t))
    BY DEF OversellExplained
  <2>1. /\ OfType(LiveSeats, t) \in SUBSET Seats /\ OfType(HeldSeats, t) \in SUBSET Seats
        /\ OfType(CheckedSeats, t) \in SUBSET Seats
        /\ OfType(UncheckedSeats, t) \in SUBSET Seats
        /\ OfType(LiveSeats, t) \cap OfType(HeldSeats, t) = {}
        /\ OfType(LiveSeats, t) \cup OfType(HeldSeats, t)
             \subseteq OfType(CheckedSeats, t) \cup OfType(UncheckedSeats, t)
    BY SeatSets DEF OfType, CheckedSeats
  <2>2. Cardinality(OfType(LiveSeats, t)) + Cardinality(OfType(HeldSeats, t))
          <= Cardinality(OfType(CheckedSeats, t)) + Cardinality(OfType(UncheckedSeats, t))
    BY <2>1, SeatsBound
  <2>3. /\ Cardinality(OfType(CheckedSeats, t)) \in Nat
        /\ Cardinality(OfType(UncheckedSeats, t)) \in Nat
        /\ Cardinality(OfType(HeldSeats, t)) \in Nat
        /\ Cardinality(OfType(LiveSeats, t)) \in Nat
        /\ Quantity[t] \in Nat
    BY <2>1, SeatsCount, OrdersAssumption
  <2>4. soldCount[t] = Cardinality(OfType(LiveSeats, t))
        /\ Cardinality(OfType(CheckedSeats, t)) <= Quantity[t]
    BY DEF CountersExact, StockOK
  <2> QED BY <2>2, <2>3, <2>4
<1>2. UserCapExplained
  <2> SUFFICES ASSUME NEW u \in Users, NEW t \in Types
               PROVE  OwnedByUser(u, t)
                        <= MaxPerUser[t]
                             + Cardinality({s \in OfType(UncheckedSeats, t) :
                                              buyer[OrderOf(s)] = u})
    BY DEF UserCapExplained
  <2> DEFINE own(S) == {s \in OfType(S, t) : buyer[OrderOf(s)] = u}
  <2>1. /\ own(LiveSeats) \in SUBSET Seats /\ own(HeldSeats) \in SUBSET Seats
        /\ CheckedOf(u, t) \in SUBSET Seats /\ own(UncheckedSeats) \in SUBSET Seats
        /\ own(LiveSeats) \cap own(HeldSeats) = {}
        /\ own(LiveSeats) \cup own(HeldSeats)
             \subseteq CheckedOf(u, t) \cup own(UncheckedSeats)
    BY SeatSets DEF OfType, CheckedSeats, CheckedOf
  <2> DEFINE nLive == Cardinality(own(LiveSeats))
             nHeld == Cardinality(own(HeldSeats))
             nChecked == Cardinality(CheckedOf(u, t))
             nOther == Cardinality(own(UncheckedSeats))
  <2>2. OwnedByUser(u, t) = nLive + nHeld
    BY DEF OwnedByUser
  <2> HIDE DEF own
  <2>3. nLive + nHeld <= nChecked + nOther
    BY <2>1, SeatsBound
  <2>4. nLive \in Nat /\ nHeld \in Nat /\ nChecked \in Nat /\ nOther \in Nat
        /\ MaxPerUser[t] \in Nat
    BY <2>1, SeatsCount, OrdersAssumption
  <2>5. nChecked <= MaxPerUser[t]
    BY DEF StockOK
  <2>6. OwnedByUser(u, t) <= MaxPerUser[t] + nOther
    <3> HIDE DEF nLive, nHeld, nChecked, nOther
    <3> QED BY <2>2, <2>3, <2>4, <2>5
  <2> QED BY <2>6 DEF own
<1> QED BY <1>1, <1>2 DEF StockExplained

\* Nothing joins the checked seats, and none changes hands.
CheckedKept ==
  /\ CheckedSeats' \subseteq CheckedSeats
  /\ \A s \in CheckedSeats' : buyer'[OrderOf(s)] = buyer[OrderOf(s)]

\* Fewer seats checked is never a problem.
LEMMA KeptStock ==
  ASSUME OrderInv, StockOK, CheckedKept
  PROVE  StockOK'
<1>1. CheckedSeats \in SUBSET Seats
  BY SeatSets
<1>2. ASSUME NEW S \in SUBSET Seats, NEW T \in SUBSET S
      PROVE  Cardinality(T) \in Nat /\ Cardinality(S) \in Nat
             /\ Cardinality(T) <= Cardinality(S)
  <2>1. T \in SUBSET Seats /\ IsFiniteSet(S)
    BY SeatsCount
  <2> QED BY <2>1, SeatsCount, FS_Subset
<1>3. ASSUME NEW t \in Types
      PROVE  Cardinality(OfType(CheckedSeats', t)) <= Quantity[t]
  <2>1. OfType(CheckedSeats', t) \subseteq OfType(CheckedSeats, t)
        /\ OfType(CheckedSeats, t) \in SUBSET Seats
    BY <1>1 DEF OfType, CheckedKept
  <2>2. Cardinality(OfType(CheckedSeats, t)) <= Quantity[t] /\ Quantity[t] \in Nat
    BY OrdersAssumption DEF StockOK
  <2> QED BY <1>2, <2>1, <2>2
<1>4. ASSUME NEW u \in Users, NEW t \in Types
      PROVE  Cardinality(CheckedOf(u, t)') <= MaxPerUser[t]
  <2>1. CheckedOf(u, t)' \subseteq CheckedOf(u, t) /\ CheckedOf(u, t) \in SUBSET Seats
    BY <1>1 DEF OfType, CheckedKept, CheckedOf
  <2>2. Cardinality(CheckedOf(u, t)) <= MaxPerUser[t] /\ MaxPerUser[t] \in Nat
    BY OrdersAssumption DEF StockOK
  <2> QED BY <1>2, <2>1, <2>2
<1> QED BY <1>3, <1>4 DEF StockOK, OfType

\* A step that issues nothing, extends no hold and moves no item.
LEMMA QuietChecked ==
  ASSUME OrderInv, cart' = cart, late \subseteq late',
         \A s \in Seats : Live(s)' => Live(s),
         \A o \in Orders : LiveHold(o)' => LiveHold(o),
         \A o \in Orders : cart[o] # {} => buyer'[o] = buyer[o]
  PROVE  CheckedKept
<1>1. UncheckedSeats \subseteq UncheckedSeats'
  BY DEF UncheckedSeats, RepeatedType, SeatsOf
<1>2. LiveSeats' \subseteq LiveSeats /\ HeldSeats' \subseteq HeldSeats
  BY DEF LiveSeats, HeldSeats, SeatsOf
<1>3. ASSUME NEW s \in LiveSeats \cup HeldSeats
      PROVE  OrderOf(s) \in Orders /\ cart[OrderOf(s)] # {}
  <2>1. CASE s \in LiveSeats
    <3>1. s \in Seats /\ ticket[s] # "none"
      BY <2>1 DEF LiveSeats, Live
    <3> QED BY <3>1 DEF OrderInv, SeatsOK, OrderOf, Seats
  <2>2. CASE s \in HeldSeats
    BY <2>2 DEF HeldSeats, SeatsOf, OrderOf
  <2> QED BY <1>3, <2>1, <2>2
<1> QED BY <1>1, <1>2, <1>3 DEF CheckedKept, CheckedSeats

\* Fulfilment turns held seats into live ones, or into unchecked ones when the
\* hold has lapsed.
LEMMA FulfillChecked ==
  ASSUME OrderInv, NEW o \in Orders, Fulfill(o)
  PROVE  CheckedKept
<1>1. /\ cart' = cart /\ buyer' = buyer /\ now' = now
      /\ late' = IF LiveHold(o) THEN late ELSE late \cup {o}
  BY DEF Fulfill
<1>2. UncheckedSeats \subseteq UncheckedSeats'
  BY <1>1 DEF UncheckedSeats, RepeatedType, SeatsOf
<1>3. HeldSeats' \subseteq HeldSeats
  <2>1. \A p \in Orders : LiveHold(p)' => LiveHold(p)
    BY <1>1 DEF Fulfill, LiveHold, OrderInv, OrdersTypeOK, TicketsTypeOK
  <2> QED BY <1>1, <2>1 DEF HeldSeats, SeatsOf
<1>4. ASSUME NEW s \in LiveSeats', s \notin LiveSeats PROVE s \in SeatsOf(o)
  BY <1>4 DEF LiveSeats, Live, Fulfill, IssueForOrder, SetSeats
<1>5. CASE LiveHold(o)
  <2>1. SeatsOf(o) \subseteq HeldSeats
    BY <1>5 DEF HeldSeats
  <2> QED BY <1>1, <1>2, <1>3, <1>4, <2>1 DEF CheckedKept, CheckedSeats
<1>6. CASE ~LiveHold(o)
  <2>1. SeatsOf(o) \subseteq UncheckedSeats'
    BY <1>1, <1>6 DEF UncheckedSeats, SeatsOf
  <2> QED BY <1>1, <1>2, <1>3, <1>4, <2>1 DEF CheckedKept, CheckedSeats
<1> QED BY <1>5, <1>6

\* A reservation compares every line of its cart with what is left.
LEMMA ReserveStock ==
  ASSUME OrderInv, CountersExact, StockOK, NEW o \in Orders, NEW c \in Carts, Reserve(o, c)
  PROVE  StockOK'
<1> DEFINE new == {o} \X c
<1>1. /\ status[o] = "none" /\ cart[o] = {} /\ cart' = [cart EXCEPT ![o] = c]
      /\ cart \in [Orders -> SUBSET Slot] /\ buyer' = buyer /\ now' = now
      /\ late' = late /\ ticket' = ticket
      /\ hold' = [hold EXCEPT ![o] = now + HoldTtl] /\ hold \in [Orders -> Nat]
  BY ReserveInv DEF OrderInv, OrdersTypeOK, TicketsTypeOK, CartsOK, RequestsOK, Reserve,
     ticketVars
<1>2. c \in SUBSET Slot /\ new \in SUBSET Seats
  BY OrdersAssumption DEF Seats
<1>3. LiveSeats' = LiveSeats /\ HeldSeats' \subseteq HeldSeats \cup new
  BY <1>1 DEF LiveSeats, Live, HeldSeats, LiveHold, SeatsOf
<1>4. UncheckedSeats \subseteq UncheckedSeats'
  <2>1. RepeatedType \subseteq RepeatedType'
    BY <1>1 DEF RepeatedType
  <2>2. \A p \in Orders : SeatsOf(p) \subseteq SeatsOf(p)'
    BY <1>1 DEF SeatsOf
  <2>3. late \cup RepeatedType \subseteq Orders
    BY DEF RepeatedType, OrderInv, OrdersTypeOK
  <2> QED BY <1>1, <2>1, <2>2, <2>3 DEF UncheckedSeats
<1>5. CheckedSeats' \subseteq CheckedSeats \cup new
  BY <1>3, <1>4 DEF CheckedSeats
<1>6. CASE \E x, y \in c : x.type = y.type /\ x.line # y.line
  <2>1. new \subseteq UncheckedSeats'
    <3>1. o \in RepeatedType'
      BY <1>1, <1>6 DEF RepeatedType
    <3>2. SeatsOf(o)' = new
      BY <1>1 DEF SeatsOf
    <3> QED BY <3>1, <3>2 DEF UncheckedSeats
  <2>2. CheckedKept
    BY <1>1, <1>5, <2>1 DEF CheckedKept, CheckedSeats
  <2> QED BY <2>2, KeptStock
<1>7. CASE ~ \E x, y \in c : x.type = y.type /\ x.line # y.line
  <2>1. ASSUME NEW t \in Types, NEW x \in c, x.type = t
        PROVE  /\ Cardinality(OfType(new, t)) <= Available(t)
               /\ OwnedByUser(buyer[o], t) + Cardinality(OfType(new, t)) <= MaxPerUser[t]
    <3> DEFINE line == {y \in c : y.line = x.line}
    <3>1. OfType(new, t) = {o} \X line
      <4>1. \A y \in c : y.type = t <=> y.line = x.line
        BY <1>7, <2>1, OrdersAssumption
      <4> QED BY <4>1 DEF OfType, TypeOf
    <3>2. Cardinality({o} \X line) = Cardinality(line)
      <4>1. IsFiniteSet(line) /\ IsFiniteSet({o}) /\ Cardinality({o}) = 1
        <5>1. line \in SUBSET Slot
          BY <1>2
        <5> QED BY <5>1, SlotFinite, FS_Subset, FS_Singleton
      <4>2. Cardinality({o} \X line) = 1 * Cardinality(line) /\ Cardinality(line) \in Nat
        <5> HIDE DEF line
        <5> QED BY <4>1, FS_Product, FS_CardinalityType
      <4> QED BY <4>2
    <3>3. EnsureBuyable(buyer[o], t, Cardinality(line))
      BY <2>1 DEF Reserve, CartBuyable
    <3> QED BY <3>1, <3>2, <3>3 DEF EnsureBuyable
  <2>2. ASSUME NEW t \in Types
        PROVE  Cardinality(OfType(CheckedSeats', t)) <= Quantity[t]
    <3>1. /\ OfType(CheckedSeats', t) \subseteq OfType(CheckedSeats, t) \cup OfType(new, t)
          /\ OfType(CheckedSeats, t) \in SUBSET Seats /\ OfType(new, t) \in SUBSET Seats
      BY <1>2, <1>5, SeatSets DEF OfType
    <3>2. CASE OfType(new, t) = {}
      <4>1. Cardinality(OfType(CheckedSeats', t)) <= Cardinality(OfType(CheckedSeats, t))
        BY <3>1, <3>2, SeatsCount, FS_Subset
      <4>2. Cardinality(OfType(CheckedSeats', t)) \in Nat
            /\ Cardinality(OfType(CheckedSeats, t)) \in Nat
        BY <3>1, <3>2, SeatsCount
      <4>3. Cardinality(OfType(CheckedSeats, t)) <= Quantity[t] /\ Quantity[t] \in Nat
        BY OrdersAssumption DEF StockOK
      <4> QED BY <4>1, <4>2, <4>3
    <3>3. ASSUME NEW s \in OfType(new, t)
          PROVE  Cardinality(OfType(CheckedSeats', t)) <= Quantity[t]
      <4>1. s[2] \in c /\ s[2].type = t
        BY DEF OfType, TypeOf
      <4>2. Cardinality(OfType(new, t)) <= Available(t)
        BY <2>1, <4>1
      <4>3. /\ OfType(LiveSeats, t) \in SUBSET Seats /\ OfType(HeldSeats, t) \in SUBSET Seats
            /\ OfType(LiveSeats, t) \cap OfType(HeldSeats, t) = {}
            /\ OfType(LiveSeats \cup HeldSeats, t) \in SUBSET Seats
            /\ OfType(CheckedSeats', t)
                 \subseteq OfType(LiveSeats \cup HeldSeats, t) \cup OfType(new, t)
        BY <3>1, SeatSets DEF OfType, CheckedSeats
      <4>4. Cardinality(OfType(LiveSeats \cup HeldSeats, t))
              = soldCount[t] + Cardinality(OfType(HeldSeats, t))
        <5>1. Cardinality(OfType(LiveSeats \cup HeldSeats, t))
                = Cardinality(OfType(LiveSeats, t)) + Cardinality(OfType(HeldSeats, t))
          BY SeatSets, SeatsAdd
        <5> QED BY <5>1 DEF CountersExact
      <4>5. Cardinality(OfType(CheckedSeats', t)) + Cardinality({})
              <= Cardinality(OfType(LiveSeats \cup HeldSeats, t))
                   + Cardinality(OfType(new, t))
        <5>1. OfType(CheckedSeats', t) \in SUBSET Seats /\ {} \in SUBSET Seats
              /\ OfType(CheckedSeats', t) \cap {} = {}
              /\ OfType(CheckedSeats', t) \cup {}
                   \subseteq OfType(LiveSeats \cup HeldSeats, t) \cup OfType(new, t)
          BY <3>1, <4>3
        <5> QED BY <3>1, <4>3, <5>1, SeatsBound
      <4>6. /\ Cardinality(OfType(CheckedSeats', t)) \in Nat /\ Cardinality({}) = 0
            /\ Cardinality(OfType(new, t)) \in Nat
            /\ Cardinality(OfType(HeldSeats, t)) \in Nat
            /\ soldCount[t] \in Nat /\ Quantity[t] \in Nat
        <5>1. OfType(CheckedSeats', t) \in SUBSET Seats
          BY <3>1
        <5>2. soldCount[t] \in Nat /\ Quantity[t] \in Nat
          BY OrdersAssumption DEF OrderInv, OrdersTypeOK, TicketsTypeOK
        <5> QED BY <3>1, <4>3, <5>1, <5>2, SeatsCount, FS_EmptySet
      <4> QED BY <4>2, <4>4, <4>5, <4>6 DEF Available
    <3> QED BY <3>2, <3>3
  <2>3. ASSUME NEW u \in Users, NEW t \in Types
        PROVE  Cardinality(CheckedOf(u, t)') <= MaxPerUser[t]
    <3> DEFINE own(S) == {s \in OfType(S, t) : buyer[OrderOf(s)] = u}
               fresh == own(new)
    <3>1. /\ CheckedOf(u, t)' \subseteq CheckedOf(u, t) \cup fresh
          /\ CheckedOf(u, t) \in SUBSET Seats /\ fresh \in SUBSET Seats
      BY <1>1, <1>2, <1>5, SeatSets DEF OfType, CheckedOf
    <3>2. CASE fresh = {}
      <4> HIDE DEF fresh
      <4>1. Cardinality(CheckedOf(u, t)') <= Cardinality(CheckedOf(u, t))
        BY <3>1, <3>2, SeatsCount, FS_Subset
      <4>2. Cardinality(CheckedOf(u, t)') \in Nat /\ Cardinality(CheckedOf(u, t)) \in Nat
        BY <3>1, <3>2, SeatsCount
      <4>3. Cardinality(CheckedOf(u, t)) <= MaxPerUser[t] /\ MaxPerUser[t] \in Nat
        BY OrdersAssumption DEF StockOK
      <4> QED BY <4>1, <4>2, <4>3
    <3>3. ASSUME NEW s \in fresh
          PROVE  Cardinality(CheckedOf(u, t)') <= MaxPerUser[t]
      <4>1. s[2] \in c /\ s[2].type = t /\ buyer[o] = u
        BY DEF OfType, TypeOf, OrderOf
      <4>2. OwnedByUser(u, t) + Cardinality(OfType(new, t)) <= MaxPerUser[t]
        BY <2>1, <4>1
      <4>3. fresh = OfType(new, t)
        BY <4>1 DEF OfType, OrderOf
      <4>4. /\ own(LiveSeats) \in SUBSET Seats /\ own(HeldSeats) \in SUBSET Seats
            /\ own(LiveSeats) \cap own(HeldSeats) = {}
            /\ own(LiveSeats) \cup own(HeldSeats) \in SUBSET Seats
            /\ CheckedOf(u, t)' \subseteq (own(LiveSeats) \cup own(HeldSeats)) \cup fresh
        BY <3>1, SeatSets DEF OfType, CheckedSeats, CheckedOf
      <4>5. OwnedByUser(u, t) = Cardinality(own(LiveSeats)) + Cardinality(own(HeldSeats))
        BY DEF OwnedByUser
      <4> HIDE DEF own, fresh
      <4>6. Cardinality(own(LiveSeats) \cup own(HeldSeats))
              = Cardinality(own(LiveSeats)) + Cardinality(own(HeldSeats))
        BY <4>4, SeatsAdd
      <4>7. Cardinality(CheckedOf(u, t)') + Cardinality({})
              <= Cardinality(own(LiveSeats) \cup own(HeldSeats)) + Cardinality(fresh)
        <5>1. CheckedOf(u, t)' \in SUBSET Seats /\ {} \in SUBSET Seats
              /\ CheckedOf(u, t)' \cap {} = {}
              /\ CheckedOf(u, t)' \cup {}
                   \subseteq (own(LiveSeats) \cup own(HeldSeats)) \cup fresh
          BY <3>1, <4>4
        <5> QED BY <3>1, <4>4, <5>1, SeatsBound
      <4>8. /\ Cardinality(CheckedOf(u, t)') \in Nat /\ Cardinality({}) = 0
            /\ Cardinality(fresh) \in Nat /\ MaxPerUser[t] \in Nat
            /\ Cardinality(own(LiveSeats)) \in Nat /\ Cardinality(own(HeldSeats)) \in Nat
        <5>1. CheckedOf(u, t)' \in SUBSET Seats
          BY <3>1
        <5> QED BY <3>1, <4>4, <5>1, SeatsCount, FS_EmptySet, OrdersAssumption
      <4> DEFINE n == Cardinality(CheckedOf(u, t)')
                 l == Cardinality(own(LiveSeats))
                 h == Cardinality(own(HeldSeats))
                 f == Cardinality(fresh)
      <4>9. n + 0 <= (l + h) + f /\ (l + h) + f <= MaxPerUser[t]
        BY <4>2, <4>3, <4>5, <4>6, <4>7, <4>8
      <4> QED
        <5>1. n \in Nat /\ l \in Nat /\ h \in Nat /\ f \in Nat /\ MaxPerUser[t] \in Nat
          BY <4>8
        <5> HIDE DEF n, l, h, f
        <5>2. n <= MaxPerUser[t]
          BY <4>9, <5>1
        <5> QED BY <5>2 DEF n
    <3> QED BY <3>2, <3>3
  <2> QED BY <2>2, <2>3 DEF StockOK, OfType
<1> QED BY <1>6, <1>7

\* Every step keeps the checked seats within stock and cap.
LEMMA StockStep ==
  ASSUME OrderInv, CountersExact, StockOK, [Next]_vars
  PROVE  StockOK'
<1> USE DEF OrderInv, OrdersTypeOK, TicketsTypeOK
<1>1. ASSUME NEW o \in Orders, NEW u \in Users, Admit(o, u) PROVE CheckedKept
  BY <1>1, QuietChecked DEF Admit, RequestsOK, CartsOK, LiveHold, Live, ticketVars
<1>2. ASSUME NEW o \in Orders, StartPayment(o) \/ StartFails(o) \/ LinkPayment(o)
      PROVE  CheckedKept
  BY <1>2, QuietChecked
     DEF StartPayment, StartFails, LinkPayment, LiveHold, Live, ticketVars, orderVars
<1>3. ASSUME NEW o \in Orders, Cancel(o) \/ CancelStale(o) PROVE CheckedKept
  <2>1. CASE CancelOrder(o)
    BY <2>1, QuietChecked DEF CancelOrder, LiveHold, Live, ticketVars
  <2>2. CASE ~CancelOrder(o)
    BY <1>3, <2>2, QuietChecked DEF Cancel, CancelStale, LiveHold, Live, ticketVars, orderVars
  <2> QED BY <2>1, <2>2
<1>4. ASSUME NEW s \in Seats, Scan(s) PROVE CheckedKept
  BY <1>4, QuietChecked DEF Scan, ScanByCode, SetSeats, LiveHold, Live, orderVars
<1>5. ASSUME ExpireHolds \/ ReadStale \/ CrashRequests \/ UNCHANGED vars
      PROVE  CheckedKept
  BY <1>5, QuietChecked
     DEF ExpireHolds, ReadStale, CrashRequests, vars, LiveHold, Live, ticketVars, orderVars
<1>6. ASSUME Tick PROVE CheckedKept
  <2>1. now' = now + 1 /\ UNCHANGED <<cart, ticketVars, orderVars>> /\ now \in Nat
    BY <1>6, TicketsAssumption DEF Tick
  <2> QED BY <2>1, QuietChecked DEF LiveHold, Live, ticketVars, orderVars
<1>7. ASSUME NEW o \in Orders, FulfillFree(o) \/ PaymentSucceeded(o) PROVE CheckedKept
  BY <1>7, FulfillChecked DEF FulfillFree, PaymentSucceeded
<1> QED BY <1>1, <1>2, <1>3, <1>4, <1>5, <1>6, <1>7, KeptStock, ReserveStock DEF Next, OrdersStep

\* Stock and per-buyer cap are exceeded by the seats nobody checked and by no
\* other: neither concurrent checkouts nor holds, cron jobs or crashes oversell.
THEOREM OnlyUncheckedOversell == Spec => []StockExplained
<1> DEFINE Inv == OrderInv /\ BooksExact /\ StockOK
<1>1. OrdersInit => Inv
  <2> SUFFICES ASSUME OrdersInit PROVE Inv
    OBVIOUS
  <2>1. OrderInv /\ BooksExact
    BY InitInv, BooksInit
  <2>2. CheckedSeats = {}
    BY DEF CheckedSeats, LiveSeats, Live, HeldSeats, LiveHold, OrdersInit, TicketsInit
  <2>3. \A t \in Types : OfType(CheckedSeats, t) = {}
    BY <2>2 DEF OfType
  <2>4. \A u \in Users, t \in Types : CheckedOf(u, t) = {}
    BY <2>3 DEF CheckedOf
  <2>5. StockOK
    <3>1. Cardinality({}) = 0
      BY FS_EmptySet
    <3>2. /\ \A t \in Types : Cardinality(OfType(CheckedSeats, t)) = 0
          /\ \A u \in Users, t \in Types : Cardinality(CheckedOf(u, t)) = 0
      BY <2>3, <2>4, <3>1, Zenon
    <3>3. \A t \in Types : 0 <= Quantity[t] /\ 0 <= MaxPerUser[t]
      BY OrdersAssumption
    <3> QED BY <3>2, <3>3 DEF StockOK
  <2> QED BY <2>1, <2>5
<1>2. Inv /\ [Next]_vars => Inv'
  <2> SUFFICES ASSUME Inv, [Next]_vars PROVE Inv'
    OBVIOUS
  <2>1. StockOK'
    BY StockStep DEF BooksExact
  <2>2. OrderInv' /\ BooksExact'
    BY InvBooksStep
  <2> QED BY <2>1, <2>2
<1>3. Inv => StockExplained
  BY StockSuffices DEF BooksExact
<1> QED BY <1>1, <1>2, <1>3, PTL DEF Spec

----------------------------------------------------------------------------
(* The order life cycle *)

\* Nothing in module Orders refunds.
NoRefunds == \A o \in Orders : ledger[o].refund = 0 /\ status[o] # "refunded"

LifeInv == OrderInv /\ NoRefunds

\* What module OrderLifecycle sees of the state is a function of the statuses.
SettledOrders(st) == {o \in Orders : st[o] \in SettledStatus}
NetOf(st) == [o \in Orders |-> IF st[o] = "paid" THEN 1 ELSE 0]
LifeView == /\ IssuedOrders = SettledOrders(status)
            /\ [o \in Orders |-> ledger[o].sale - ledger[o].refund] = NetOf(status)

\* Seats and net earnings follow the statuses.
LEMMA LifecycleView == LifeInv => LifeView
<1> SUFFICES ASSUME LifeInv PROVE LifeView
  OBVIOUS
<1>1. IssuedOrders = SettledOrders(status)
  BY IssuedAreSettled DEF LifeInv, Settled, SettledStatus, SettledOrders
<1>2. \A o \in Orders : ledger[o].sale - ledger[o].refund = IF status[o] = "paid" THEN 1 ELSE 0
  BY DEF LifeInv, NoRefunds, OrderInv, SalesOK, SettledStatus
<1> QED BY <1>1, <1>2 DEF LifeView, NetOf

\* Every step of module Orders preserves LifeInv and moves statuses as the
\* life cycle does.
LEMMA LifeStep ==
  ASSUME LifeInv, [Next]_vars
  PROVE  LifeInv' /\ StatusStep
<1>1. OrderInv' /\ StatusStep /\ RefundsKept
  <2>1. CASE Next
    BY <2>1, StepInv DEF LifeInv, Next
  <2>2. CASE UNCHANGED vars
    BY <2>2, StutterInv DEF LifeInv, vars, orderVars, StatusStep, RefundsKept
  <2> QED BY <2>1, <2>2
<1>2. NoRefunds'
  BY <1>1 DEF LifeInv, NoRefunds, StatusStep, RefundsKept, OrderInv, OrdersTypeOK
<1> QED BY <1>1, <1>2 DEF LifeInv

\* The desk's only step of the life cycle.
RefundStep == \E o \in Orders :
                status[o] = "paid" /\ status' = [status EXCEPT ![o] = "refunded"]

\* What moves one status is a step of the abstract life cycle, as long as seats
\* and earnings follow.
LEMMA StepRefines ==
  ASSUME status \in [Orders -> OrderStatus \cup {"none"}], LifeView, LifeView', StatusStep \/ RefundStep
  PROVE  [Lifecycle!Next]_(Lifecycle!lifecycleVars)
<1> DEFINE net == [o \in Orders |-> ledger[o].sale - ledger[o].refund]
<1>1. IssuedOrders = SettledOrders(status) /\ net = NetOf(status)
  BY DEF LifeView
<1>2. IssuedOrders' = SettledOrders(status') /\ net' = NetOf(status')
  BY DEF LifeView, SettledOrders, NetOf
<1>3. CASE status' = status
  BY <1>1, <1>2, <1>3 DEF Lifecycle!lifecycleVars
<1> USE DEF SettledOrders, NetOf, SettledStatus
<1>4. ASSUME NEW o \in Orders, status[o] = "none", status' = [status EXCEPT ![o] = "pending"]
      PROVE  Lifecycle!Place(o)
  <2>1. SettledOrders(status') = SettledOrders(status) /\ NetOf(status') = NetOf(status)
    BY <1>4
  <2> QED BY <1>1, <1>2, <1>4, <2>1 DEF Lifecycle!Place
<1>5. ASSUME NEW o \in Orders, status[o] = "pending", status' = [status EXCEPT ![o] = "paid"]
      PROVE  Lifecycle!Pay(o)
  <2>1. SettledOrders(status') = SettledOrders(status) \cup {o}
    BY <1>5
  <2>2. NetOf(status') = [NetOf(status) EXCEPT ![o] = 1]
    BY <1>5
  <2> QED BY <1>1, <1>2, <1>5, <2>1, <2>2 DEF Lifecycle!Pay
<1>6. ASSUME NEW o \in Orders, status[o] = "pending", status' = [status EXCEPT ![o] = "cancelled"]
      PROVE  Lifecycle!Drop(o)
  <2>1. SettledOrders(status') = SettledOrders(status) /\ NetOf(status') = NetOf(status)
    BY <1>6
  <2> QED BY <1>1, <1>2, <1>6, <2>1 DEF Lifecycle!Drop
<1>7. ASSUME NEW o \in Orders, status[o] = "paid", status' = [status EXCEPT ![o] = "refunded"]
      PROVE  Lifecycle!Refund(o)
  <2>1. SettledOrders(status') = SettledOrders(status)
    BY <1>7
  <2>2. NetOf(status') = [NetOf(status) EXCEPT ![o] = 0]
    BY <1>7
  <2> QED BY <1>1, <1>2, <1>7, <2>1, <2>2 DEF Lifecycle!Refund
<1> QED BY <1>3, <1>4, <1>5, <1>6, <1>7 DEF StatusStep, RefundStep, Lifecycle!Next

\* Module Orders implements module OrderLifecycle: seats and earnings appear in
\* the step that pays the order, and no order is paid after it was cancelled.
THEOREM OrdersImplementLifecycle == Spec => ImplementsLifecycle
<1>1. OrdersInit => LifeInv
  BY InitInv DEF LifeInv, NoRefunds, OrdersInit
<1>2. OrdersInit => Lifecycle!Init
  <2> SUFFICES ASSUME OrdersInit PROVE Lifecycle!Init
    OBVIOUS
  <2>1. LifeInv
    BY <1>1
  <2>2. IssuedOrders = {}
    BY <2>1, LifecycleView DEF LifeView, OrdersInit, SettledStatus, SettledOrders
  <2> QED BY <2>2 DEF OrdersInit, Lifecycle!Init
<1>3. LifeInv /\ [Next]_vars => LifeInv'
  BY LifeStep
<1>4. LifeInv /\ [Next]_vars => [Lifecycle!Next]_(Lifecycle!lifecycleVars)
  <2> SUFFICES ASSUME LifeInv, [Next]_vars PROVE [Lifecycle!Next]_(Lifecycle!lifecycleVars)
    OBVIOUS
  <2>1. LifeInv' /\ StatusStep
    BY LifeStep
  <2>2. LifeView'
    BY <2>1, LifecycleView, PTL
  <2>3. LifeView /\ status \in [Orders -> OrderStatus \cup {"none"}]
    BY LifecycleView DEF LifeInv, OrderInv, OrdersTypeOK
  <2> QED BY <2>1, <2>2, <2>3, StepRefines
<1> QED BY <1>1, <1>2, <1>3, <1>4, PTL DEF Spec, ImplementsLifecycle, Lifecycle!Spec

----------------------------------------------------------------------------
(* The desk (module OrderModeration) *)


Refunding(w) == desk[w].pc \in {"askProvider", "refund", "revoking"}

\* A refund that got past its check is about a settled order: statuses never
\* go back, although nobody looks again.
RefundsSettled == \A w \in Staff : Refunding(w) => status[desk[w].order] \in SettledStatus

\* The tickets of a refund that has read them: the ones it will not revoke let
\* nobody in, unless they were reissued.
RevokingOK ==
  \A w \in Staff :
    desk[w].pc = "revoking" =>
      /\ desk[w].ids \subseteq SeatsOf(desk[w].order)
      /\ desk[w].readValid \subseteq desk[w].ids
      /\ \A s \in SeatsOf(desk[w].order) \ desk[w].ids :
           ticket[s] = "valid" => s \in reissued

DeskInv == /\ OrderInv
           /\ desk \in [Staff -> DeskState] /\ reissued \subseteq Seats
           /\ RefundBooked /\ NoValidSeatAfterRefund
           /\ RefundsSettled /\ RevokingOK

----------------------------------------------------------------------------
(* What a step of module Orders leaves alone *)

TicketsKept == \A s \in Seats :
                 ticket'[s] = "valid" => ticket[s] = "valid" \/ status[s[1]] = "pending"
ItemsKept == \A o \in Orders : status[o] # "none" => cart'[o] = cart[o]

\* Seats become valid only in the step that pays a pending order, and the items
\* of an order never change.
LEMMA StepKeeps ==
  ASSUME OrderInv, OrdersStep \/ CrashRequests
  PROVE  TicketsKept /\ ItemsKept
<1> USE DEF TicketsKept, ItemsKept, ticketVars, orderVars
<1>1. ASSUME NEW o \in Orders, NEW u \in Users, Admit(o, u)
      PROVE  TicketsKept /\ ItemsKept
  BY <1>1 DEF Admit
<1>2. ASSUME NEW o \in Orders, NEW c \in Carts, Reserve(o, c)
      PROVE  TicketsKept /\ ItemsKept
  BY <1>2 DEF Reserve, OrderInv, RequestsOK, OrdersTypeOK, TicketsTypeOK
<1>3. ASSUME NEW o \in Orders, StartPayment(o) \/ StartFails(o) \/ LinkPayment(o)
      PROVE  TicketsKept /\ ItemsKept
  BY <1>3 DEF StartPayment, StartFails, LinkPayment
<1>4. ASSUME NEW o \in Orders, Fulfill(o)
      PROVE  TicketsKept /\ ItemsKept
  BY <1>4 DEF Fulfill, IssueForOrder, SetSeats, SeatsOf
<1>5. ASSUME NEW o \in Orders, Cancel(o) \/ CancelStale(o)
      PROVE  TicketsKept /\ ItemsKept
  BY <1>5 DEF Cancel, CancelStale, CancelOrder
<1>6. ASSUME NEW s \in Seats, Scan(s)
      PROVE  TicketsKept /\ ItemsKept
  BY <1>6 DEF Scan, ScanByCode, SetSeats
<1>7. ASSUME ExpireHolds \/ ReadStale \/ Tick \/ CrashRequests
      PROVE  TicketsKept /\ ItemsKept
  BY <1>7 DEF ExpireHolds, ReadStale, Tick, CrashRequests
<1> QED BY <1>1, <1>2, <1>3, <1>4, <1>5, <1>6, <1>7
        DEF OrdersStep, FulfillFree, PaymentSucceeded

\* Beside a desk that stands still, or is emptied by a crash, such steps keep
\* what the desk relies on.
LEMMA BesideDesk ==
  ASSUME DeskInv, OrderInv', StatusStep, RefundsKept, TicketsKept, ItemsKept,
         desk' \in [Staff -> DeskState],
         \A w \in Staff : desk'[w] = desk[w] \/ desk'[w] = Idle,
         reissued' = reissued
  PROVE  DeskInv'
<1>1. \A o \in Orders : /\ status'[o] = "refunded" <=> status[o] = "refunded"
                        /\ status[o] \in SettledStatus => status'[o] \in SettledStatus
  BY DEF StatusStep, SettledStatus, DeskInv, OrderInv, OrdersTypeOK
<1>2. RefundBooked'
  BY <1>1 DEF RefundBooked, RefundsKept, DeskInv
<1>3. NoValidSeatAfterRefund'
  <2> SUFFICES ASSUME NEW s \in Seats, ticket'[s] = "valid", status'[OrderOf(s)] = "refunded"
               PROVE  s \in reissued
    BY DEF NoValidSeatAfterRefund, OrderOf
  <2>1. s[1] \in Orders /\ status[s[1]] = "refunded"
    BY <1>1 DEF OrderOf, Seats
  <2>2. ticket[s] = "valid"
    BY <2>1 DEF TicketsKept
  <2> QED BY <2>1, <2>2 DEF DeskInv, NoValidSeatAfterRefund, OrderOf
<1>4. \A w \in Staff : Refunding(w)' => Refunding(w) /\ desk'[w] = desk[w]
  BY DEF Refunding, Idle
<1>5. \A w \in Staff : Refunding(w) => desk[w].order \in Orders
  BY DEF Refunding, DeskInv, DeskState, Idle
<1>6. RefundsSettled'
  BY <1>1, <1>4, <1>5 DEF RefundsSettled, DeskInv
<1>7. RevokingOK'
  <2> SUFFICES ASSUME NEW w \in Staff, desk'[w].pc = "revoking"
               PROVE  /\ desk'[w].ids \subseteq (SeatsOf(desk[w].order))'
                      /\ desk'[w].readValid \subseteq desk'[w].ids
                      /\ \A s \in (SeatsOf(desk[w].order))' \ desk'[w].ids :
                           ticket'[s] = "valid" => s \in reissued'
    BY DEF RevokingOK
  <2>1. desk'[w] = desk[w] /\ desk[w].order \in Orders
        /\ status[desk[w].order] \in SettledStatus
    BY <1>4, <1>5 DEF Refunding, DeskInv, RefundsSettled
  <2>2. (SeatsOf(desk[w].order))' = SeatsOf(desk[w].order)
    BY <2>1 DEF ItemsKept, SeatsOf, SettledStatus
  <2>3. \A s \in SeatsOf(desk[w].order) : s \in Seats /\ s[1] = desk[w].order
    BY <2>1 DEF SeatsOf, Seats, DeskInv, OrderInv, OrdersTypeOK, TicketsTypeOK
  <2>4. \A s \in SeatsOf(desk[w].order) : ticket'[s] = "valid" => ticket[s] = "valid"
    BY <2>1, <2>3 DEF TicketsKept, SettledStatus
  <2> QED BY <2>1, <2>2, <2>4 DEF DeskInv, RevokingOK
<1>8. reissued' \subseteq Seats
  BY DEF DeskInv
<1> QED BY <1>2, <1>3, <1>6, <1>7, <1>8 DEF DeskInv

----------------------------------------------------------------------------
(* The desk's own steps *)

\* A session that changes hands with nothing written: what it remembers must be
\* true of the state it read.
LEMMA SessionStep ==
  ASSUME DeskInv, NEW w \in Staff, NEW d \in DeskState, Desk(w, d),
         UNCHANGED <<vars, reissued>>,
         d.pc \in {"askProvider", "refund", "revoking"} => status[d.order] \in SettledStatus,
         d.pc = "revoking" =>
           /\ d.ids \subseteq SeatsOf(d.order) /\ d.readValid \subseteq d.ids
           /\ \A s \in SeatsOf(d.order) \ d.ids : ticket[s] = "valid" => s \in reissued
  PROVE  DeskInv'
<1>1. OrderInv'
  BY StutterInv DEF DeskInv
<1>2. desk' = [desk EXCEPT ![w] = d] /\ desk \in [Staff -> DeskState]
  BY DEF Desk, DeskInv
<1>3. UNCHANGED <<ticket, cart, status, ledger, reissued>>
  BY DEF vars, ticketVars, orderVars
<1>4. desk' \in [Staff -> DeskState] /\ reissued' \subseteq Seats
  BY <1>2, <1>3 DEF DeskInv
<1>5. RefundBooked' /\ NoValidSeatAfterRefund'
  BY <1>3 DEF DeskInv, RefundBooked, NoValidSeatAfterRefund
<1>6. RefundsSettled'
  <2> SUFFICES ASSUME NEW v \in Staff, Refunding(v)'
               PROVE  status'[desk'[v].order] \in SettledStatus
    BY DEF RefundsSettled
  <2>1. CASE v = w
    BY <1>2, <1>3, <2>1 DEF Refunding
  <2>2. CASE v # w
    BY <1>2, <1>3, <2>2 DEF Refunding, DeskInv, RefundsSettled
  <2> QED BY <2>1, <2>2
<1>7. RevokingOK'
  <2> SUFFICES ASSUME NEW v \in Staff, desk'[v].pc = "revoking"
               PROVE  /\ desk'[v].ids \subseteq (SeatsOf(desk[v].order))'
                      /\ desk'[v].readValid \subseteq desk'[v].ids
                      /\ \A s \in (SeatsOf(desk[v].order))' \ desk'[v].ids :
                           ticket'[s] = "valid" => s \in reissued'
    BY DEF RevokingOK
  <2>1. CASE v = w
    BY <1>2, <1>3, <2>1 DEF SeatsOf
  <2>2. CASE v # w
    BY <1>2, <1>3, <2>2 DEF SeatsOf, DeskInv, RevokingOK
  <2> QED BY <2>1, <2>2
<1> QED BY <1>1, <1>4, <1>5, <1>6, <1>7 DEF DeskInv

\* What a session is when it is somewhere.
LEMMA SessionShape ==
  ASSUME DeskInv, NEW w \in Staff
  PROVE  /\ Refunding(w) => /\ desk[w].order \in Orders
                            /\ desk[w].locksPayment \in BOOLEAN
                            /\ status[desk[w].order] \in SettledStatus
         /\ desk[w].pc = "askProvider" =>
              desk[w] \in [pc : {"askProvider"}, order : Orders, locksPayment : BOOLEAN]
         /\ desk[w].pc = "revoking" => /\ desk[w].ids \in SUBSET Seats
                                       /\ desk[w].readValid \in SUBSET Seats
         /\ desk[w].pc \in {"markPaid", "settlePayment"} => desk[w].order \in Orders
         /\ desk[w].pc = "revoke" => desk[w].seat \in Seats
<1>1. desk[w] \in DeskState
  BY DEF DeskInv
<1> QED BY <1>1 DEF DeskState, Idle, Refunding, DeskInv, RefundsSettled

\* The desk's steps that read rows and write nothing.
LEMMA ReadStepsInv ==
  ASSUME DeskInv, NEW w \in Staff,
         \/ \E o \in Orders : \/ \E asks \in BOOLEAN : StartRefund(w, o, asks)
                              \/ StartMarkPaid(w, o)
         \/ \E s \in Seats : StartRevoke(w, s)
         \/ ProviderRefunds(w) \/ ProviderRefuses(w) \/ OpenRefund(w) \/ SettlePayment(w)
  PROVE  DeskInv'
<1> USE DEF AtDesk
<1>0. Idle \in DeskState /\ Idle.pc = "idle"
  BY DEF DeskState, Idle
<1>1. ASSUME NEW o \in Orders, NEW asks \in BOOLEAN, StartRefund(w, o, asks)
      PROVE  DeskInv'
  <2> DEFINE d == [pc |-> IF asks THEN "askProvider" ELSE "refund", order |-> o,
                   locksPayment |-> payRow[o] = "linked"]
  <2>1. d \in DeskState
    <3>1. d.pc \in {"askProvider", "refund"} /\ d.locksPayment \in BOOLEAN
      OBVIOUS
    <3>2. d \in [pc : {"askProvider", "refund"}, order : Orders, locksPayment : BOOLEAN]
      BY <3>1
    <3> QED BY <3>2 DEF DeskState
  <2>2. status[d.order] \in SettledStatus /\ d.pc # "revoking"
    BY <1>1 DEF StartRefund, SettledStatus
  <2>3. Desk(w, d) /\ UNCHANGED <<vars, reissued>>
    BY <1>1 DEF StartRefund
  <2> HIDE DEF d
  <2> QED BY <2>1, <2>2, <2>3, SessionStep
<1>2. ASSUME NEW o \in Orders, StartMarkPaid(w, o)
      PROVE  DeskInv'
  <2> DEFINE d == [pc |-> "markPaid", order |-> o, hasPayment |-> payRow[o] = "linked"]
  <2>1. d \in DeskState /\ d.pc = "markPaid"
    <3>1. d.hasPayment \in BOOLEAN
      OBVIOUS
    <3>2. d \in [pc : {"markPaid"}, order : Orders, hasPayment : BOOLEAN]
      BY <3>1
    <3> QED BY <3>2 DEF DeskState
  <2>2. Desk(w, d) /\ UNCHANGED <<vars, reissued>>
    BY <1>2 DEF StartMarkPaid
  <2> HIDE DEF d
  <2> QED BY <2>1, <2>2, SessionStep
<1>3. ASSUME NEW s \in Seats, StartRevoke(w, s)
      PROVE  DeskInv'
  <2> DEFINE d == [pc |-> "revoke", seat |-> s]
  <2>1. d \in DeskState /\ d.pc = "revoke"
    BY DEF DeskState
  <2>2. Desk(w, d) /\ UNCHANGED <<vars, reissued>>
    BY <1>3 DEF StartRevoke
  <2> HIDE DEF d
  <2> QED BY <2>1, <2>2, SessionStep
<1>4. ASSUME ProviderRefunds(w) PROVE DeskInv'
  <2> DEFINE d == [desk[w] EXCEPT !.pc = "refund"]
  <2>1. desk[w] \in [pc : {"askProvider"}, order : Orders, locksPayment : BOOLEAN]
        /\ status[desk[w].order] \in SettledStatus
    BY <1>4, SessionShape DEF ProviderRefunds, Refunding
  <2>2. d \in [pc : {"askProvider", "refund"}, order : Orders, locksPayment : BOOLEAN]
        /\ d.pc = "refund" /\ d.order = desk[w].order
    BY <2>1
  <2>3. d \in DeskState
    BY <2>2 DEF DeskState
  <2>4. Desk(w, d) /\ UNCHANGED <<vars, reissued>>
    BY <1>4 DEF ProviderRefunds
  <2> HIDE DEF d
  <2> QED BY <2>1, <2>2, <2>3, <2>4, SessionStep
<1>5. ASSUME ProviderRefuses(w) \/ SettlePayment(w) PROVE DeskInv'
  <2>1. Desk(w, Idle) /\ UNCHANGED <<vars, reissued>>
    BY <1>5 DEF ProviderRefuses, SettlePayment
  <2> QED BY <1>0, <2>1, SessionStep
<1>6. ASSUME OpenRefund(w) PROVE DeskInv'
  <2> DEFINE o == desk[w].order
             d == [pc |-> "revoking", order |-> o,
                   locksPayment |-> desk[w].locksPayment,
                   ids |-> Unscanned(o),
                   readValid |-> {s \in Unscanned(o) : ticket[s] = "valid"}]
  <2>1. o \in Orders /\ desk[w].locksPayment \in BOOLEAN /\ status[o] \in SettledStatus
    BY <1>6, SessionShape DEF OpenRefund, Refunding
  <2>2. Unscanned(o) \subseteq SeatsOf(o) /\ SeatsOf(o) \subseteq Seats
    BY <2>1, OrderSeatsCount DEF Unscanned, DeskInv, OrderInv
  <2>3. d \in DeskState
    BY <2>1, <2>2 DEF DeskState
  <2>4. \A s \in SeatsOf(o) \ Unscanned(o) : ticket[s] # "valid"
    BY DEF Unscanned
  <2>5. /\ d.pc = "revoking" /\ d.order = o /\ d.ids = Unscanned(o)
        /\ d.readValid \subseteq Unscanned(o)
    OBVIOUS
  <2>6. Desk(w, d) /\ UNCHANGED <<vars, reissued>>
    BY <1>6 DEF OpenRefund
  <2> HIDE DEF d, o
  <2> QED BY <2>1, <2>2, <2>3, <2>4, <2>5, <2>6, SessionStep
<1> QED BY <1>1, <1>2, <1>3, <1>4, <1>5, <1>6

\* A session that goes idle after writing tickets or the order: the other
\* sessions keep what they remember when settled orders stay settled, items stay
\* and no ticket becomes valid unless it is reissued.
LEMMA OtherSessions ==
  ASSUME DeskInv, NEW w \in Staff,
         desk' = desk \/ desk' = [desk EXCEPT ![w] = Idle]
           \/ \E d \in DeskState : d.pc = "settlePayment" /\ desk' = [desk EXCEPT ![w] = d],
         \A o \in Orders : status[o] \in SettledStatus => status'[o] \in SettledStatus,
         cart' = cart,
         \A s \in Seats : ticket'[s] = "valid" =>
            ticket[s] = "valid" \/ s \in reissued' \/ status[s[1]] = "pending",
         reissued \subseteq reissued'
  PROVE  desk' \in [Staff -> DeskState] /\ RefundsSettled' /\ RevokingOK'
<1>0. Idle \in DeskState /\ desk \in [Staff -> DeskState]
  BY DEF DeskState, DeskInv
<1>1. desk' \in [Staff -> DeskState]
  BY <1>0
<1>2. \A v \in Staff : Refunding(v)' => Refunding(v) /\ desk'[v] = desk[v]
  BY <1>0 DEF Refunding, Idle
<1>3. RefundsSettled'
  BY <1>2, SessionShape DEF RefundsSettled
<1>4. RevokingOK'
  <2> SUFFICES ASSUME NEW v \in Staff, desk'[v].pc = "revoking"
               PROVE  /\ desk'[v].ids \subseteq (SeatsOf(desk[v].order))'
                      /\ desk'[v].readValid \subseteq desk'[v].ids
                      /\ \A s \in (SeatsOf(desk[v].order))' \ desk'[v].ids :
                           ticket'[s] = "valid" => s \in reissued'
    BY DEF RevokingOK
  <2>1. Refunding(v) /\ desk'[v] = desk[v]
    BY <1>2 DEF Refunding
  <2>2. desk[v].order \in Orders /\ status[desk[v].order] \in SettledStatus
    BY <2>1, SessionShape
  <2>3. SeatsOf(desk[v].order) \subseteq Seats
    BY <2>2, OrderSeatsCount DEF DeskInv, OrderInv
  <2>4. \A s \in SeatsOf(desk[v].order) : s[1] = desk[v].order
    BY DEF SeatsOf
  <2>5. (SeatsOf(desk[v].order))' = SeatsOf(desk[v].order)
    BY <2>1 DEF SeatsOf
  <2> QED BY <2>1, <2>2, <2>3, <2>4, <2>5 DEF DeskInv, RevokingOK, SettledStatus
<1> QED BY <1>1, <1>3, <1>4

\* A decremented counter is still a number.
LEMMA DecrementNat ==
  ASSUME NEW a \in Nat, NEW n \in Nat
  PROVE  Decrement(a, n) \in Nat
  BY DEF Decrement

\* A refund's write: only seats that were issued are revoked, and the order,
\* settled before, is refunded.
LEMMA CommitRefundInv ==
  ASSUME DeskInv, NEW w \in Staff, CommitRefund(w)
  PROVE  /\ DeskInv'
         /\ status[desk[w].order] \in SettledStatus
         /\ status' = [status EXCEPT ![desk[w].order] = "refunded"]
<1> DEFINE o == desk[w].order
           ids == desk[w].ids
           rv == desk[w].readValid
<1>1. /\ o \in Orders /\ status[o] \in SettledStatus
      /\ ids \in SUBSET Seats /\ rv \in SUBSET Seats
  BY SessionShape DEF CommitRefund, AtDesk, Refunding
<1>2. ids \subseteq SeatsOf(o) /\ \A s \in SeatsOf(o) \ ids : ticket[s] = "valid" => s \in reissued
  BY DEF CommitRefund, AtDesk, DeskInv, RevokingOK
<1>3. /\ RevokeRead(ids, rv) /\ ReverseEventRevenue(o) /\ RecordRefund(o)
      /\ status' = [status EXCEPT ![o] = "refunded"] /\ Desk(w, Idle)
      /\ UNCHANGED <<now, cart, buyer, hold, payRow, firstSale, late, requestVars, reissued>>
  BY DEF CommitRefund
<1> HIDE DEF o, ids, rv
<1>4. OrderInv
  BY DEF DeskInv
<1>5. \A s \in ids : s[1] = o /\ s[2] \in cart[o]
  BY <1>2 DEF SeatsOf
<1>6. OrdersTypeOK'
  <2>1. ticket' \in [Seats -> TicketStatus \cup {"none"}]
    BY <1>3, <1>4 DEF OrderInv, OrdersTypeOK, TicketsTypeOK, RevokeRead, SetSeats, TicketStatus
  <2>2. \A t \in Types : Cardinality(OfType(rv, t)) \in Nat
    <3> TAKE t \in Types
    <3>1. OfType(rv, t) \in SUBSET Seats
      BY <1>1 DEF OfType
    <3> QED BY <3>1, SeatsCount
  <2>3. soldCount' \in [Types -> Nat]
    BY <1>3, <1>4, <2>2, DecrementNat DEF OrderInv, OrdersTypeOK, TicketsTypeOK, RevokeRead
  <2>4. ticketsSold' \in Nat
    <3>1. Cardinality(rv) \in Nat
      BY <1>1, SeatsCount
    <3> QED BY <1>3, <1>4, <3>1, DecrementNat DEF OrderInv, OrdersTypeOK, TicketsTypeOK, RevokeRead
  <2>5. revenue' \in Nat
    <3>1. Subtotal(cart[o]) \in Nat
      BY <1>1, <1>4, OrderSeatsCount DEF OrderInv
    <3> QED BY <1>3, <1>4, <3>1, DecrementNat DEF OrderInv, OrdersTypeOK, ReverseEventRevenue
  <2>6. ledger' \in [Orders -> [sale : Nat, refund : Nat]]
    <3>1. ledger \in [Orders -> [sale : Nat, refund : Nat]]
      BY <1>4 DEF OrderInv, OrdersTypeOK
    <3>2. ledger' = [ledger EXCEPT ![o].refund = @ + 1]
      BY <1>3 DEF RecordRefund
    <3> QED BY <1>1, <3>1, <3>2
  <2>7. status' \in [Orders -> OrderStatus \cup {"none"}]
    BY <1>3, <1>4 DEF OrderInv, OrdersTypeOK, OrderStatus
  <2> QED BY <1>3, <1>4, <2>1, <2>3, <2>4, <2>5, <2>6, <2>7
        DEF OrderInv, OrdersTypeOK, TicketsTypeOK, requestVars
<1>7. (CartsOK /\ RequestsOK /\ HoldsOK /\ FirstSaleOK)'
  BY <1>1, <1>3, <1>4 DEF OrderInv, OrdersTypeOK, CartsOK, RequestsOK, HoldsOK, FirstSaleOK,
       SettledStatus, requestVars
<1>8. SalesOK'
  BY <1>1, <1>3, <1>4 DEF OrderInv, OrdersTypeOK, SalesOK, RecordRefund, SettledStatus
<1>9. \A s \in Seats : ticket'[s] = IF s \in ids THEN "revoked" ELSE ticket[s]
  BY <1>3 DEF RevokeRead, SetSeats
<1>10. SeatsOK'
  BY <1>1, <1>3, <1>4, <1>5, <1>9
     DEF OrderInv, OrdersTypeOK, SeatsOK, Seats, SettledStatus
<1>11. OrderInv'
  BY <1>6, <1>7, <1>8, <1>10 DEF OrderInv
<1>12. RefundBooked'
  <2>1. ledger'[o].refund > 0
    BY <1>1, <1>3, <1>4 DEF RecordRefund, OrderInv, OrdersTypeOK
  <2>2. \A p \in Orders \ {o} : ledger'[p] = ledger[p] /\ status'[p] = status[p]
    BY <1>3, <1>4 DEF RecordRefund, OrderInv, OrdersTypeOK
  <2>3. status'[o] = "refunded"
    BY <1>1, <1>3, <1>4 DEF OrderInv, OrdersTypeOK
  <2> QED BY <2>1, <2>2, <2>3 DEF RefundBooked, DeskInv
<1>13. NoValidSeatAfterRefund'
  <2> SUFFICES ASSUME NEW s \in Seats, ticket'[s] = "valid", status'[OrderOf(s)] = "refunded"
               PROVE  s \in reissued'
    BY DEF NoValidSeatAfterRefund, OrderOf
  <2>1. s \notin ids /\ ticket[s] = "valid"
    BY <1>9
  <2>2. CASE s[1] = o
    <3>1. s[2] \in cart[o]
      BY <1>4, <2>1, <2>2 DEF OrderInv, SeatsOK
    <3>2. s \in SeatsOf(o)
      BY <2>2, <3>1 DEF SeatsOf, Seats
    <3> QED BY <1>2, <1>3, <2>1, <3>2
  <2>3. CASE s[1] # o
    <3>1. s[1] \in Orders /\ status[s[1]] = "refunded"
      BY <1>3, <1>4, <2>3 DEF OrderOf, Seats, OrderInv, OrdersTypeOK
    <3> QED BY <1>3, <2>1, <3>1 DEF DeskInv, NoValidSeatAfterRefund, OrderOf
  <2> QED BY <2>2, <2>3
<1>14. desk' \in [Staff -> DeskState] /\ RefundsSettled' /\ RevokingOK'
  <2>1. \A p \in Orders : status[p] \in SettledStatus => status'[p] \in SettledStatus
    BY <1>3, <1>4 DEF OrderInv, OrdersTypeOK, SettledStatus
  <2>2. \A s \in Seats : ticket'[s] = "valid" => ticket[s] = "valid"
    BY <1>9
  <2>3. desk' = [desk EXCEPT ![w] = Idle]
    BY <1>3 DEF Desk
  <2> QED BY <1>3, <2>1, <2>2, <2>3, OtherSessions
<1>15. reissued' \subseteq Seats
  BY <1>3 DEF DeskInv
<1> QED BY <1>1, <1>3, <1>11, <1>12, <1>13, <1>14, <1>15 DEF DeskInv, o

\* Revoking or reissuing one issued ticket: its order keeps its status.
LEMMA OneTicketInv ==
  ASSUME DeskInv, NEW w \in Staff, NEW s \in Seats,
         \/ Revoke(s) /\ reissued' = reissued
         \/ Reissue(s) /\ reissued' = reissued \cup {s},
         UNCHANGED <<now, cart, orderVars, requestVars>>,
         desk' = desk \/ desk' = [desk EXCEPT ![w] = Idle]
  PROVE  DeskInv'
<1> USE DEF orderVars, requestVars
<1>1. OrderInv
  BY DEF DeskInv
<1>2. TypeOf(s) \in Types
  BY DEF TypeOf, Seats, Slot
<1>3. /\ ticket[s] \notin {"none"}
      /\ \E st \in {"valid", "revoked"} :
           /\ ticket' = [x \in Seats |-> IF x \in {s} THEN st ELSE ticket[x]]
           /\ st = "valid" => s \in reissued'
  BY DEF Revoke, Reissue, Live, SetSeats
<1>4. soldCount' \in [Types -> Nat] /\ ticketsSold' \in Nat
  <2>1. CASE Revoke(s)
    <3>1. soldCount' = [soldCount EXCEPT ![TypeOf(s)] = Decrement(@, 1)]
          /\ ticketsSold' = Decrement(ticketsSold, 1)
      BY <2>1 DEF Revoke
    <3> QED BY <1>1, <1>2, <3>1, DecrementNat DEF OrderInv, OrdersTypeOK, TicketsTypeOK
  <2>2. CASE Reissue(s)
    BY <1>1, <1>2, <2>2 DEF Reissue, OrderInv, OrdersTypeOK, TicketsTypeOK
  <2> QED BY <2>1, <2>2
<1>5. OrdersTypeOK'
  BY <1>1, <1>3, <1>4 DEF OrderInv, OrdersTypeOK, TicketsTypeOK, TicketStatus
<1>6. \A x \in Seats : ticket'[x] # "none" <=> ticket[x] # "none"
  BY <1>3
<1>7. (CartsOK /\ RequestsOK /\ SeatsOK /\ SalesOK /\ HoldsOK /\ FirstSaleOK)'
  BY <1>1, <1>6 DEF OrderInv, CartsOK, RequestsOK, SeatsOK, SalesOK, HoldsOK, FirstSaleOK
<1>8. \A x \in Seats : ticket'[x] = "valid" => ticket[x] = "valid" \/ x \in reissued'
  BY <1>3
<1>9. reissued \subseteq reissued' /\ reissued' \subseteq Seats
  BY DEF DeskInv
<1>10. RefundBooked'
  BY DEF DeskInv, RefundBooked
<1>11. NoValidSeatAfterRefund'
  BY <1>8, <1>9 DEF DeskInv, NoValidSeatAfterRefund
<1>12. desk' \in [Staff -> DeskState] /\ RefundsSettled' /\ RevokingOK'
  BY <1>8, <1>9, OtherSessions
<1> QED BY <1>5, <1>7, <1>9, <1>10, <1>11, <1>12 DEF DeskInv, OrderInv

\* Mark-paid fulfils a pending order, or writes nothing.
LEMMA MarkPaidInv ==
  ASSUME DeskInv, NEW w \in Staff, MarkPaid(w)
  PROVE  DeskInv' /\ StatusStep /\ RefundsKept
<1> DEFINE o == desk[w].order
           d == IF desk[w].hasPayment THEN [pc |-> "settlePayment", order |-> o] ELSE Idle
<1>1. o \in Orders
  BY SessionShape DEF MarkPaid, AtDesk
<1>2. d \in DeskState /\ d.pc \in {"settlePayment", "idle"}
  BY <1>1 DEF DeskState, Idle
<1>3. Desk(w, d) /\ UNCHANGED <<requestVars, reissued>>
  BY DEF MarkPaid
<1>4. \/ Fulfill(o)
      \/ UNCHANGED <<now, cart, ticketVars, orderVars>>
  BY DEF MarkPaid
<1> HIDE DEF o, d
<1>5. CASE Fulfill(o)
  <2>1. OrderInv' /\ status' = [status EXCEPT ![o] = "paid"] /\ status[o] = "pending"
    BY <1>1, <1>3, <1>5, FulfillInv DEF DeskInv, requestVars, Fulfill
  <2>2. StatusStep
    BY <1>1, <2>1 DEF StatusStep
  <2>3. \A p \in Orders : /\ status[p] \in SettledStatus => status'[p] \in SettledStatus
                          /\ status'[p] = "refunded" <=> status[p] = "refunded"
    BY <2>1 DEF DeskInv, OrderInv, OrdersTypeOK, SettledStatus
  <2>4. \A s \in Seats : ticket'[s] = "valid" =>
            ticket[s] = "valid" \/ status[s[1]] = "pending"
    BY <1>5, <2>1 DEF Fulfill, IssueForOrder, SetSeats, SeatsOf
  <2>5. cart' = cart /\ reissued' = reissued
    BY <1>3, <1>5 DEF Fulfill
  <2>10. RefundsKept
    BY <1>5 DEF Fulfill, RecordSale, DeskInv, OrderInv, OrdersTypeOK, RefundsKept
  <2>6. RefundBooked'
    BY <2>3, <2>10 DEF DeskInv, RefundBooked, RefundsKept
  <2>7. NoValidSeatAfterRefund'
    <3> SUFFICES ASSUME NEW s \in Seats, ticket'[s] = "valid", status'[OrderOf(s)] = "refunded"
                 PROVE  s \in reissued'
      BY DEF NoValidSeatAfterRefund, OrderOf
    <3>1. s[1] \in Orders /\ status[s[1]] = "refunded"
      BY <2>3 DEF OrderOf, Seats
    <3> QED BY <2>4, <2>5, <3>1 DEF DeskInv, NoValidSeatAfterRefund, OrderOf
  <2>8. desk' = [desk EXCEPT ![w] = d] /\ (d.pc = "settlePayment" \/ d = Idle)
    BY <1>3 DEF Desk, d
  <2>9. desk' \in [Staff -> DeskState] /\ RefundsSettled' /\ RevokingOK'
    BY <1>2, <2>3, <2>4, <2>5, <2>8, OtherSessions
  <2> QED BY <2>1, <2>2, <2>5, <2>6, <2>7, <2>9, <2>10 DEF DeskInv
<1>6. CASE UNCHANGED <<now, cart, ticketVars, orderVars>>
  <2>1. UNCHANGED <<vars, reissued>>
    BY <1>3, <1>6 DEF vars
  <2>2. DeskInv'
    BY <1>2, <1>3, <2>1, SessionStep
  <2> QED BY <2>2, <1>6 DEF StatusStep, RefundsKept, orderVars
<1> QED BY <1>4, <1>5, <1>6

----------------------------------------------------------------------------
(* The invariant and the theorems *)

\* Statuses move forward only, a refund included.
MovesForward ==
  \A o \in Orders : status'[o] = status[o] \/ <<status[o], status'[o]>> \in StatusMoves

\* What a step of the checkout does to a status is a move forward, and so is a refund.
LEMMA StatusStepForward ==
  ASSUME status \in [Orders -> OrderStatus \cup {"none"}], StatusStep \/ RefundStep
  PROVE  MovesForward
  BY DEF MovesForward, StatusStep, RefundStep, StatusMoves

\* Every step of the orders and the desk preserves DeskInv, and only the write of
\* a refund books or brings about anything but what the checkout does.
Ordinary == StatusStep /\ RefundsKept
LEMMA DeskStepKinds ==
  ASSUME DeskInv, [DeskNext]_allVars
  PROVE  DeskInv' /\ (Ordinary \/ \E w \in Staff : CommitRefund(w))
<1>1. CASE OrdersStep /\ UNCHANGED deskVars
  <2>1. OrderInv' /\ StatusStep /\ RefundsKept /\ TicketsKept /\ ItemsKept
    BY <1>1, StepInv, StepKeeps DEF DeskInv
  <2>2. desk' = desk /\ reissued' = reissued /\ desk' \in [Staff -> DeskState]
    BY <1>1 DEF deskVars, DeskInv
  <2>3. DeskInv'
    BY <2>1, <2>2, BesideDesk
  <2> QED BY <2>1, <2>3 DEF Ordinary
<1>2. CASE Crash
  <2>1. OrderInv' /\ StatusStep /\ RefundsKept /\ TicketsKept /\ ItemsKept
    BY <1>2, StepInv, StepKeeps DEF DeskInv, Crash
  <2>2. /\ desk' = [w \in Staff |-> Idle] /\ reissued' = reissued
        /\ desk' \in [Staff -> DeskState]
    BY <1>2 DEF Crash, DeskState
  <2>3. DeskInv'
    BY <2>1, <2>2, BesideDesk
  <2> QED BY <2>1, <2>3 DEF Ordinary
<1>3. ASSUME UNCHANGED orderVars PROVE Ordinary
  BY <1>3 DEF orderVars, Ordinary, StatusStep, RefundsKept
<1>4. ASSUME NEW w \in Staff, DeskStep(w) PROVE DeskInv' /\ (Ordinary \/ CommitRefund(w))
  <2>1. CASE \/ \E o \in Orders : \/ \E asks \in BOOLEAN : StartRefund(w, o, asks)
                                  \/ StartMarkPaid(w, o)
             \/ \E s \in Seats : StartRevoke(w, s)
             \/ ProviderRefunds(w) \/ ProviderRefuses(w) \/ OpenRefund(w) \/ SettlePayment(w)
    <3>1. DeskInv'
      BY <2>1, ReadStepsInv
    <3>2. UNCHANGED vars
      BY <2>1 DEF StartRefund, StartMarkPaid, StartRevoke, ProviderRefunds, ProviderRefuses,
           OpenRefund, SettlePayment
    <3> QED BY <1>3, <3>1, <3>2 DEF vars
  <2>2. CASE CommitRefund(w)
    BY <2>2, CommitRefundInv
  <2>3. CASE MarkPaid(w)
    BY <2>3, MarkPaidInv DEF Ordinary
  <2>4. ASSUME NEW s \in Seats, OrganizerRevoke(w, s) \/ AdminReissue(w, s)
        PROVE  DeskInv' /\ Ordinary
    <3>1. DeskInv'
      BY <2>4, OneTicketInv DEF OrganizerRevoke, AdminReissue, deskVars
    <3> QED BY <1>3, <2>4, <3>1 DEF OrganizerRevoke, AdminReissue
  <2>5. CASE AdminRevoke(w)
    <3>1. desk[w].seat \in Seats
      BY <2>5, SessionShape DEF AdminRevoke, AtDesk
    <3>2. Ordinary
      BY <1>3, <2>5 DEF AdminRevoke
    <3>3. CASE Revoke(desk[w].seat)
      BY <2>5, <3>1, <3>2, <3>3, OneTicketInv DEF AdminRevoke, Desk
    <3>4. CASE UNCHANGED ticketVars
      <4>1. Desk(w, Idle) /\ UNCHANGED <<vars, reissued>>
        BY <2>5, <3>4 DEF AdminRevoke, vars
      <4>2. Idle \in DeskState /\ Idle.pc = "idle"
        BY DEF DeskState, Idle
      <4> QED BY <3>2, <4>1, <4>2, SessionStep
    <3> QED BY <2>5, <3>3, <3>4 DEF AdminRevoke
  <2> QED BY <1>4, <2>1, <2>2, <2>3, <2>4, <2>5 DEF DeskStep
<1>5. CASE UNCHANGED allVars
  <2>1. OrderInv' /\ UNCHANGED orderVars
    BY <1>5, StutterInv DEF DeskInv, allVars, vars
  <2>2. UNCHANGED <<status, ticket, cart, ledger, desk, reissued>>
    BY <1>5 DEF allVars, vars, orderVars, ticketVars, deskVars
  <2>3. DeskInv'
    BY <2>1, <2>2 DEF DeskInv, RefundBooked, NoValidSeatAfterRefund, RefundsSettled, Refunding,
         RevokingOK, SeatsOf
  <2> QED BY <1>3, <2>1, <2>3
<1> QED BY <1>1, <1>2, <1>4, <1>5 DEF DeskNext

\* So a step moves at most one status, and as the life cycle does.
LEMMA DeskStepInv ==
  ASSUME DeskInv, [DeskNext]_allVars
  PROVE  DeskInv' /\ (StatusStep \/ RefundStep) /\ MovesForward
<1>1. DeskInv' /\ (Ordinary \/ \E w \in Staff : CommitRefund(w))
  BY DeskStepKinds
<1>2. status \in [Orders -> OrderStatus \cup {"none"}]
  BY DEF DeskInv, OrderInv, OrdersTypeOK
<1>3. ASSUME NEW w \in Staff, CommitRefund(w) PROVE StatusStep \/ RefundStep
  <2>1. /\ status[desk[w].order] \in SettledStatus
        /\ status' = [status EXCEPT ![desk[w].order] = "refunded"]
    BY <1>3, CommitRefundInv
  <2>2. desk[w].order \in Orders
    BY <1>3, SessionShape DEF CommitRefund, AtDesk, Refunding
  <2>3. CASE status[desk[w].order] = "paid"
    BY <2>1, <2>2, <2>3 DEF RefundStep
  <2>4. CASE status[desk[w].order] = "refunded"
    BY <1>2, <2>1, <2>2, <2>4 DEF StatusStep
  <2> QED BY <2>1, <2>3, <2>4 DEF SettledStatus
<1>4. StatusStep \/ RefundStep
  BY <1>1, <1>3 DEF Ordinary
<1> QED BY <1>1, <1>2, <1>4, StatusStepForward

\* An idle desk over an empty shop.
LEMMA DeskInitInv == DeskInit => DeskInv
<1> SUFFICES ASSUME DeskInit PROVE DeskInv
  OBVIOUS
<1>1. OrderInv /\ \A o \in Orders : ledger[o].refund = 0
  BY InitInv DEF DeskInit
<1> QED BY <1>1 DEF DeskInit, DeskInv, OrdersInit, TicketsInit, DeskState, Idle, RefundBooked,
      NoValidSeatAfterRefund, RefundsSettled, RevokingOK, Refunding

\* Whatever the desk sessions and the checkout do, DeskInv holds.
THEOREM DeskInvariant == DeskSpec => []DeskInv
<1>1. DeskInv /\ [DeskNext]_allVars => DeskInv'
  BY DeskStepInv
<1> QED BY <1>1, DeskInitInv, PTL DEF DeskSpec

\* The orders and the desk sessions keep their types: no stale session takes a
\* sold counter below zero or writes a status an order does not have.
THEOREM DeskTypeCorrect == DeskSpec => []DeskTypeOK
<1>1. DeskInv => DeskTypeOK
  BY DEF DeskInv, OrderInv, DeskTypeOK
<1> QED BY <1>1, DeskInvariant, PTL

\* Fulfilment stays exact beside any number of refunds, mark-paids, revocations
\* and reissues.
THEOREM FulfilledOnceAtDesk == DeskSpec => []FulfilledOnce
<1>1. DeskInv => FulfilledOnce
  BY InvFulfilledOnce DEF DeskInv
<1> QED BY <1>1, DeskInvariant, PTL

\* A refunded order lets nobody in but through a reissue, although a refund
\* reads its tickets without locking them.
THEOREM NoValidSeat == DeskSpec => []NoValidSeatAfterRefund
<1>1. DeskInv => NoValidSeatAfterRefund
  BY DEF DeskInv
<1> QED BY <1>1, DeskInvariant, PTL

\* A refund is booked exactly for the refunded orders.
THEOREM RefundsAreBooked == DeskSpec => []RefundBooked
<1>1. DeskInv => RefundBooked
  BY DEF DeskInv
<1> QED BY <1>1, DeskInvariant, PTL

\* No interleaving of stale desk requests takes an order's status backwards.
THEOREM StatusForward == DeskSpec => StatusNeverReverts
<1>1. DeskInv /\ [DeskNext]_allVars => [MovesForward]_allVars
  BY DeskStepInv
<1>2. [MovesForward]_allVars =>
        [\A o \in Orders : status'[o] = status[o]
                             \/ <<status[o], status'[o]>> \in StatusMoves]_allVars
  BY DEF MovesForward
<1> QED BY <1>1, <1>2, DeskInvariant, PTL DEF DeskSpec, StatusNeverReverts

----------------------------------------------------------------------------
(* The desk and the life cycle *)

\* Seats and earnings follow the statuses at the desk too, a refund counted once.
OnceView ==
  /\ IssuedOrders = SettledOrders(status)
  /\ [o \in Orders |-> ledger[o].sale - (IF ledger[o].refund = 0 THEN 0 ELSE 1)] = NetOf(status)

LEMMA DeskLifecycleView == DeskInv => OnceView
<1> SUFFICES ASSUME DeskInv PROVE OnceView
  OBVIOUS
<1>1. IssuedOrders = SettledOrders(status)
  BY IssuedAreSettled DEF DeskInv, Settled, SettledStatus, SettledOrders
<1>2. ASSUME NEW o \in Orders
      PROVE  ledger[o].sale - (IF ledger[o].refund = 0 THEN 0 ELSE 1)
               = IF status[o] = "paid" THEN 1 ELSE 0
  <2>1. ledger[o].refund \in Nat /\ ((status[o] = "refunded") = (ledger[o].refund > 0))
    BY DEF DeskInv, OrderInv, OrdersTypeOK, RefundBooked
  <2>2. ledger[o].sale = IF status[o] \in SettledStatus THEN 1 ELSE 0
    BY DEF DeskInv, OrderInv, SalesOK
  <2> QED BY <2>1, <2>2 DEF SettledStatus
<1> QED BY <1>1, <1>2 DEF OnceView, NetOf

LEMMA DeskStepRefines ==
  ASSUME status \in [Orders -> OrderStatus \cup {"none"}], OnceView, OnceView', StatusStep \/ RefundStep
  PROVE  [DeskLifecycle!Next]_(DeskLifecycle!lifecycleVars)
<1> DEFINE net == [o \in Orders |-> ledger[o].sale - (IF ledger[o].refund = 0 THEN 0 ELSE 1)]
<1>1. IssuedOrders = SettledOrders(status) /\ net = NetOf(status)
  BY DEF OnceView
<1>2. IssuedOrders' = SettledOrders(status') /\ net' = NetOf(status')
  BY DEF OnceView, SettledOrders, NetOf
<1>3. CASE status' = status
  BY <1>1, <1>2, <1>3 DEF DeskLifecycle!lifecycleVars
<1> USE DEF SettledOrders, NetOf, SettledStatus
<1>4. ASSUME NEW o \in Orders, status[o] = "none", status' = [status EXCEPT ![o] = "pending"]
      PROVE  DeskLifecycle!Place(o)
  <2>1. SettledOrders(status') = SettledOrders(status) /\ NetOf(status') = NetOf(status)
    BY <1>4
  <2> QED BY <1>1, <1>2, <1>4, <2>1 DEF DeskLifecycle!Place
<1>5. ASSUME NEW o \in Orders, status[o] = "pending", status' = [status EXCEPT ![o] = "paid"]
      PROVE  DeskLifecycle!Pay(o)
  <2>1. SettledOrders(status') = SettledOrders(status) \cup {o}
    BY <1>5
  <2>2. NetOf(status') = [NetOf(status) EXCEPT ![o] = 1]
    BY <1>5
  <2> QED BY <1>1, <1>2, <1>5, <2>1, <2>2 DEF DeskLifecycle!Pay
<1>6. ASSUME NEW o \in Orders, status[o] = "pending", status' = [status EXCEPT ![o] = "cancelled"]
      PROVE  DeskLifecycle!Drop(o)
  <2>1. SettledOrders(status') = SettledOrders(status) /\ NetOf(status') = NetOf(status)
    BY <1>6
  <2> QED BY <1>1, <1>2, <1>6, <2>1 DEF DeskLifecycle!Drop
<1>7. ASSUME NEW o \in Orders, status[o] = "paid", status' = [status EXCEPT ![o] = "refunded"]
      PROVE  DeskLifecycle!Refund(o)
  <2>1. SettledOrders(status') = SettledOrders(status)
    BY <1>7
  <2>2. NetOf(status') = [NetOf(status) EXCEPT ![o] = 0]
    BY <1>7
  <2> QED BY <1>1, <1>2, <1>7, <2>1, <2>2 DEF DeskLifecycle!Refund
<1> QED BY <1>3, <1>4, <1>5, <1>6, <1>7 DEF StatusStep, RefundStep, DeskLifecycle!Next

\* Any number of sessions that act on stale rows keep each order to its life cycle:
\* paid or cancelled once, its seats and earnings with the payment, the earnings
\* gone with the refund, however many sessions book it.
THEOREM DeskKeepsLifecycle == DeskSpec => DeskFollowsLifecycle
<1>1. DeskInit => DeskLifecycle!Init
  <2> SUFFICES ASSUME DeskInit PROVE DeskLifecycle!Init
    OBVIOUS
  <2>1. OnceView
    BY DeskInitInv, DeskLifecycleView
  <2>2. IssuedOrders = {}
    BY <2>1 DEF OnceView, DeskInit, OrdersInit, SettledStatus, SettledOrders
  <2> QED BY <2>2 DEF DeskInit, OrdersInit, DeskLifecycle!Init
<1>2. DeskInv /\ [DeskNext]_allVars => [DeskLifecycle!Next]_(DeskLifecycle!lifecycleVars)
  <2> SUFFICES ASSUME DeskInv, [DeskNext]_allVars
               PROVE  [DeskLifecycle!Next]_(DeskLifecycle!lifecycleVars)
    OBVIOUS
  <2>1. DeskInv' /\ (StatusStep \/ RefundStep)
    BY DeskStepInv
  <2>2. OnceView'
    BY <2>1, DeskLifecycleView, PTL
  <2>3. OnceView /\ status \in [Orders -> OrderStatus \cup {"none"}]
    BY DeskLifecycleView DEF DeskInv, OrderInv, OrdersTypeOK
  <2> QED BY <2>1, <2>2, <2>3, DeskStepRefines
<1> QED BY <1>1, <1>2, DeskInvariant, PTL DEF DeskSpec, DeskFollowsLifecycle, DeskLifecycle!Spec

----------------------------------------------------------------------------
(* The books at a desk of one session *)

\* One desk session: nobody else moves a ticket between its read and its write.
OneSession == \A v, w \in Staff : v = w

\* What a lone session remembers of a refund is still true when it writes.
ReadExact ==
  \A w \in Staff :
    /\ Refunding(w) => status[desk[w].order] = "paid"
    /\ desk[w].pc = "revoking" => desk[w].readValid = {s \in desk[w].ids : Live(s)}

\* Seats that leave the live ones leave the counters.
LEMMA SeatsLeave ==
  ASSUME OrderInv, CountersExact, NEW A \in SUBSET LiveSeats, LiveSeats' = LiveSeats \ A,
         soldCount' = [t \in Types |-> Decrement(soldCount[t], Cardinality(OfType(A, t)))],
         ticketsSold' = Decrement(ticketsSold, Cardinality(A))
  PROVE  CountersExact'
<1> DEFINE B == LiveSeats \ A
<1>1. A \in SUBSET Seats /\ B \in SUBSET Seats /\ A \cap B = {} /\ LiveSeats = A \cup B
  BY DEF LiveSeats
<1>2. Cardinality(A) \in Nat /\ Cardinality(B) \in Nat
  BY <1>1, SeatsCount
<1>3. ticketsSold' = Cardinality(B)
  <2>1. ticketsSold = Cardinality(A) + Cardinality(B)
    <3>1. Cardinality(LiveSeats) = Cardinality(A \cup B)
      BY <1>1, Zenon
    <3> HIDE DEF B
    <3> QED BY <1>1, <3>1, SeatsAdd DEF CountersExact
  <2> QED BY <1>2, <2>1 DEF Decrement
<1>4. ASSUME NEW t \in Types PROVE soldCount'[t] = Cardinality(OfType(B, t))
  <2>1. Cardinality(OfType(A, t)) \in Nat /\ Cardinality(OfType(B, t)) \in Nat
    <3>1. OfType(A, t) \in SUBSET Seats /\ OfType(B, t) \in SUBSET Seats
      BY <1>1 DEF OfType
    <3> QED BY <3>1, SeatsCount
  <2>2. soldCount[t] = Cardinality(OfType(A, t)) + Cardinality(OfType(B, t))
    <3>1. Cardinality(OfType(LiveSeats, t)) = Cardinality(OfType(A \cup B, t))
      BY <1>1, Zenon
    <3> HIDE DEF B
    <3> QED BY <1>1, <3>1, SeatsAdd DEF CountersExact
  <2> QED BY <2>1, <2>2 DEF Decrement
<1> QED BY <1>3, <1>4 DEF CountersExact, OfType

\* One seat taken back by a revocation, or brought back by a reissue.
LEMMA OneTicketBooks ==
  ASSUME OrderInv, BooksExact, NEW s \in Seats, Revoke(s) \/ Reissue(s),
         UNCHANGED <<cart, orderVars>>
  PROVE  BooksExact'
<1>1. TypeOf(s) \in Types /\ LiveSeats \in SUBSET Seats
  BY DEF TypeOf, Seats, Slot, LiveSeats
<1>2. soldCount \in [Types -> Nat] /\ ticketsSold \in Nat /\ CountersExact
  BY DEF OrderInv, OrdersTypeOK, TicketsTypeOK, BooksExact
<1>3. \A t \in Types : OfType({s}, t) = IF t = TypeOf(s) THEN {s} ELSE {}
  BY DEF OfType
<1>4. Cardinality({s}) = 1 /\ Cardinality({}) = 0
  BY FS_Singleton, FS_EmptySet
<1>5. \A t \in Types : Cardinality(OfType({s}, t)) = IF t = TypeOf(s) THEN 1 ELSE 0
  BY <1>3, <1>4
<1>8. revenue' = revenue /\ PaidOrders' = PaidOrders /\ cart' = cart
  BY DEF orderVars, PaidOrders
<1>6. CASE Revoke(s)
  <2>1. s \in LiveSeats /\ LiveSeats' = LiveSeats \ {s}
    BY <1>6 DEF Revoke, SetSeats, LiveSeats, Live
  <2>2. soldCount' = [t \in Types |-> Decrement(soldCount[t], Cardinality(OfType({s}, t)))]
        /\ ticketsSold' = Decrement(ticketsSold, Cardinality({s}))
    <3>1. soldCount' = [soldCount EXCEPT ![TypeOf(s)] = Decrement(@, 1)]
          /\ ticketsSold' = Decrement(ticketsSold, 1)
      BY <1>6 DEF Revoke
    <3>2. \A t \in Types : soldCount'[t] = Decrement(soldCount[t], Cardinality(OfType({s}, t)))
      BY <1>1, <1>2, <1>5, <3>1 DEF Decrement
    <3>3. soldCount' = [t \in Types |-> soldCount'[t]]
      BY <1>2, <3>1
    <3> QED BY <1>4, <3>1, <3>2, <3>3
  <2>3. CountersExact'
    BY <1>2, <2>1, <2>2, SeatsLeave
  <2> QED BY <1>8, <2>3, KeptRevenue DEF BooksExact
<1>7. CASE Reissue(s)
  <2>1. s \notin LiveSeats /\ LiveSeats' = LiveSeats \cup {s} /\ LiveSeats \cap {s} = {}
    BY <1>7 DEF Reissue, SetSeats, LiveSeats, Live
  <2>2. /\ Cardinality(LiveSeats \cup {s}) = Cardinality(LiveSeats) + Cardinality({s})
        /\ \A t \in Types : Cardinality(OfType(LiveSeats \cup {s}, t))
                              = Cardinality(OfType(LiveSeats, t)) + Cardinality(OfType({s}, t))
    BY <1>1, <2>1, SeatsAdd
  <2>3. \A t \in Types : soldCount'[t] = soldCount[t] + Cardinality(OfType({s}, t))
    BY <1>1, <1>2, <1>5, <1>7 DEF Reissue
  <2>4. CountersExact'
    BY <1>2, <1>4, <1>7, <2>1, <2>2, <2>3 DEF CountersExact, Reissue, OfType
  <2> QED BY <1>8, <2>4, KeptRevenue DEF BooksExact
<1> QED BY <1>6, <1>7

\* A lone refund takes from the books what its order put there.
LEMMA CommitBooks ==
  ASSUME DeskInv, BooksExact, ReadExact, NEW w \in Staff, CommitRefund(w)
  PROVE  BooksExact'
<1> DEFINE o == desk[w].order
           ids == desk[w].ids
           rv == desk[w].readValid
<1>1. o \in Orders /\ ids \in SUBSET Seats
  BY SessionShape DEF CommitRefund, AtDesk, Refunding
<1>2. rv = {s \in ids : Live(s)} /\ status[o] = "paid"
  BY DEF ReadExact, CommitRefund, AtDesk, Refunding
<1>3. /\ RevokeRead(ids, rv) /\ ReverseEventRevenue(o)
      /\ status' = [status EXCEPT ![o] = "refunded"] /\ cart' = cart
  BY DEF CommitRefund
<1> HIDE DEF o, ids, rv
<1>4. OrderInv /\ CartsOK /\ status \in [Orders -> OrderStatus \cup {"none"}]
      /\ CountersExact
  BY DEF DeskInv, OrderInv, OrdersTypeOK, BooksExact
<1>5. rv \in SUBSET LiveSeats /\ LiveSeats' = LiveSeats \ rv
  BY <1>1, <1>2, <1>3 DEF LiveSeats, Live, RevokeRead, SetSeats
<1>6. CountersExact'
  BY <1>3, <1>4, <1>5, SeatsLeave DEF RevokeRead
<1>7. o \in PaidOrders /\ PaidOrders' = PaidOrders \ {o}
  BY <1>1, <1>2, <1>3, <1>4 DEF PaidOrders
<1>8. Subtotals' = Subtotals
  BY <1>3 DEF Subtotals
<1>9. PaidOrders \in SUBSET Orders /\ PaidOrders \ {o} \in SUBSET Orders
  BY DEF PaidOrders
<1>10. SumOver(Subtotals, PaidOrders) = Subtotals[o] + SumOver(Subtotals, PaidOrders \ {o})
  <2>1. IsFiniteSet(PaidOrders) /\ \A p \in PaidOrders : Subtotals[p] \in Int
    BY <1>4, <1>9, SubtotalsFinite
  <2> QED BY <1>7, <2>1, SumRemove
<1>11. Subtotals[o] \in Nat /\ SumOver(Subtotals, PaidOrders \ {o}) \in Nat
       /\ Subtotals[o] = Subtotal(cart[o])
  BY <1>1, <1>4, <1>9, SubtotalsFinite
<1>12. revenue = SumOver(Subtotals, PaidOrders)
  BY RevenueAsSum DEF BooksExact, RevenueAddsUp
<1>13. revenue' = SumOver(Subtotals, PaidOrders \ {o})
  BY <1>3, <1>10, <1>11, <1>12 DEF ReverseEventRevenue, Decrement
<1>14. revenue' = SumOver(Subtotals', PaidOrders')
  BY <1>7, <1>8, <1>13
<1> QED BY <1>6, <1>14, RevenueNextAsSum DEF BooksExact

\* A step that is not the session's leaves what it read true: its order is
\* settled, so only scans touch its tickets.
LEMMA ReadKept ==
  ASSUME DeskInv, ReadExact, CountsKept \/ (\E o \in Orders : Fulfill(o)),
         \A w \in Staff : desk'[w] = desk[w] \/ ~Refunding(w)'
  PROVE  ReadExact'
<1> SUFFICES ASSUME NEW w \in Staff, desk'[w] = desk[w], Refunding(w)
             PROVE  /\ status'[desk[w].order] = "paid"
                    /\ desk[w].pc = "revoking" =>
                         desk[w].readValid = {s \in desk[w].ids : Live(s)'}
  BY DEF ReadExact, Refunding, Live
<1>1. /\ desk[w].order \in Orders /\ status[desk[w].order] = "paid"
      /\ desk[w].pc = "revoking" =>
           /\ desk[w].readValid = {s \in desk[w].ids : Live(s)}
           /\ desk[w].ids \subseteq SeatsOf(desk[w].order) /\ desk[w].ids \in SUBSET Seats
  BY SessionShape DEF ReadExact, Refunding, DeskInv, RevokingOK
<1>2. CASE CountsKept
  <2>1. desk[w].order \in PaidOrders'
    BY <1>1, <1>2 DEF CountsKept, PaidOrders
  <2> QED BY <1>1, <1>2, <2>1 DEF CountsKept, PaidOrders
<1>3. ASSUME NEW o \in Orders, Fulfill(o)
      PROVE  /\ status'[desk[w].order] = "paid"
             /\ desk[w].pc = "revoking" =>
                  desk[w].readValid = {s \in desk[w].ids : Live(s)'}
  <2>1. status[o] = "pending" /\ status' = [status EXCEPT ![o] = "paid"]
        /\ status \in [Orders -> OrderStatus \cup {"none"}]
    BY <1>3 DEF Fulfill, DeskInv, OrderInv, OrdersTypeOK
  <2>2. o # desk[w].order
    BY <1>1, <2>1
  <2>3. ASSUME desk[w].pc = "revoking", NEW s \in desk[w].ids PROVE ticket'[s] = ticket[s]
    <3>1. s \in Seats /\ s \notin SeatsOf(o)
      BY <1>1, <2>2, <2>3 DEF SeatsOf
    <3> QED BY <1>3, <3>1 DEF Fulfill, IssueForOrder, SetSeats
  <2> QED BY <1>1, <2>1, <2>2, <2>3 DEF Live
<1> QED BY <1>2, <1>3

\* With one session, every step of the orders and the desk keeps the books.
LEMMA SerialStep ==
  ASSUME OneSession, DeskInv, BooksExact, ReadExact, [DeskNext]_allVars
  PROVE  BooksExact' /\ ReadExact'
<1>0. OrderInv /\ CartsOK /\ desk \in [Staff -> DeskState]
  BY DEF DeskInv, OrderInv
<1>1. ASSUME CountsKept, \A v \in Staff : desk'[v] = desk[v] \/ ~Refunding(v)'
      PROVE  BooksExact' /\ ReadExact'
  BY <1>0, <1>1, KeptBooks, ReadKept
<1>2. CASE OrdersStep /\ UNCHANGED deskVars
  <2>1. CountsKept \/ \E o \in Orders : Fulfill(o)
    BY <1>0, <1>2, StepCounts
  <2>2. ReadExact'
    BY <1>2, <2>1, ReadKept DEF deskVars
  <2> QED BY <1>0, <1>2, <2>2, BooksStep
<1>3. CASE Crash
  <2>1. CountsKept
    BY <1>3 DEF Crash, CrashRequests, CountsKept, Live, PaidOrders, ticketVars, orderVars
  <2>2. \A v \in Staff : ~Refunding(v)'
    BY <1>3 DEF Crash, Refunding, Idle
  <2> QED BY <1>1, <2>1, <2>2
<1>4. CASE UNCHANGED allVars
  <2>1. CountsKept /\ desk' = desk
    BY <1>4 DEF allVars, vars, deskVars, ticketVars, orderVars, CountsKept, Live, PaidOrders
  <2> QED BY <1>1, <2>1
<1>5. ASSUME NEW w \in Staff, DeskStep(w) PROVE BooksExact' /\ ReadExact'
  <2>0. \A v \in Staff : v = w
    BY DEF OneSession
  <2>1. ASSUME UNCHANGED vars PROVE CountsKept
    BY <2>1 DEF vars, ticketVars, orderVars, CountsKept, Live, PaidOrders
  <2>2. ASSUME NEW o \in Orders, NEW asks \in BOOLEAN, StartRefund(w, o, asks)
        PROVE  BooksExact' /\ ReadExact'
    <3>1. CountsKept /\ status' = status /\ status[o] = "paid"
      BY <2>1, <2>2 DEF StartRefund, vars, orderVars
    <3>2. desk'[w].pc # "revoking" /\ desk'[w].order = o
      BY <1>0, <2>2 DEF StartRefund, Desk
    <3>3. ReadExact'
      BY <2>0, <3>1, <3>2 DEF ReadExact
    <3> QED BY <1>0, <3>1, <3>3, KeptBooks
  <2>3. ASSUME \/ \E o \in Orders : StartMarkPaid(w, o)
               \/ \E s \in Seats : StartRevoke(w, s)
               \/ ProviderRefuses(w) \/ SettlePayment(w)
        PROVE  BooksExact' /\ ReadExact'
    <3>1. UNCHANGED vars /\ desk'[w].pc \in {"markPaid", "revoke", "idle"}
      BY <1>0, <2>3 DEF StartMarkPaid, StartRevoke, ProviderRefuses, SettlePayment, Desk, Idle
    <3> QED BY <1>1, <2>0, <2>1, <3>1 DEF Refunding
  <2>4. CASE ProviderRefunds(w)
    <3>1. desk[w] \in [pc : {"askProvider"}, order : Orders, locksPayment : BOOLEAN]
      BY <2>4, SessionShape DEF ProviderRefunds, AtDesk
    <3>2. desk'[w].pc = "refund" /\ desk'[w].order = desk[w].order
      BY <1>0, <2>4, <3>1 DEF ProviderRefunds, Desk
    <3>3. CountsKept /\ status' = status /\ status[desk[w].order] = "paid"
      BY <2>1, <2>4 DEF ProviderRefunds, AtDesk, ReadExact, Refunding, vars, orderVars
    <3>4. ReadExact'
      BY <2>0, <3>2, <3>3 DEF ReadExact
    <3> QED BY <1>0, <3>3, <3>4, KeptBooks
  <2>5. CASE OpenRefund(w)
    <3> DEFINE o == desk[w].order
    <3>1. CountsKept /\ status' = status /\ ticket' = ticket /\ status[o] = "paid"
      BY <2>1, <2>5 DEF OpenRefund, AtDesk, ReadExact, Refunding, vars, orderVars, ticketVars
    <3>2. /\ desk'[w].order = o /\ desk'[w].ids = Unscanned(o)
          /\ desk'[w].readValid = {s \in Unscanned(o) : ticket[s] = "valid"}
      BY <1>0, <2>5 DEF OpenRefund, Desk
    <3> HIDE DEF o
    <3>3. ReadExact'
      BY <2>0, <3>1, <3>2 DEF ReadExact, Unscanned, Live
    <3> QED BY <1>0, <3>1, <3>3, KeptBooks
  <2>6. CASE CommitRefund(w)
    <3>1. ~Refunding(w)'
      BY <1>0, <2>6 DEF CommitRefund, Desk, Idle, Refunding
    <3>2. ReadExact'
      BY <2>0, <3>1 DEF ReadExact, Refunding
    <3> QED BY <2>6, <3>2, CommitBooks
  <2>7. CASE MarkPaid(w)
    <3>1. ~Refunding(w)' /\ desk[w].order \in Orders
      BY <1>0, <2>7, SessionShape DEF MarkPaid, Desk, Idle, Refunding, AtDesk
    <3>2. ReadExact'
      BY <2>0, <3>1 DEF ReadExact, Refunding
    <3>3. CASE Fulfill(desk[w].order)
      BY <1>0, <3>1, <3>2, <3>3, FulfillBooks
    <3>4. CASE UNCHANGED <<now, cart, ticketVars, orderVars>>
      <4>1. CountsKept
        BY <3>4 DEF ticketVars, orderVars, CountsKept, Live, PaidOrders
      <4> QED BY <1>0, <3>2, <4>1, KeptBooks
    <3> QED BY <2>7, <3>3, <3>4 DEF MarkPaid
  <2>8. ASSUME NEW s \in Seats, OrganizerRevoke(w, s) \/ AdminReissue(w, s)
        PROVE  BooksExact' /\ ReadExact'
    <3>1. BooksExact'
      BY <1>0, <2>8, OneTicketBooks DEF OrganizerRevoke, AdminReissue
    <3>2. ~Refunding(w)'
      BY <2>8 DEF OrganizerRevoke, AdminReissue, deskVars, AtDesk, Refunding
    <3> QED BY <2>0, <3>1, <3>2 DEF ReadExact, Refunding
  <2>9. CASE AdminRevoke(w)
    <3>1. desk[w].seat \in Seats /\ ~Refunding(w)'
      BY <1>0, <2>9, SessionShape DEF AdminRevoke, AtDesk, Desk, Idle, Refunding
    <3>2. ReadExact'
      BY <2>0, <3>1 DEF ReadExact, Refunding
    <3>3. CASE Revoke(desk[w].seat)
      BY <1>0, <2>9, <3>1, <3>2, <3>3, OneTicketBooks DEF AdminRevoke
    <3>4. CASE UNCHANGED ticketVars
      <4>1. CountsKept
        BY <2>9, <3>4 DEF AdminRevoke, ticketVars, orderVars, CountsKept, Live, PaidOrders
      <4> QED BY <1>0, <3>2, <4>1, KeptBooks
    <3> QED BY <2>9, <3>3, <3>4 DEF AdminRevoke
  <2> QED BY <1>5, <2>2, <2>3, <2>4, <2>5, <2>6, <2>7, <2>8, <2>9 DEF DeskStep
<1> QED BY <1>2, <1>3, <1>4, <1>5 DEF DeskNext

\* With one desk session at a time, the counters and the revenue cache stay what
\* the tickets and the paid orders add up to, through refunds, revocations,
\* reissues, scans, payments and crashes.  (Two sessions can break them: the
\* refund's read locks no ticket.)
THEOREM SerialBooksExact ==
  ASSUME OneSession
  PROVE  DeskSpec => []BooksExact
<1>1. DeskInit => BooksExact /\ ReadExact
  BY BooksInit DEF DeskInit, ReadExact, Refunding, Idle
<1>2. DeskInv /\ BooksExact /\ ReadExact /\ [DeskNext]_allVars => (BooksExact /\ ReadExact)'
  BY SerialStep
<1> QED BY <1>1, <1>2, DeskInvariant, PTL DEF DeskSpec

\* A lone session's refund is booked once.
RefundedOnce == \A o \in Orders : ledger[o].refund = IF status[o] = "refunded" THEN 1 ELSE 0

LEMMA RefundedOnceStep ==
  ASSUME DeskInv, ReadExact, RefundedOnce, [DeskNext]_allVars
  PROVE  RefundedOnce'
<1>1. status \in [Orders -> OrderStatus \cup {"none"}]
      /\ ledger \in [Orders -> [sale : Nat, refund : Nat]]
  BY DEF DeskInv, OrderInv, OrdersTypeOK
<1>2. CASE Ordinary
  BY <1>1, <1>2 DEF Ordinary, StatusStep, RefundsKept, RefundedOnce
<1>3. ASSUME NEW w \in Staff, CommitRefund(w) PROVE RefundedOnce'
  <2> DEFINE o == desk[w].order
  <2>1. o \in Orders /\ status[o] = "paid"
    BY <1>3, SessionShape DEF CommitRefund, AtDesk, Refunding, ReadExact
  <2>2. status' = [status EXCEPT ![o] = "refunded"] /\ ledger' = [ledger EXCEPT ![o].refund = @ + 1]
    BY <1>3 DEF CommitRefund, RecordRefund
  <2> HIDE DEF o
  <2> QED BY <1>1, <2>1, <2>2 DEF RefundedOnce
<1> QED BY <1>2, <1>3, DeskStepKinds

\* With one desk session at a time the desk implements the life cycle to the
\* letter: what the ledger nets for an order is its worth while it is paid, and
\* nothing before or after.  (Two sessions can book one refund twice.)
THEOREM SerialDeskImplementsLifecycle ==
  ASSUME OneSession
  PROVE  DeskSpec => ImplementsLifecycle
<1> DEFINE Inv == DeskInv /\ BooksExact /\ ReadExact /\ RefundedOnce
<1>1. DeskInit => Inv
  BY BooksInit, DeskInitInv
  DEF DeskInit, OrdersInit, ReadExact, Refunding, Idle, RefundedOnce
<1>2. Inv /\ [DeskNext]_allVars => Inv'
  BY SerialStep, DeskStepInv, RefundedOnceStep
<1>3. Inv => LifeView
  <2> SUFFICES ASSUME Inv PROVE LifeView
    OBVIOUS
  <2>1. IssuedOrders = SettledOrders(status)
    BY DeskLifecycleView DEF OnceView
  <2>2. \A o \in Orders : ledger[o].sale - ledger[o].refund = IF status[o] = "paid" THEN 1 ELSE 0
    BY DEF RefundedOnce, DeskInv, OrderInv, SalesOK, SettledStatus
  <2> QED BY <2>1, <2>2 DEF LifeView, NetOf
<1>4. DeskInit => Lifecycle!Init
  <2> SUFFICES ASSUME DeskInit PROVE Lifecycle!Init
    OBVIOUS
  <2>1. IssuedOrders = {}
    BY <1>1, <1>3 DEF LifeView, DeskInit, OrdersInit, SettledStatus, SettledOrders
  <2> QED BY <2>1 DEF DeskInit, OrdersInit, Lifecycle!Init
<1>5. Inv /\ [DeskNext]_allVars => [Lifecycle!Next]_(Lifecycle!lifecycleVars)
  <2> SUFFICES ASSUME Inv, [DeskNext]_allVars PROVE [Lifecycle!Next]_(Lifecycle!lifecycleVars)
    OBVIOUS
  <2>1. LifeView /\ status \in [Orders -> OrderStatus \cup {"none"}]
    BY <1>3 DEF DeskInv, OrderInv, OrdersTypeOK
  <2>2. StatusStep \/ RefundStep
    BY DeskStepInv
  <2>3. LifeView'
    BY <1>2, <1>3, PTL
  <2> QED BY <2>1, <2>2, <2>3, StepRefines
<1> HIDE DEF Inv
<1> QED BY <1>1, <1>2, <1>4, <1>5, PTL DEF DeskSpec, ImplementsLifecycle, Lifecycle!Spec

----------------------------------------------------------------------------
(* Refinement *)

\* Each step of the composition is a step of the orders, of the desk, or of
\* neither.
LEMMA StepMapsToDesk ==
  ASSUME [CommerceNext]_commerceVars
  PROVE  [DeskNext]_allVars
<1>1. CASE OrdersOnly
  BY <1>1 DEF OrdersOnly, DeskNext, DeskStep, OrdersStep
<1>2. CASE PaymentsOnly
  BY <1>2 DEF PaymentsOnly, allVars
<1>3. CASE CrashAll
  BY <1>3 DEF CrashAll, DeskNext
<1>4. ASSUME NEW o \in Orders,
             CreatePayment(o) \/ AnswerCheckout(o) \/ DeliverSucceeded(o)
      PROVE  [DeskNext]_allVars
  BY <1>4 DEF CreatePayment, AnswerCheckout, DeliverSucceeded, DeskNext, OrdersStep, allVars
<1>5. ASSUME NEW o \in Orders,
             InitializePayment(o) \/ BuyerPays(o) \/ VerifyPayment(o)
      PROVE  [DeskNext]_allVars
  BY <1>5 DEF InitializePayment, BuyerPays, VerifyPayment, allVars
<1>6. ASSUME NEW w \in Staff, NEW o \in Orders, DeskRefund(w, o)
      PROVE  [DeskNext]_allVars
  BY <1>6 DEF DeskRefund, DeskNext, DeskStep
<1>7. ASSUME NEW w \in Staff,
             DeskProviderRefunds(w) \/ DeskAnswerLost(w) \/ DeskCommitRefund(w)
               \/ DeskMarkPaid(w) \/ DeskSettlePayment(w)
      PROVE  [DeskNext]_allVars
  BY <1>7 DEF DeskProviderRefunds, DeskAnswerLost, DeskCommitRefund, DeskMarkPaid, DeskSettlePayment,
       DeskNext, DeskStep
<1>8. CASE UNCHANGED commerceVars
  BY <1>8 DEF commerceVars
<1> QED BY <1>1, <1>2, <1>3, <1>4, <1>5, <1>6, <1>7, <1>8 DEF CommerceNext

\* Composed with payments, the orders and the desk do nothing they could not
\* do on their own.
THEOREM CommerceImplementsDesk == CommerceSpec => ImplementsDesk
<1>1. CommerceInit => DeskInit
  BY DEF CommerceInit
<1>2. [CommerceNext]_commerceVars => [DeskNext]_allVars
  BY StepMapsToDesk
<1> QED BY <1>1, <1>2, PTL DEF CommerceSpec, ImplementsDesk, DeskSpec

\* So a refunded order lets nobody in, in the composition too.
THEOREM NoValidSeatInCommerce == CommerceSpec => []NoValidSeatAfterRefund
BY CommerceImplementsDesk, NoValidSeat, PTL DEF ImplementsDesk

\* Nor do webhooks, verifications, charges and an admin's override take an order out
\* of its life cycle: the payments below, the desk, the orders' life cycle on top.
THEOREM CommerceKeepsLifecycle == CommerceSpec => DeskFollowsLifecycle
BY CommerceImplementsDesk, DeskKeepsLifecycle, PTL DEF ImplementsDesk

\* With one desk session, payments included, the counters, the revenue and the
\* ledger stay exact and every order keeps its life cycle to the letter.
THEOREM SerialCommerceExact ==
  ASSUME OneSession
  PROVE  CommerceSpec => []BooksExact /\ ImplementsLifecycle
<1>1. DeskSpec => []BooksExact
  BY SerialBooksExact
<1>2. DeskSpec => ImplementsLifecycle
  BY SerialDeskImplementsLifecycle
<1> QED BY <1>1, <1>2, CommerceImplementsDesk, PTL DEF ImplementsDesk

----------------------------------------------------------------------------
(* Nobody gets seats for nothing *)

\* What is under way about a covered charge is true of it.
ReportsTrue ==
  \A r \in sent \cup accepted \cup answers :
    r.covers => charge[r.payment] \in {"success", "reversed"}

\* A successful payment was covered, or an admin said so.
CoveredOrForced ==
  \A o \in Orders : payment[o] = "successful" =>
    charge[o] \in {"success", "reversed"} \/ o \in marked \cup comped

\* An event is under way only for a payment that succeeded, and if it was
\* refunded since then its order is refunded.
EventsOK ==
  \A o \in Orders : emitting[o] > 0 => payment[o] = "successful" \/ status[o] = "refunded"

SettlingOK ==
  \A w \in Staff : desk[w].pc = "settlePayment" => desk[w].order \in comped

PaidForOK ==
  \A o \in Orders :
    (status[o] = "paid" /\ Priced(o) /\ o \notin comped) => payment[o] = "successful"

MoneyInv == /\ P!PaymentsTypeOK /\ comped \subseteq Orders
            /\ ReportsTrue /\ CoveredOrForced /\ EventsOK /\ SettlingOK /\ PaidForOK

CommerceInv == DeskInv /\ MoneyInv

\* The two sides of a step: what it does to payment rows ...
PaymentEffect ==
  /\ P!PaymentsTypeOK' /\ ReportsTrue' /\ CoveredOrForced'
  /\ \A o \in Orders : payment[o] = "successful" =>
                         payment'[o] = "successful" \/ status'[o] = "refunded"
  /\ \A o \in Orders : emitting'[o] > 0 => emitting[o] > 0 \/ payment'[o] = "successful"

\* ... and to orders and desk sessions.
OrderEffect ==
  /\ \A o \in Orders : status[o] = "refunded" => status'[o] = "refunded"
  /\ \A o \in Orders : status'[o] = "paid" =>
       \/ status[o] = "paid" /\ cart'[o] = cart[o]
       \/ Subtotal(cart'[o]) = 0 \/ payment'[o] = "successful" \/ o \in comped'
  /\ \A w \in Staff : desk'[w].pc = "settlePayment" =>
       desk'[w] = desk[w] \/ desk'[w].order \in comped'

\* A step with both effects keeps the money invariant.
LEMMA MoneyStep ==
  ASSUME MoneyInv, PaymentEffect, OrderEffect,
         comped \subseteq comped', comped' \subseteq Orders
  PROVE  MoneyInv'
<1>1. EventsOK'
  BY DEF MoneyInv, EventsOK, PaymentEffect, OrderEffect
<1>2. SettlingOK'
  BY DEF MoneyInv, SettlingOK, OrderEffect
<1>3. PaidForOK'
  BY DEF MoneyInv, PaidForOK, PaymentEffect, OrderEffect, Priced
<1> QED BY <1>1, <1>2, <1>3 DEF MoneyInv, PaymentEffect

\* What the provider reports of a charge is a report.
LEMMA ReportShape ==
  ASSUME NEW o \in Orders, NEW c \in P!Charge
  PROVE  /\ P!ReportOf(o, c) \in P!Report
         /\ P!ReportOf(o, c).payment = o
         /\ P!ReportOf(o, c).covers => c = "success"
  BY DEF P!ReportOf, P!Report, P!Charge, P!PaymentStatus, P!Terminal

\* finalize keeps every successful payment, and makes one only of a covered
\* charge.
LEMMA FinalizeEffect ==
  ASSUME MoneyInv, comped \subseteq comped',
         NEW r \in accepted \cup answers, P!Finalize(r),
         accepted' \subseteq accepted, answers' \subseteq answers,
         UNCHANGED <<charge, sent, seen, marking, emitted, marked, crashes>>
  PROVE  PaymentEffect
<1> DEFINE p == r.payment
           applies == payment[p] = "pending" /\ (r.status = "successful" => r.covers)
<1>1. r \in P!Report /\ p \in Orders /\ r.status \in P!PaymentStatus
  BY DEF MoneyInv, P!PaymentsTypeOK, P!Report
<1>2. r.covers => charge[p] \in {"success", "reversed"}
  BY DEF MoneyInv, ReportsTrue
<1>3. /\ payment' = IF applies THEN [payment EXCEPT ![p] = r.status] ELSE payment
      /\ emitting' = IF applies /\ r.status = "successful"
                     THEN [emitting EXCEPT ![p] = @ + 1] ELSE emitting
  BY DEF P!Finalize
<1> HIDE DEF p
<1>4. P!PaymentsTypeOK'
  BY <1>1, <1>3 DEF MoneyInv, P!PaymentsTypeOK
<1>5. ReportsTrue'
  BY DEF MoneyInv, ReportsTrue
<1>6. CoveredOrForced'
  BY <1>1, <1>2, <1>3 DEF MoneyInv, P!PaymentsTypeOK, CoveredOrForced
<1>7. \A o \in Orders : payment[o] = "successful" => payment'[o] = "successful"
  BY <1>1, <1>3 DEF MoneyInv, P!PaymentsTypeOK
<1>8. \A o \in Orders : emitting'[o] > 0 => emitting[o] > 0 \/ payment'[o] = "successful"
  BY <1>1, <1>3 DEF MoneyInv, P!PaymentsTypeOK
<1> QED BY <1>4, <1>5, <1>6, <1>7, <1>8 DEF PaymentEffect

\* A step of the payments alone, the desk's overrides included.
LEMMA PaymentStep ==
  ASSUME MoneyInv, comped \subseteq comped', P!PaymentsStep
  PROVE  PaymentEffect
<1> USE DEF MoneyInv
<1>1. ASSUME NEW o \in Orders, P!Create(o) \/ P!Initialize(o) PROVE PaymentEffect
  BY <1>1 DEF P!Create, P!Initialize, PaymentEffect, P!PaymentsTypeOK, P!PaymentStatus,
       P!Terminal, P!Charge, ReportsTrue, CoveredOrForced, P!Report
<1>2. ASSUME NEW o \in Orders, NEW c \in P!Charge, P!Pay(o, c) PROVE PaymentEffect
  <2>1. /\ charge[o] \in {"open", "failed", "abandoned"}
        /\ charge' = [charge EXCEPT ![o] = c]
        /\ sent' \in {sent, sent \cup {P!ReportOf(o, c)}}
        /\ UNCHANGED <<payment, seen, accepted, answers, marking, emitting, emitted,
                       marked, crashes>>
    BY <1>2 DEF P!Pay
  <2>2. P!PaymentsTypeOK'
    BY <2>1, ReportShape DEF P!PaymentsTypeOK
  <2>3. ReportsTrue'
    BY <2>1, ReportShape DEF P!PaymentsTypeOK, ReportsTrue, P!Report
  <2> QED BY <2>1, <2>2, <2>3 DEF P!PaymentsTypeOK, CoveredOrForced, PaymentEffect
<1>3. ASSUME NEW o \in Orders, P!Reverse(o) PROVE PaymentEffect
  <2>1. "reversed" \in P!Charge
    BY DEF P!Charge
  <2>2. /\ charge' = [charge EXCEPT ![o] = "reversed"]
        /\ sent' = sent \cup {P!ReportOf(o, "reversed")}
        /\ UNCHANGED <<payment, seen, accepted, answers, marking, emitting, emitted,
                       marked, crashes>>
    BY <1>3 DEF P!Reverse
  <2>3. P!PaymentsTypeOK'
    BY <2>1, <2>2, ReportShape DEF P!PaymentsTypeOK
  <2>4. ReportsTrue'
    BY <2>1, <2>2, ReportShape DEF P!PaymentsTypeOK, ReportsTrue, P!Report
  <2> QED BY <2>2, <2>3, <2>4 DEF P!PaymentsTypeOK, CoveredOrForced, PaymentEffect
<1>4. ASSUME NEW o \in Orders, P!Verify(o) PROVE PaymentEffect
  <2>1. charge[o] \in P!Charge
    BY DEF P!PaymentsTypeOK
  <2>2. /\ answers' = answers \cup {P!ReportOf(o, charge[o])}
        /\ UNCHANGED <<payment, charge, sent, seen, accepted, marking, emitting, emitted,
                       marked, crashes>>
    BY <1>4 DEF P!Verify
  <2> QED BY <2>1, <2>2, ReportShape
        DEF P!PaymentsTypeOK, ReportsTrue, CoveredOrForced, PaymentEffect
<1>5. ASSUME NEW o \in Orders, P!Emit(o) \/ P!StartMark(o) PROVE PaymentEffect
  BY <1>5 DEF P!Emit, P!StartMark, P!PaymentsTypeOK, ReportsTrue, CoveredOrForced, PaymentEffect
<1>6. ASSUME NEW o \in Orders, P!MarkSucceeded(o) PROVE PaymentEffect
  BY <1>6 DEF P!MarkSucceeded, P!PaymentsTypeOK, P!PaymentStatus, P!Terminal, ReportsTrue,
       CoveredOrForced, PaymentEffect
<1>7. ASSUME NEW r \in sent, P!AcceptWebhook(r) PROVE PaymentEffect
  BY <1>7 DEF P!AcceptWebhook, P!PaymentsTypeOK, ReportsTrue, CoveredOrForced, PaymentEffect
<1>8. ASSUME NEW r \in accepted \cup answers, P!Dispatch(r) \/ P!ApplyAnswer(r)
      PROVE  PaymentEffect
  <2>1. /\ P!Finalize(r) /\ accepted' \subseteq accepted /\ answers' \subseteq answers
        /\ UNCHANGED <<charge, sent, seen, marking, emitted, marked, crashes>>
    BY <1>8 DEF P!Dispatch, P!ApplyAnswer
  <2> QED BY <2>1, FinalizeEffect
<1> QED BY <1>1, <1>2, <1>3, <1>4, <1>5, <1>6, <1>7, <1>8 DEF P!PaymentsStep

\* A step that leaves the payment rows alone.
LEMMA NoPaymentStep ==
  ASSUME MoneyInv, UNCHANGED paymentVars, crashes' \in 0..MaxCrashes, comped \subseteq comped'
  PROVE  PaymentEffect
BY DEF MoneyInv, paymentVars, PaymentEffect, P!PaymentsTypeOK, ReportsTrue, CoveredOrForced

\* What OrdersOnly takes from module Orders.
CheckoutStep ==
  \/ \E o \in Orders :
       \/ \E u \in Users : Admit(o, u)
       \/ \E c \in Carts : Reserve(o, c)
       \/ StartFails(o) \/ FulfillFree(o) \/ Cancel(o) \/ CancelStale(o)
  \/ \E s \in Seats : Scan(s)
  \/ ExpireHolds \/ ReadStale \/ Tick

\* Such a step makes an order paid only when the order is free.
LEMMA CheckoutEffect ==
  ASSUME DeskInv, MovesForward, UNCHANGED deskVars, CheckoutStep
  PROVE  OrderEffect
<1>1. \A o \in Orders : status[o] = "refunded" => status'[o] = "refunded"
  BY DEF MovesForward, StatusMoves
<1>2. ItemsKept
  BY StepKeeps DEF DeskInv, CheckoutStep, OrdersStep
<1>3. \A o \in Orders : status'[o] = "paid" => status[o] = "paid" \/ Subtotal(cart'[o]) = 0
  <2>0. status \in [Orders -> OrderStatus \cup {"none"}]
    BY DEF DeskInv, OrderInv, OrdersTypeOK
  <2>1. ASSUME NEW o \in Orders, FulfillFree(o)
        PROVE  Subtotal(cart'[o]) = 0 /\ status' = [status EXCEPT ![o] = "paid"]
    BY <2>1 DEF FulfillFree, Fulfill
  <2>2. ASSUME NEW o \in Orders, NEW c \in Carts, Reserve(o, c)
        PROVE  status' = [status EXCEPT ![o] = "pending"]
    BY <2>2 DEF Reserve
  <2>3. ASSUME NEW o \in Orders, Cancel(o) \/ CancelStale(o)
        PROVE  status' \in {status, [status EXCEPT ![o] = "cancelled"]}
    BY <2>3 DEF Cancel, CancelStale, CancelOrder, orderVars
  <2>4. ASSUME NEW o \in Orders, NEW u \in Users, Admit(o, u) PROVE status' = status
    BY <2>4 DEF Admit
  <2>5. ASSUME NEW o \in Orders, StartFails(o) PROVE status' = status
    BY <2>5 DEF StartFails, orderVars
  <2>6. ASSUME NEW s \in Seats, Scan(s) PROVE status' = status
    BY <2>6 DEF Scan, orderVars
  <2>7. ASSUME ExpireHolds \/ ReadStale \/ Tick PROVE status' = status
    BY <2>7 DEF ExpireHolds, ReadStale, Tick, orderVars
  <2> QED BY <2>0, <2>1, <2>2, <2>3, <2>4, <2>5, <2>6, <2>7 DEF CheckoutStep
<1> QED BY <1>1, <1>2, <1>3 DEF OrderEffect, ItemsKept, deskVars

\* A desk session that settles no payment, beside orders that stand still.
LEMMA QuietDesk ==
  ASSUME DeskInv, UNCHANGED <<status, cart>>,
         \A v \in Staff : desk'[v] = desk[v] \/ desk'[v].pc # "settlePayment"
  PROVE  OrderEffect
BY DEF OrderEffect

\* The desk's steps that payments take no part in.
LEMMA DeskOnlyEffect ==
  ASSUME DeskInv, NEW w \in Staff,
         \/ \E o \in Orders : StartMarkPaid(w, o) \/ \E asks \in BOOLEAN : StartRefund(w, o, asks)
         \/ \E s \in Seats : OrganizerRevoke(w, s) \/ StartRevoke(w, s) \/ AdminReissue(w, s)
         \/ ProviderRefunds(w) \/ ProviderRefuses(w) \/ OpenRefund(w) \/ AdminRevoke(w)
         \/ SettlePayment(w)
  PROVE  OrderEffect
<1>1. UNCHANGED <<status, cart>>
  BY DEF StartMarkPaid, StartRefund, OrganizerRevoke, StartRevoke, AdminReissue, ProviderRefunds,
       ProviderRefuses, OpenRefund, AdminRevoke, SettlePayment, vars, orderVars
<1>2. desk \in [Staff -> DeskState]
  BY DEF DeskInv
<1>3. \A v \in Staff : desk'[v] = desk[v] \/ desk'[v].pc # "settlePayment"
  <2>1. CASE \E s \in Seats : OrganizerRevoke(w, s) \/ AdminReissue(w, s)
    BY <2>1 DEF OrganizerRevoke, AdminReissue, deskVars
  <2>2. CASE \E o \in Orders : StartMarkPaid(w, o) \/ \E asks \in BOOLEAN : StartRefund(w, o, asks)
    BY <1>2, <2>2 DEF StartMarkPaid, StartRefund, Desk
  <2>3. CASE (\E s \in Seats : StartRevoke(w, s)) \/ ProviderRefuses(w) \/ OpenRefund(w)
                \/ AdminRevoke(w) \/ SettlePayment(w)
    BY <1>2, <2>3 DEF StartRevoke, ProviderRefuses, OpenRefund, AdminRevoke, SettlePayment, Desk,
         Idle
  <2>4. CASE ProviderRefunds(w)
    <3>1. desk[w] \in [pc : {"askProvider", "refund"}, order : Orders, locksPayment : BOOLEAN]
      BY <1>2, <2>4 DEF ProviderRefunds, AtDesk, DeskState, Idle
    <3>2. /\ desk' = [desk EXCEPT ![w] = [desk[w] EXCEPT !.pc = "refund"]]
          /\ [desk[w] EXCEPT !.pc = "refund"].pc = "refund"
      BY <2>4, <3>1 DEF ProviderRefunds, Desk
    <3> QED BY <1>2, <3>2
  <2> QED BY <2>1, <2>2, <2>3, <2>4
<1> QED BY <1>1, <1>3, QuietDesk

\* Every step of the composition has both effects.
LEMMA CommerceStepInv ==
  ASSUME CommerceInv, [CommerceNext]_commerceVars
  PROVE  CommerceInv'
<1> USE DEF CommerceInv
<1>1. DeskInv' /\ MovesForward
  BY StepMapsToDesk, DeskStepInv
<1>2. crashes' \in 0..MaxCrashes
  BY <1>1 DEF DeskInv, OrderInv, OrdersTypeOK
<1>3. status \in [Orders -> OrderStatus \cup {"none"}] /\ desk \in [Staff -> DeskState]
  BY DEF DeskInv, OrderInv, OrdersTypeOK
<1>4. \A o \in Orders : PaymentSucceeded(o) => status[o] = "pending"
  BY DEF PaymentSucceeded, Fulfill
<1>5. CASE OrdersOnly
  <2>1. UNCHANGED paymentVars /\ comped' = comped
    BY <1>5 DEF OrdersOnly
  <2>2. PaymentEffect
    BY <1>2, <2>1, NoPaymentStep
  <2>3. OrderEffect
    <3>1. CASE UNCHANGED deskVars /\ CheckoutStep
      BY <1>1, <3>1, CheckoutEffect
    <3> QED BY <1>5, <3>1, DeskOnlyEffect DEF OrdersOnly, CheckoutStep
  <2> QED BY <1>1, <2>1, <2>2, <2>3, MoneyStep DEF MoneyInv
<1>6. CASE PaymentsOnly
  <2>1. P!PaymentsStep /\ UNCHANGED <<vars, deskVars, comped>>
    BY <1>6 DEF PaymentsOnly, P!PaymentsStep
  <2>2. PaymentEffect
    BY <2>1, PaymentStep
  <2>3. OrderEffect
    BY <2>1, QuietDesk DEF vars, orderVars, deskVars
  <2> QED BY <1>1, <2>1, <2>2, <2>3, MoneyStep DEF MoneyInv
<1>7. CASE CrashAll
  <2>1. /\ emitting' = [o \in Orders |-> 0] /\ accepted' = {} /\ answers' = {} /\ marking' = {}
        /\ UNCHANGED <<payment, charge, sent, seen, emitted, marked, comped, status, cart>>
        /\ desk' = [w \in Staff |-> Idle]
    BY <1>7 DEF CrashAll, P!LoseRequests, Crash, CrashRequests, orderVars
  <2>2. PaymentEffect
    BY <1>2, <2>1 DEF PaymentEffect, MoneyInv, P!PaymentsTypeOK, ReportsTrue, CoveredOrForced
  <2>3. OrderEffect
    BY <2>1, QuietDesk DEF Idle
  <2> QED BY <1>1, <2>1, <2>2, <2>3, MoneyStep DEF MoneyInv
<1>8. ASSUME NEW o \in Orders, CreatePayment(o) \/ InitializePayment(o) \/ BuyerPays(o)
                                 \/ VerifyPayment(o)
      PROVE  CommerceInv'
  <2>1. P!PaymentsStep /\ UNCHANGED <<status, cart, deskVars, comped>>
    BY <1>8 DEF CreatePayment, InitializePayment, BuyerPays, VerifyPayment, StartPayment,
         P!PaymentsStep, vars, orderVars
  <2>2. PaymentEffect
    BY <2>1, PaymentStep
  <2>3. OrderEffect
    BY <2>1, QuietDesk DEF deskVars
  <2> QED BY <1>1, <2>1, <2>2, <2>3, MoneyStep DEF MoneyInv
<1>9. ASSUME NEW o \in Orders, AnswerCheckout(o) PROVE CommerceInv'
  <2>1. UNCHANGED <<status, cart, deskVars, paymentVars, comped>>
    BY <1>9 DEF AnswerCheckout, LinkPayment
  <2>2. PaymentEffect
    BY <1>2, <2>1, NoPaymentStep
  <2>3. OrderEffect
    BY <2>1, QuietDesk DEF deskVars
  <2> QED BY <1>1, <2>1, <2>2, <2>3, MoneyStep DEF MoneyInv
<1>10. ASSUME NEW o \in Orders, DeliverSucceeded(o) PROVE CommerceInv'
  <2>1. P!PaymentsStep /\ UNCHANGED <<deskVars, comped>>
    BY <1>10 DEF DeliverSucceeded, P!PaymentsStep
  <2>2. PaymentEffect
    BY <2>1, PaymentStep
  <2>3. CASE UNCHANGED vars
    <3>1. OrderEffect
      BY <2>1, <2>3, QuietDesk DEF deskVars, vars, orderVars
    <3> QED BY <1>1, <2>1, <2>2, <3>1, MoneyStep DEF MoneyInv
  <2>4. CASE PaymentSucceeded(o)
    <3>1. payment[o] = "successful" /\ payment' = payment
      BY <1>4, <1>10, <2>4 DEF DeliverSucceeded, P!Emit, MoneyInv, EventsOK
    <3>2. status' = [status EXCEPT ![o] = "paid"] /\ cart' = cart
      BY <2>4 DEF PaymentSucceeded, Fulfill
    <3>3. OrderEffect
      BY <1>3, <1>4, <2>1, <2>4, <3>1, <3>2 DEF OrderEffect, deskVars
    <3> QED BY <1>1, <2>1, <2>2, <3>3, MoneyStep DEF MoneyInv
  <2> QED BY <1>10, <2>3, <2>4 DEF DeliverSucceeded
<1>11. ASSUME NEW w \in Staff, NEW o \in Orders, DeskRefund(w, o) PROVE CommerceInv'
  <2>1. UNCHANGED <<paymentVars, comped>> /\ \E asks \in BOOLEAN : StartRefund(w, o, asks)
    BY <1>11 DEF DeskRefund
  <2>2. PaymentEffect
    BY <1>2, <2>1, NoPaymentStep
  <2>3. OrderEffect
    BY <2>1, DeskOnlyEffect
  <2> QED BY <1>1, <2>1, <2>2, <2>3, MoneyStep DEF MoneyInv
<1>12. ASSUME NEW w \in Staff, DeskProviderRefunds(w) \/ DeskAnswerLost(w) PROVE CommerceInv'
  <2>1. /\ ProviderRefunds(w) \/ ProviderRefuses(w)
        /\ P!Reverse(desk[w].order) /\ comped' = comped
    BY <1>12 DEF DeskProviderRefunds, DeskAnswerLost
  <2>2. desk[w].order \in Orders
    BY <1>3, <2>1 DEF ProviderRefunds, ProviderRefuses, AtDesk, DeskState, Idle
  <2>3. PaymentEffect
    BY <2>1, <2>2, PaymentStep DEF P!PaymentsStep
  <2>4. OrderEffect
    BY <2>1, DeskOnlyEffect
  <2> QED BY <1>1, <2>1, <2>3, <2>4, MoneyStep DEF MoneyInv
<1>13. ASSUME NEW w \in Staff, DeskCommitRefund(w) PROVE CommerceInv'
  <2> DEFINE p == desk[w].order
  <2>1. /\ p \in Orders
        /\ status' = [status EXCEPT ![p] = "refunded"] /\ cart' = cart
        /\ desk' = [desk EXCEPT ![w] = Idle]
        /\ payment' \in {payment, [payment EXCEPT ![p] = "refunded"]}
        /\ UNCHANGED <<charge, sent, seen, accepted, answers, marking, emitting, emitted,
                       marked, comped, crashes>>
    BY <1>3, <1>13 DEF DeskCommitRefund, CommitRefund, AtDesk, Desk, DeskState, Idle, requestVars
  <2> HIDE DEF p
  <2>2. PaymentEffect
    <3>1. P!PaymentsTypeOK'
      BY <2>1 DEF MoneyInv, P!PaymentsTypeOK, P!PaymentStatus, P!Terminal
    <3>2. ReportsTrue'
      BY <2>1 DEF MoneyInv, ReportsTrue
    <3>3. payment \in [Orders -> P!PaymentStatus \cup {"none"}]
      BY DEF MoneyInv, P!PaymentsTypeOK
    <3>4. CoveredOrForced'
      BY <2>1, <3>3 DEF MoneyInv, CoveredOrForced
    <3> QED BY <1>3, <2>1, <3>1, <3>2, <3>3, <3>4 DEF PaymentEffect
  <2>3. OrderEffect
    BY <1>3, <2>1 DEF OrderEffect, Idle
  <2> QED BY <1>1, <2>1, <2>2, <2>3, MoneyStep DEF MoneyInv
<1>14. ASSUME NEW w \in Staff, DeskMarkPaid(w) PROVE CommerceInv'
  <2> DEFINE p == desk[w].order
  <2>1. /\ p \in Orders /\ comped' = comped \cup {p}
        /\ status' \in {status, [status EXCEPT ![p] = "paid"]} /\ cart' = cart
        /\ status' # status => status[p] = "pending"
        /\ UNCHANGED paymentVars
        /\ \/ desk' = [desk EXCEPT ![w] = Idle]
           \/ desk' = [desk EXCEPT ![w] = [pc |-> "settlePayment", order |-> p]]
    <3>1. p \in Orders
      BY <1>3, <1>14 DEF DeskMarkPaid, MarkPaid, AtDesk, DeskState, Idle
    <3>2. comped' = comped \cup {p} /\ UNCHANGED paymentVars /\ MarkPaid(w)
      BY <1>14 DEF DeskMarkPaid
    <3>3. /\ status' \in {status, [status EXCEPT ![p] = "paid"]} /\ cart' = cart
          /\ status' # status => status[p] = "pending"
      BY <3>2 DEF MarkPaid, Fulfill, orderVars
    <3>4. \/ desk' = [desk EXCEPT ![w] = Idle]
          \/ desk' = [desk EXCEPT ![w] = [pc |-> "settlePayment", order |-> p]]
      BY <3>2 DEF MarkPaid, Desk
    <3> QED BY <3>1, <3>2, <3>3, <3>4
  <2> HIDE DEF p
  <2>2. PaymentEffect
    BY <1>2, <2>1, NoPaymentStep
  <2>3. OrderEffect
    BY <1>3, <2>1 DEF OrderEffect, Idle
  <2> QED BY <1>1, <2>1, <2>2, <2>3, MoneyStep DEF MoneyInv
<1>15. ASSUME NEW w \in Staff, DeskSettlePayment(w) PROVE CommerceInv'
  <2> DEFINE p == desk[w].order
  <2>1. /\ p \in Orders /\ p \in comped /\ SettlePayment(w)
        /\ payment' = [payment EXCEPT ![p] = "successful"]
        /\ UNCHANGED <<charge, sent, seen, accepted, answers, marking, emitting, emitted,
                       marked, comped>>
    BY <1>3, <1>15 DEF DeskSettlePayment, SettlePayment, AtDesk, DeskState, Idle, MoneyInv, SettlingOK
  <2> HIDE DEF p
  <2>2. payment \in [Orders -> P!PaymentStatus \cup {"none"}]
    BY DEF MoneyInv, P!PaymentsTypeOK
  <2>3. PaymentEffect
    <3>1. P!PaymentsTypeOK'
      BY <1>2, <2>1 DEF MoneyInv, P!PaymentsTypeOK, P!PaymentStatus, P!Terminal
    <3>2. ReportsTrue' /\ CoveredOrForced'
      BY <2>1, <2>2 DEF MoneyInv, ReportsTrue, CoveredOrForced
    <3> QED BY <2>1, <2>2, <3>1, <3>2 DEF PaymentEffect
  <2>4. OrderEffect
    BY <2>1, DeskOnlyEffect
  <2> QED BY <1>1, <2>1, <2>3, <2>4, MoneyStep DEF MoneyInv
<1>16. CASE UNCHANGED commerceVars
  <2>1. UNCHANGED <<status, cart, deskVars, paymentVars, comped>>
    BY <1>16 DEF commerceVars, allVars, vars, orderVars
  <2>2. PaymentEffect
    BY <1>2, <2>1, NoPaymentStep
  <2>3. OrderEffect
    BY <2>1, QuietDesk DEF deskVars
  <2> QED BY <1>1, <2>1, <2>2, <2>3, MoneyStep DEF MoneyInv
<1> QED BY <1>5, <1>6, <1>7, <1>8, <1>9, <1>10, <1>11, <1>12, <1>13, <1>14, <1>15, <1>16
        DEF CommerceNext

LEMMA CommerceInitInv ==
  ASSUME CommerceInit
  PROVE  CommerceInv
<1>1. DeskInv
  BY DeskInitInv DEF CommerceInit
<1>2. MoneyInv
  BY <1>1 DEF CommerceInit, MoneyInv, DeskInit, OrdersInit, P!PaymentsInit, P!PaymentsTypeOK,
       P!PaymentStatus, P!Terminal, P!Charge, ReportsTrue, CoveredOrForced, EventsOK, SettlingOK,
       PaidForOK, Idle, DeskInv, OrderInv, OrdersTypeOK
<1> QED BY <1>1, <1>2 DEF CommerceInv

\* The invariant holds whatever checkout, desk, provider and crashes do.
THEOREM CommerceInvariant == CommerceSpec => []CommerceInv
<1>1. CommerceInit => CommerceInv
  BY CommerceInitInv
<1>2. CommerceInv /\ [CommerceNext]_commerceVars => CommerceInv'
  BY CommerceStepInv
<1> QED BY <1>1, <1>2, PTL DEF CommerceSpec

\* Nobody gets seats for nothing, however webhooks, verify answers, desk
\* sessions and crashes interleave: an order with a price that no admin waved
\* through is paid only while its payment is successful and covered.
THEOREM SeatsPaidFor == CommerceSpec => []SeatsArePaidFor
<1>1. CommerceInv => SeatsArePaidFor
  BY DEF CommerceInv, MoneyInv, PaidForOK, CoveredOrForced, SeatsArePaidFor
<1> QED BY <1>1, CommerceInvariant, PTL

----------------------------------------------------------------------------
(* A successful payment reaches its order *)

\* A payment is created for an order whose checkout has committed.
CheckedOut ==
  \A o \in Orders : status[o] = "none" =>
    stage[o] # "reserved" /\ payment[o] = "none" /\ o \notin marking

\* The desk marks paid an order it found pending, and settles its payment
\* after the order.
MarkingOK ==
  \A w \in Staff :
    /\ desk[w].pc = "markPaid" => status[desk[w].order] # "none"
    /\ desk[w].pc = "settlePayment" => status[desk[w].order] \notin {"none", "pending"}

ReachInv == CommerceInv /\ CheckedOut /\ MarkingOK /\ SuccessReachesOrder

\* What a step does to payments and events, to checkouts, and to the desk.
PaymentReach ==
  \A o \in Orders :
    /\ payment'[o] # payment[o] \/ o \in marking' \ marking =>
         payment[o] # "none" \/ status[o] # "none"
    /\ payment'[o] = "successful" =>
         payment[o] = "successful" \/ emitting'[o] > 0 \/ status[o] \notin {"none", "pending"}
    /\ emitting[o] > 0 => emitting'[o] > 0 \/ status'[o] # "pending" \/ crashes' > 0

CheckoutReach ==
  \A o \in Orders : stage'[o] = "reserved" => stage[o] = "reserved" \/ status'[o] # "none"

DeskReach ==
  \A w \in Staff :
    \/ desk'[w] = desk[w]
    \/ /\ desk'[w].pc = "markPaid" => status[desk'[w].order] # "none"
       /\ desk'[w].pc = "settlePayment" => status'[desk'[w].order] \notin {"none", "pending"}

\* A step that does no more keeps the invariant, since statuses move forward.
LEMMA ReachKept ==
  ASSUME ReachInv, CommerceInv', MovesForward, crashes' = 0 => crashes = 0,
         PaymentReach, CheckoutReach, DeskReach
  PROVE  ReachInv'
<1>1. \A o \in Orders : /\ status'[o] = "none" => status[o] = "none"
                        /\ status[o] \notin {"none", "pending"} => status'[o] \notin {"none", "pending"}
                        /\ status[o] # "none" => status'[o] # "none"
                        /\ status'[o] = "pending" => status[o] \in {"none", "pending"}
  BY DEF MovesForward, StatusMoves
<1>2. CheckedOut'
  BY <1>1 DEF ReachInv, CheckedOut, PaymentReach, CheckoutReach
<1>3. SuccessReachesOrder'
  <2>1. SUFFICES ASSUME crashes' = 0, NEW o \in Orders, payment'[o] = "successful",
                        emitting'[o] = 0
                 PROVE  status'[o] # "pending"
    BY DEF SuccessReachesOrder
  <2>2. emitting \in [Orders -> Nat] /\ emitting' \in [Orders -> Nat]
    BY DEF ReachInv, CommerceInv, MoneyInv, P!PaymentsTypeOK
  <2>3. CASE payment[o] = "successful"
    BY <1>1, <2>1, <2>2, <2>3 DEF ReachInv, SuccessReachesOrder, CheckedOut, PaymentReach
  <2>4. CASE status[o] \notin {"none", "pending"}
    BY <1>1, <2>4
  <2> QED BY <2>1, <2>2, <2>3, <2>4 DEF PaymentReach
<1>4. MarkingOK'
  <2>1. SUFFICES ASSUME NEW w \in Staff, desk'[w].pc \in {"markPaid", "settlePayment"}
                 PROVE  /\ desk'[w].pc = "markPaid" => status'[desk'[w].order] # "none"
                        /\ desk'[w].pc = "settlePayment" =>
                             status'[desk'[w].order] \notin {"none", "pending"}
    BY DEF MarkingOK
  <2>2. desk' \in [Staff -> DeskState]
    BY DEF CommerceInv, DeskInv
  <2>3. desk'[w].order \in Orders
    BY <2>1, <2>2 DEF DeskState, Idle
  <2> QED BY <1>1, <2>1, <2>3 DEF ReachInv, MarkingOK, DeskReach
<1> QED BY <1>2, <1>3, <1>4 DEF ReachInv

\* finalize settles a pending payment, so one that was created, and counts the
\* event it owes.
LEMMA FinalizeReach ==
  ASSUME MoneyInv, NEW r \in accepted \cup answers, P!Finalize(r), marking' = marking
  PROVE  PaymentReach
<1> DEFINE p == r.payment
           applies == payment[p] = "pending" /\ (r.status = "successful" => r.covers)
<1>1. p \in Orders
  BY DEF MoneyInv, P!PaymentsTypeOK, P!Report
<1>2. /\ payment' = IF applies THEN [payment EXCEPT ![p] = r.status] ELSE payment
      /\ emitting' = IF applies /\ r.status = "successful"
                     THEN [emitting EXCEPT ![p] = @ + 1] ELSE emitting
  BY DEF P!Finalize
<1>3. payment \in [Orders -> P!PaymentStatus \cup {"none"}] /\ emitting \in [Orders -> Nat]
  BY DEF MoneyInv, P!PaymentsTypeOK
<1> HIDE DEF p
<1>4. \A o \in Orders : emitting[o] > 0 => emitting'[o] > 0
  BY <1>1, <1>2, <1>3
<1>5. \A o \in Orders : /\ payment'[o] # payment[o] => payment[o] # "none"
                        /\ payment'[o] = "successful" => payment[o] = "successful" \/ emitting'[o] > 0
  BY <1>1, <1>2, <1>3
<1> QED BY <1>4, <1>5 DEF PaymentReach

\* The handlers of module Payments that neither create a payment nor deliver
\* an event.
LEMMA PaymentsAloneReach ==
  ASSUME ReachInv,
         \/ \E o \in Orders :
              \/ P!Initialize(o) \/ P!Verify(o) \/ P!Reverse(o) \/ \E c \in P!Charge : P!Pay(o, c)
              \/ P!StartMark(o) \/ P!MarkSucceeded(o)
         \/ \E r \in sent : P!AcceptWebhook(r)
         \/ \E r \in accepted : P!Dispatch(r)
         \/ \E r \in answers : P!ApplyAnswer(r)
  PROVE  PaymentReach
<1>0. payment \in [Orders -> P!PaymentStatus \cup {"none"}] /\ emitting \in [Orders -> Nat]
  BY DEF ReachInv, CommerceInv, MoneyInv, P!PaymentsTypeOK
<1>1. CASE UNCHANGED <<payment, emitting, marking>>
  BY <1>1 DEF PaymentReach
<1>2. ASSUME NEW o \in Orders, P!StartMark(o) PROVE PaymentReach
  BY <1>2 DEF P!StartMark, PaymentReach
<1>3. ASSUME NEW o \in Orders, P!MarkSucceeded(o) PROVE PaymentReach
  BY <1>0, <1>3 DEF P!MarkSucceeded, PaymentReach, ReachInv, CheckedOut
<1>4. ASSUME NEW r \in accepted \cup answers, P!Dispatch(r) \/ P!ApplyAnswer(r)
      PROVE  PaymentReach
  BY <1>4, FinalizeReach DEF P!Dispatch, P!ApplyAnswer, ReachInv, CommerceInv
<1> QED BY <1>1, <1>2, <1>3, <1>4
        DEF P!Initialize, P!Verify, P!Reverse, P!Pay, P!AcceptWebhook

\* The desk's steps other than a refund's commit.
LEMMA DeskOnlyReach ==
  ASSUME ReachInv, NEW w \in Staff,
         \/ \E o \in Orders : StartMarkPaid(w, o) \/ \E asks \in BOOLEAN : StartRefund(w, o, asks)
         \/ \E s \in Seats : OrganizerRevoke(w, s) \/ StartRevoke(w, s) \/ AdminReissue(w, s)
         \/ ProviderRefunds(w) \/ ProviderRefuses(w) \/ OpenRefund(w) \/ AdminRevoke(w)
         \/ SettlePayment(w)
  PROVE  UNCHANGED <<stage, crashes>> /\ DeskReach
<1>1. UNCHANGED <<stage, crashes>>
  BY DEF StartMarkPaid, StartRefund, OrganizerRevoke, StartRevoke, AdminReissue, ProviderRefunds,
       ProviderRefuses, OpenRefund, AdminRevoke, SettlePayment, vars, requestVars
<1>2. desk \in [Staff -> DeskState]
  BY DEF ReachInv, CommerceInv, DeskInv
<1>3. CASE \E s \in Seats : OrganizerRevoke(w, s) \/ AdminReissue(w, s)
  BY <1>1, <1>3 DEF OrganizerRevoke, AdminReissue, deskVars, DeskReach
<1>4. CASE \E o \in Orders : StartMarkPaid(w, o) \/ \E asks \in BOOLEAN : StartRefund(w, o, asks)
  BY <1>1, <1>2, <1>4 DEF StartMarkPaid, StartRefund, Desk, DeskReach
<1>5. CASE (\E s \in Seats : StartRevoke(w, s)) \/ ProviderRefuses(w) \/ OpenRefund(w)
             \/ AdminRevoke(w) \/ SettlePayment(w)
  BY <1>1, <1>2, <1>5 DEF StartRevoke, ProviderRefuses, OpenRefund, AdminRevoke, SettlePayment,
       Desk, Idle, DeskReach
<1>6. CASE ProviderRefunds(w)
  <2>1. desk[w] \in [pc : {"askProvider", "refund"}, order : Orders, locksPayment : BOOLEAN]
    BY <1>2, <1>6 DEF ProviderRefunds, AtDesk, DeskState, Idle
  <2>2. /\ desk' = [desk EXCEPT ![w] = [desk[w] EXCEPT !.pc = "refund"]]
        /\ [desk[w] EXCEPT !.pc = "refund"].pc = "refund"
    BY <1>6, <2>1 DEF ProviderRefunds, Desk
  <2> QED BY <1>1, <1>2, <2>2 DEF DeskReach
<1> QED BY <1>1, <1>3, <1>4, <1>5, <1>6

\* A checkout step reserves only an order it gives a status.
LEMMA CheckoutStepReach ==
  ASSUME ReachInv, UNCHANGED deskVars, CheckoutStep
  PROVE  crashes' = crashes /\ CheckoutReach /\ DeskReach
<1>1. stage \in [Orders -> Stage] /\ status \in [Orders -> OrderStatus \cup {"none"}]
  BY DEF ReachInv, CommerceInv, DeskInv, OrderInv, OrdersTypeOK
<1>2. DeskReach
  BY DEF deskVars, DeskReach
<1>3. ASSUME NEW o \in Orders, NEW u \in Users, Admit(o, u)
      PROVE  crashes' = crashes /\ CheckoutReach
  BY <1>1, <1>3 DEF Admit, CheckoutReach
<1>4. ASSUME NEW o \in Orders, NEW c \in Carts, Reserve(o, c)
      PROVE  crashes' = crashes /\ CheckoutReach
  BY <1>1, <1>4 DEF Reserve, CheckoutReach
<1>5. ASSUME NEW o \in Orders, StartFails(o) \/ FulfillFree(o)
      PROVE  crashes' = crashes /\ CheckoutReach
  BY <1>1, <1>5 DEF StartFails, FulfillFree, CheckoutReach
<1>6. CASE \/ \E o \in Orders : Cancel(o) \/ CancelStale(o)
           \/ \E s \in Seats : Scan(s)
           \/ ExpireHolds \/ ReadStale \/ Tick
  <2>1. stage' = stage /\ crashes' = crashes
    BY <1>6 DEF Cancel, CancelStale, Scan, ExpireHolds, ReadStale, Tick, requestVars
  <2> QED BY <1>2, <2>1 DEF CheckoutReach
<1> QED BY <1>2, <1>3, <1>4, <1>5, <1>6 DEF CheckoutStep

\* Every step of the composition keeps the invariant.
LEMMA ReachStepInv ==
  ASSUME ReachInv, [CommerceNext]_commerceVars
  PROVE  ReachInv'
<1>1. CommerceInv' /\ MovesForward
  BY CommerceStepInv, StepMapsToDesk, DeskStepInv DEF ReachInv, CommerceInv
<1>2. /\ status \in [Orders -> OrderStatus \cup {"none"}] /\ stage \in [Orders -> Stage]
      /\ desk \in [Staff -> DeskState] /\ crashes \in 0..MaxCrashes
      /\ payment \in [Orders -> P!PaymentStatus \cup {"none"}] /\ emitting \in [Orders -> Nat]
  BY DEF ReachInv, CommerceInv, DeskInv, OrderInv, OrdersTypeOK, MoneyInv, P!PaymentsTypeOK
<1>3. UNCHANGED paymentVars => PaymentReach
  BY DEF paymentVars, PaymentReach
<1>4. UNCHANGED stage => CheckoutReach
  BY DEF CheckoutReach
<1>5. UNCHANGED deskVars => DeskReach
  BY DEF deskVars, DeskReach
<1>6. CASE OrdersOnly
  <2>1. CASE UNCHANGED deskVars /\ CheckoutStep
    BY <1>1, <1>3, <1>6, <2>1, CheckoutStepReach, ReachKept DEF OrdersOnly
  <2>2. CASE ~(UNCHANGED deskVars /\ CheckoutStep)
    <3>1. UNCHANGED <<stage, crashes>> /\ DeskReach
      BY <1>6, <2>2, DeskOnlyReach DEF OrdersOnly, CheckoutStep
    <3> QED BY <1>1, <1>3, <1>4, <1>6, <3>1, ReachKept DEF OrdersOnly
  <2> QED BY <2>1, <2>2
<1>7. CASE PaymentsOnly
  <2>1. UNCHANGED <<stage, crashes, deskVars>>
    BY <1>7 DEF PaymentsOnly, vars, requestVars
  <2>2. PaymentReach
    BY <1>7, PaymentsAloneReach DEF PaymentsOnly
  <2> QED BY <1>1, <1>4, <1>5, <2>1, <2>2, ReachKept
<1>8. CASE CrashAll
  <2>1. /\ crashes' = crashes + 1 /\ payment' = payment /\ marking' = {} /\ status' = status
        /\ \A o \in Orders : stage'[o] # "reserved" \/ stage[o] = "reserved"
        /\ desk' = [w \in Staff |-> Idle]
    BY <1>2, <1>8 DEF CrashAll, P!LoseRequests, Crash, CrashRequests, orderVars
  <2>2. crashes' > 0
    BY <1>2, <2>1
  <2>3. PaymentReach /\ CheckoutReach /\ DeskReach
    BY <1>2, <2>1, <2>2 DEF PaymentReach, CheckoutReach, DeskReach, Idle
  <2> QED BY <1>1, <2>2, <2>3, ReachKept
<1>9. ASSUME NEW o \in Orders, CreatePayment(o) PROVE ReachInv'
  <2>1. /\ stage[o] = "reserved" /\ stage' = [stage EXCEPT ![o] = "paying"]
        /\ payment' = [payment EXCEPT ![o] = "pending"]
        /\ UNCHANGED <<emitting, marking, crashes, deskVars>>
    BY <1>9 DEF CreatePayment, StartPayment, P!Create
  <2>2. PaymentReach
    BY <1>2, <2>1 DEF PaymentReach, ReachInv, CheckedOut
  <2>3. CheckoutReach
    BY <1>2, <2>1 DEF CheckoutReach
  <2> QED BY <1>1, <1>5, <2>1, <2>2, <2>3, ReachKept
<1>10. ASSUME NEW o \in Orders, InitializePayment(o) \/ BuyerPays(o) \/ VerifyPayment(o)
       PROVE  ReachInv'
  <2>1. UNCHANGED <<stage, crashes, deskVars>>
    BY <1>10 DEF InitializePayment, BuyerPays, VerifyPayment, vars, requestVars
  <2>2. PaymentReach
    BY <1>10, PaymentsAloneReach DEF InitializePayment, BuyerPays, VerifyPayment
  <2> QED BY <1>1, <1>4, <1>5, <2>1, <2>2, ReachKept
<1>11. ASSUME NEW o \in Orders, AnswerCheckout(o) PROVE ReachInv'
  <2>1. /\ stage' = [stage EXCEPT ![o] = "closed"]
        /\ UNCHANGED <<crashes, deskVars, paymentVars>>
    BY <1>11 DEF AnswerCheckout, LinkPayment
  <2>2. CheckoutReach
    BY <1>2, <2>1 DEF CheckoutReach
  <2> QED BY <1>1, <1>3, <1>5, <2>1, <2>2, ReachKept
<1>12. ASSUME NEW o \in Orders, DeliverSucceeded(o) PROVE ReachInv'
  <2>1. /\ UNCHANGED <<payment, marking, crashes, deskVars>>
        /\ emitting' = [emitting EXCEPT ![o] = @ - 1]
    BY <1>12 DEF DeliverSucceeded, P!Emit
  <2>2. stage' = stage /\ status'[o] # "pending"
    BY <1>2, <1>12 DEF DeliverSucceeded, PaymentSucceeded, Fulfill, vars, requestVars, orderVars
  <2>3. PaymentReach
    BY <1>2, <2>1, <2>2 DEF PaymentReach
  <2> QED BY <1>1, <1>4, <1>5, <2>1, <2>2, <2>3, ReachKept
<1>13. ASSUME NEW w \in Staff, NEW o \in Orders, DeskRefund(w, o) PROVE ReachInv'
  <2>1. UNCHANGED paymentVars /\ \E asks \in BOOLEAN : StartRefund(w, o, asks)
    BY <1>13 DEF DeskRefund
  <2>2. UNCHANGED <<stage, crashes>> /\ DeskReach
    BY <2>1, DeskOnlyReach
  <2> QED BY <1>1, <1>3, <1>4, <2>1, <2>2, ReachKept
<1>14. ASSUME NEW w \in Staff, DeskProviderRefunds(w) \/ DeskAnswerLost(w) PROVE ReachInv'
  <2>1. /\ desk[w].order \in Orders /\ P!Reverse(desk[w].order)
        /\ ProviderRefunds(w) \/ ProviderRefuses(w)
    BY <1>2, <1>14 DEF DeskProviderRefunds, DeskAnswerLost, ProviderRefunds, ProviderRefuses, AtDesk, DeskState, Idle
  <2>2. UNCHANGED <<stage, crashes>> /\ DeskReach
    BY <2>1, DeskOnlyReach
  <2>3. PaymentReach
    BY <2>1, PaymentsAloneReach
  <2> QED BY <1>1, <1>4, <2>2, <2>3, ReachKept
<1>15. ASSUME NEW w \in Staff, DeskCommitRefund(w) PROVE ReachInv'
  <2> DEFINE p == desk[w].order
  <2>1. /\ p \in Orders /\ desk' = [desk EXCEPT ![w] = Idle]
        /\ payment' \in {payment, [payment EXCEPT ![p] = "refunded"]}
        /\ status' = [status EXCEPT ![p] = "refunded"]
        /\ UNCHANGED <<stage, crashes, emitting, marking>>
    BY <1>2, <1>15 DEF DeskCommitRefund, CommitRefund, AtDesk, Desk, DeskState, Idle, requestVars
  <2> HIDE DEF p
  <2>2. status[p] # "none"
    BY <1>1, <1>2, <2>1 DEF MovesForward, StatusMoves
  <2>3. PaymentReach
    BY <1>2, <2>1, <2>2 DEF PaymentReach
  <2>4. DeskReach
    BY <1>2, <2>1 DEF DeskReach, Idle
  <2> QED BY <1>1, <1>4, <2>1, <2>3, <2>4, ReachKept
<1>16. ASSUME NEW w \in Staff, DeskMarkPaid(w) PROVE ReachInv'
  <2> DEFINE p == desk[w].order
  <2>1. /\ p \in Orders /\ desk[w].pc = "markPaid" /\ MarkPaid(w) /\ UNCHANGED paymentVars
    BY <1>2, <1>16 DEF DeskMarkPaid, MarkPaid, AtDesk, DeskState, Idle
  <2>2. UNCHANGED <<stage, crashes>>
    BY <2>1 DEF MarkPaid, requestVars
  <2>3. status'[p] \notin {"none", "pending"}
    BY <1>2, <2>1 DEF MarkPaid, Fulfill, orderVars, ReachInv, MarkingOK
  <2>4. \/ desk' = [desk EXCEPT ![w] = Idle]
        \/ desk' = [desk EXCEPT ![w] = [pc |-> "settlePayment", order |-> p]]
    BY <2>1 DEF MarkPaid, Desk
  <2> HIDE DEF p
  <2>5. DeskReach
    BY <1>2, <2>3, <2>4 DEF DeskReach, Idle
  <2> QED BY <1>1, <1>3, <1>4, <2>1, <2>2, <2>5, ReachKept
<1>17. ASSUME NEW w \in Staff, DeskSettlePayment(w) PROVE ReachInv'
  <2> DEFINE p == desk[w].order
  <2>1. /\ p \in Orders /\ SettlePayment(w) /\ status[p] \notin {"none", "pending"}
        /\ payment' = [payment EXCEPT ![p] = "successful"]
        /\ UNCHANGED <<emitting, marking>>
    BY <1>2, <1>17 DEF DeskSettlePayment, SettlePayment, AtDesk, DeskState, Idle, ReachInv, MarkingOK
  <2> HIDE DEF p
  <2>2. PaymentReach
    BY <1>2, <2>1 DEF PaymentReach
  <2> QED BY <1>1, <1>4, <2>1, <2>2, DeskOnlyReach, ReachKept
<1>18. CASE UNCHANGED commerceVars
  <2>1. UNCHANGED <<stage, crashes, deskVars, paymentVars>>
    BY <1>18 DEF commerceVars, allVars, vars, requestVars
  <2> QED BY <1>1, <1>3, <1>4, <1>5, <2>1, ReachKept
<1> QED BY <1>6, <1>7, <1>8, <1>9, <1>10, <1>11, <1>12, <1>13, <1>14, <1>15, <1>16, <1>17, <1>18
        DEF CommerceNext

\* The in-process event of a settled payment finds its order: without a crash,
\* no successful payment is left beside a pending order once its event is
\* delivered, whatever webhooks, verify answers and admins did in between.
THEOREM SuccessAlwaysReachesOrder == CommerceSpec => []SuccessReachesOrder
<1>1. CommerceInit => ReachInv
  <2> SUFFICES ASSUME CommerceInit PROVE ReachInv
    OBVIOUS
  <2>1. CommerceInv
    BY CommerceInitInv
  <2>2. CheckedOut /\ MarkingOK /\ SuccessReachesOrder
    BY DEF CommerceInit, DeskInit, OrdersInit, P!PaymentsInit, CheckedOut, MarkingOK,
         SuccessReachesOrder, Idle
  <2> QED BY <2>1, <2>2 DEF ReachInv
<1>2. ReachInv /\ [CommerceNext]_commerceVars => ReachInv'
  BY ReachStepInv
<1>3. ReachInv => SuccessReachesOrder
  BY DEF ReachInv
<1> QED BY <1>1, <1>2, <1>3, PTL DEF CommerceSpec

----------------------------------------------------------------------------
(* Money that went back is booked *)

\* A desk session's hold on the refund it has its answer for.
AtRefund(d) == d.pc \in {"refund", "revoking"}

ReturnInv == CommerceInv /\ unbooked \subseteq Orders /\ ReturnedIsBooked

\* What a step does to the refunds under way and to the money at the provider.
RefundsHeld ==
  \A w \in Staff : AtRefund(desk[w]) =>
    AtRefund(desk'[w]) /\ desk'[w].order = desk[w].order

NothingReturned ==
  \A o \in Orders : charge'[o] = "reversed" => charge[o] = "reversed"

\* A step that returns no money and ends no refund keeps it, since a refunded
\* order stays so.
LEMMA ReturnKept ==
  ASSUME ReturnInv, CommerceInv', MovesForward, RefundsHeld, NothingReturned,
         unbooked' = unbooked
  PROVE  ReturnInv'
<1>1. \A o \in Orders : Booking(o) => Booking(o)'
  BY DEF RefundsHeld, Booking, AtRefund
<1>2. \A o \in Orders : status[o] = "refunded" => status'[o] = "refunded"
  BY DEF MovesForward, StatusMoves
<1>3. ReturnedIsBooked'
  BY <1>1, <1>2 DEF ReturnInv, ReturnedIsBooked, NothingReturned
<1> QED BY <1>3 DEF ReturnInv

\* The handlers of module Payments other than a refund return no money.
LEMMA PaymentsReturnNothing ==
  ASSUME MoneyInv,
         \/ \E o \in Orders :
              \/ P!Create(o) \/ P!Initialize(o) \/ P!Verify(o) \/ P!Emit(o)
              \/ \E c \in P!Charge : P!Pay(o, c)
              \/ P!StartMark(o) \/ P!MarkSucceeded(o)
         \/ \E r \in sent : P!AcceptWebhook(r)
         \/ \E r \in accepted : P!Dispatch(r)
         \/ \E r \in answers : P!ApplyAnswer(r)
  PROVE  NothingReturned
<1>1. charge \in [Orders -> P!Charge]
  BY DEF MoneyInv, P!PaymentsTypeOK
<1>2. ASSUME NEW o \in Orders, P!Initialize(o) PROVE NothingReturned
  BY <1>1, <1>2 DEF P!Initialize, NothingReturned
<1>3. ASSUME NEW o \in Orders, NEW c \in P!Charge, P!Pay(o, c) PROVE NothingReturned
  BY <1>1, <1>3 DEF P!Pay, NothingReturned
<1>4. CASE charge' = charge
  BY <1>4 DEF NothingReturned
<1> QED BY <1>2, <1>3, <1>4
        DEF P!Create, P!Verify, P!Emit, P!StartMark, P!MarkSucceeded, P!AcceptWebhook,
            P!Dispatch, P!ApplyAnswer

\* The desk's steps that neither ask the provider nor close a refund.
LEMMA DeskHoldsRefunds ==
  ASSUME DeskInv, NEW w \in Staff,
         \/ \E o \in Orders : StartMarkPaid(w, o) \/ \E asks \in BOOLEAN : StartRefund(w, o, asks)
         \/ \E s \in Seats : OrganizerRevoke(w, s) \/ StartRevoke(w, s) \/ AdminReissue(w, s)
         \/ ProviderRefunds(w) \/ ProviderRefuses(w) \/ OpenRefund(w) \/ AdminRevoke(w)
         \/ MarkPaid(w) \/ SettlePayment(w)
  PROVE  RefundsHeld
<1>1. desk \in [Staff -> DeskState]
  BY DEF DeskInv
<1>2. CASE \E s \in Seats : OrganizerRevoke(w, s) \/ AdminReissue(w, s)
  BY <1>2 DEF OrganizerRevoke, AdminReissue, deskVars, RefundsHeld
<1>3. CASE ~AtRefund(desk[w]) /\ \E d : desk' = [desk EXCEPT ![w] = d]
  BY <1>1, <1>3 DEF RefundsHeld
<1>4. CASE OpenRefund(w)
  <2> DEFINE d == [pc |-> "revoking", order |-> desk[w].order,
                   locksPayment |-> desk[w].locksPayment, ids |-> Unscanned(desk[w].order),
                   readValid |-> {s \in Unscanned(desk[w].order) : ticket[s] = "valid"}]
  <2>1. desk' = [desk EXCEPT ![w] = d]
    BY <1>4 DEF OpenRefund, Desk
  <2>2. d.pc = "revoking" /\ d.order = desk[w].order
    OBVIOUS
  <2> HIDE DEF d
  <2> QED BY <1>1, <2>1, <2>2 DEF RefundsHeld, AtRefund
<1> QED BY <1>2, <1>3, <1>4
        DEF StartMarkPaid, StartRefund, StartRevoke, ProviderRefunds, ProviderRefuses, AdminRevoke,
            MarkPaid, SettlePayment, AtDesk, AtRefund, Desk

\* Every step of the composition keeps the invariant.
LEMMA ReturnStepInv ==
  ASSUME ReturnInv, [CommerceNext]_commerceVars
  PROVE  ReturnInv'
<1>1. CommerceInv' /\ MovesForward
  BY CommerceStepInv, StepMapsToDesk, DeskStepInv DEF ReturnInv, CommerceInv
<1>2. /\ desk \in [Staff -> DeskState] /\ charge \in [Orders -> P!Charge]
      /\ DeskInv /\ MoneyInv
  BY DEF ReturnInv, CommerceInv, DeskInv, MoneyInv, P!PaymentsTypeOK
<1>3. UNCHANGED charge => NothingReturned
  BY DEF NothingReturned
<1>4. UNCHANGED deskVars => RefundsHeld
  BY DEF deskVars, RefundsHeld
<1>5. \A o \in Orders : status[o] = "refunded" => status'[o] = "refunded"
  BY <1>1 DEF MovesForward, StatusMoves
<1>6. CASE OrdersOnly
  <2>1. UNCHANGED <<charge, unbooked>>
    BY <1>6 DEF OrdersOnly, paymentVars
  <2>2. RefundsHeld
    BY <1>2, <1>4, <1>6, DeskHoldsRefunds DEF OrdersOnly
  <2> QED BY <1>1, <1>3, <2>1, <2>2, ReturnKept
<1>7. CASE PaymentsOnly
  <2>1. NothingReturned
    BY <1>2, <1>7, PaymentsReturnNothing DEF PaymentsOnly
  <2> QED BY <1>1, <1>4, <1>7, <2>1, ReturnKept DEF PaymentsOnly
<1>8. CASE CrashAll
  <2>1. /\ charge' = charge /\ unbooked' \subseteq Orders /\ status' = status
        /\ unbooked \subseteq unbooked'
        /\ \A o \in Orders : charge[o] = "reversed" /\ Booking(o) => o \in unbooked'
    BY <1>8 DEF CrashAll, P!LoseRequests, Crash, CrashRequests, orderVars, ReturnInv
  <2>2. ReturnedIsBooked'
    BY <2>1 DEF ReturnInv, ReturnedIsBooked
  <2> QED BY <1>1, <2>1, <2>2 DEF ReturnInv
<1>9. ASSUME NEW o \in Orders,
             \/ CreatePayment(o) \/ InitializePayment(o) \/ AnswerCheckout(o)
             \/ BuyerPays(o) \/ VerifyPayment(o) \/ DeliverSucceeded(o)
      PROVE  ReturnInv'
  <2>1. UNCHANGED deskVars /\ unbooked' = unbooked
    BY <1>9 DEF CreatePayment, InitializePayment, AnswerCheckout, BuyerPays, VerifyPayment,
         DeliverSucceeded
  <2>2. NothingReturned
    BY <1>2, <1>3, <1>9, PaymentsReturnNothing
       DEF CreatePayment, InitializePayment, AnswerCheckout, BuyerPays, VerifyPayment,
           DeliverSucceeded, paymentVars
  <2> QED BY <1>1, <1>4, <2>1, <2>2, ReturnKept
<1>10. ASSUME NEW w \in Staff, NEW o \in Orders, DeskRefund(w, o) PROVE ReturnInv'
  <2>1. UNCHANGED <<charge, unbooked>> /\ \E asks \in BOOLEAN : StartRefund(w, o, asks)
    BY <1>10 DEF DeskRefund, paymentVars
  <2> QED BY <1>1, <1>2, <1>3, <2>1, DeskHoldsRefunds, ReturnKept
<1>11. ASSUME NEW w \in Staff, DeskProviderRefunds(w) \/ DeskAnswerLost(w) PROVE ReturnInv'
  <2>1. /\ desk[w].pc = "askProvider"
        /\ ProviderRefunds(w) \/ ProviderRefuses(w)
        /\ charge' = [charge EXCEPT ![desk[w].order] = "reversed"]
    BY <1>11 DEF DeskProviderRefunds, DeskAnswerLost, ProviderRefunds, ProviderRefuses, AtDesk,
         P!Reverse
  <2>2. desk[w] \in [pc : {"askProvider", "refund"}, order : Orders, locksPayment : BOOLEAN]
    BY <1>2, <2>1 DEF DeskState, Idle
  <2>3. PICK p \in Orders : p = desk[w].order
    BY <2>2
  <2>4. RefundsHeld
    BY <1>2, <2>1, DeskHoldsRefunds
  <2>5. Booking(p)' \/ p \in unbooked'
    <3>1. CASE DeskProviderRefunds(w)
      <4>1. /\ desk' = [desk EXCEPT ![w] = [desk[w] EXCEPT !.pc = "refund"]]
            /\ [desk[w] EXCEPT !.pc = "refund"].pc = "refund"
            /\ [desk[w] EXCEPT !.pc = "refund"].order = p
        BY <2>2, <2>3, <3>1 DEF DeskProviderRefunds, ProviderRefunds, Desk
      <4>2. desk'[w].pc = "refund" /\ desk'[w].order = p
        BY <1>2, <4>1
      <4> QED BY <4>2 DEF Booking
    <3>2. CASE DeskAnswerLost(w)
      BY <2>3, <3>2 DEF DeskAnswerLost
    <3> QED BY <1>11, <3>1, <3>2
  <2>6. unbooked \subseteq unbooked' /\ unbooked' \subseteq Orders
    BY <1>11, <2>3 DEF DeskProviderRefunds, DeskAnswerLost, ReturnInv
  <2>7. \A o \in Orders : Booking(o) => Booking(o)'
    BY <2>4 DEF RefundsHeld, Booking, AtRefund
  <2>8. \A o \in Orders : charge'[o] = "reversed" => charge[o] = "reversed" \/ o = p
    BY <1>2, <2>1, <2>3
  <2>9. ReturnedIsBooked'
    BY <1>5, <2>5, <2>6, <2>7, <2>8 DEF ReturnInv, ReturnedIsBooked
  <2> QED BY <1>1, <2>6, <2>9 DEF ReturnInv
<1>12. ASSUME NEW w \in Staff, DeskCommitRefund(w) PROVE ReturnInv'
  <2> DEFINE p == desk[w].order
  <2>1. /\ p \in Orders /\ desk' = [desk EXCEPT ![w] = Idle]
        /\ status' = [status EXCEPT ![p] = "refunded"]
        /\ UNCHANGED <<charge, unbooked>>
    BY <1>2, <1>12 DEF DeskCommitRefund, CommitRefund, AtDesk, Desk, DeskState, Idle
  <2>2. \A o \in Orders \ {p} : Booking(o) => Booking(o)'
    BY <1>2, <2>1 DEF Booking
  <2> HIDE DEF p
  <2>3. status'[p] = "refunded"
    BY <1>2, <2>1 DEF DeskInv, OrderInv, OrdersTypeOK
  <2>4. ReturnedIsBooked'
    BY <1>5, <2>1, <2>2, <2>3 DEF ReturnInv, ReturnedIsBooked
  <2> QED BY <1>1, <2>1, <2>4 DEF ReturnInv
<1>13. ASSUME NEW w \in Staff, DeskMarkPaid(w) \/ DeskSettlePayment(w) PROVE ReturnInv'
  <2>1. UNCHANGED <<charge, unbooked>> /\ (MarkPaid(w) \/ SettlePayment(w))
    BY <1>13 DEF DeskMarkPaid, DeskSettlePayment, paymentVars
  <2> QED BY <1>1, <1>2, <1>3, <2>1, DeskHoldsRefunds, ReturnKept
<1>14. CASE UNCHANGED commerceVars
  BY <1>1, <1>3, <1>4, <1>14, ReturnKept DEF commerceVars, allVars, paymentVars
<1> QED BY <1>6, <1>7, <1>8, <1>9, <1>10, <1>11, <1>12, <1>13, <1>14 DEF CommerceNext

\* It holds whatever refunds, webhooks, overrides and crashes interleave.
THEOREM ReturnInvariant == CommerceSpec => []ReturnInv
<1>1. CommerceInit => ReturnInv
  <2> SUFFICES ASSUME CommerceInit PROVE ReturnInv
    OBVIOUS
  <2>1. CommerceInv
    BY CommerceInitInv
  <2>2. unbooked \subseteq Orders /\ ReturnedIsBooked
    BY DEF CommerceInit, P!PaymentsInit, ReturnedIsBooked
  <2> QED BY <2>1, <2>2 DEF ReturnInv
<1>2. ReturnInv /\ [CommerceNext]_commerceVars => ReturnInv'
  BY ReturnStepInv
<1> QED BY <1>1, <1>2, PTL DEF CommerceSpec

\* The money a refund returned is accounted for: an order whose charge went back
\* is refunded or a running OrderModerationService.refund is about to write it so,
\* unless that request's process stopped or the provider's answer never came.
THEOREM ReturnedAlwaysBooked == CommerceSpec => []ReturnedIsBooked
BY ReturnInvariant, PTL DEF ReturnInv

\* Orders, desk and payments keep their types together.
THEOREM CommerceTypeCorrect == CommerceSpec => []CommerceTypeOK
<1>1. ReturnInv => CommerceTypeOK
  BY DEF ReturnInv, CommerceInv, MoneyInv, DeskInv, OrderInv, DeskTypeOK, CommerceTypeOK
<1> QED BY <1>1, ReturnInvariant, PTL

=============================================================================
