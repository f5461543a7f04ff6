------------------------------- MODULE Orders -------------------------------
(***************************************************************************)
(* Checkout, holds, fulfilment and cancellation: OrdersService with its    *)
(* rules and its two cron jobs, on top of the issued-tickets kernel.       *)
(*                                                                         *)
(* A checkout request is not one step.  It is admitted on an event row     *)
(* read earlier ("admitted"), reserves stock in a transaction that locks   *)
(* the ticket types ("reserved"), creates a payment outside of it          *)
(* ("paying") and links it to the order ("closed"); other requests, the    *)
(* cron jobs, the clock and a crash of the process come in between.  What  *)
(* the payment provider decides is left open here: once a payment exists   *)
(* its success may be delivered at any time, or never.                     *)
(***************************************************************************)
EXTENDS Tickets, FiniteSetsExt

CONSTANTS Users,         \* buyers
          NoUser,        \* buyer of an order that does not exist yet
          Carts,         \* the carts a request may ask for: sets of slots
          Price,         \* [Types -> Nat]: gross price
          Quantity,      \* [Types -> Nat]: stock (large: unlimited)
          MaxPerOrder,   \* [Types -> Nat]
          MaxPerUser,    \* [Types -> Nat]
          SalesStart,    \* [Types -> Int]
          SalesEnd,      \* [Types -> Int]
          PresaleUntil,  \* before this instant only Rsvped users may buy
          Rsvped,        \* users with an RSVP for the event
          EventEnds,     \* events.ends_at
          HoldTtl,       \* orders.hold_ttl_minutes, in ticks
          MaxCrashes     \* bound on process crashes

Subtotal(c) == MapThenSumSet(LAMBDA x : Price[x.type], c)

ASSUME OrdersAssumption ==
  /\ NoUser \notin Users
  /\ Rsvped \subseteq Users
  /\ Carts \subseteq SUBSET Slot
  /\ \A c \in Carts : \A x, y \in c : x.line = y.line => x.type = y.type
  /\ Price \in [Types -> Nat]
  /\ Quantity \in [Types -> Nat] /\ MaxPerOrder \in [Types -> Nat]
  /\ MaxPerUser \in [Types -> Nat]
  /\ SalesStart \in [Types -> Int] /\ SalesEnd \in [Types -> Int]
  /\ PresaleUntil \in Int /\ EventEnds \in Nat
  /\ HoldTtl \in Nat \ {0} /\ MaxCrashes \in Nat

VARIABLES status,     \* [Orders -> OrderStatus \cup {"none"}]
          buyer,      \* [Orders -> Users \cup {NoUser}]
          hold,       \* [Orders -> Nat]: expires_at of the order's hold rows, 0 when deleted
          stage,      \* [Orders -> Stage]: where the checkout request stands (volatile)
          payRow,     \* [Orders -> PayRow]: its payment row, and whether payment_id is set
          sweep,      \* ids the stale-order cron has read and not yet cancelled (volatile)
          revenue,    \* events.revenue_minor
          ledger,     \* [Orders -> [sale, refund : Nat]]: ledger entries by source order
          firstSale,  \* orders whose fulfilment found first_sale_notified_at null
          crashes,    \* crashes so far
          late        \* history: orders fulfilled when their hold was no longer live

orderVars == <<status, buyer, hold, payRow, revenue, ledger, firstSale, late>>
requestVars == <<stage, sweep, crashes>>
vars == <<now, cart, ticketVars, orderVars, requestVars>>

OrderStatus == {"pending", "paid", "cancelled", "refunded"}
Stage == {"new", "admitted", "reserved", "paying", "closed"}
PayRow == {"none", "created", "linked"}

OrdersTypeOK ==
  /\ TicketsTypeOK
  /\ status \in [Orders -> OrderStatus \cup {"none"}]
  /\ buyer \in [Orders -> Users \cup {NoUser}]
  /\ hold \in [Orders -> Nat]
  /\ stage \in [Orders -> Stage]
  /\ payRow \in [Orders -> PayRow]
  /\ sweep \subseteq Orders
  /\ revenue \in Nat
  /\ ledger \in [Orders -> [sale : Nat, refund : Nat]]
  /\ firstSale \subseteq Orders
  /\ crashes \in 0..MaxCrashes
  /\ late \subseteq Orders

OrdersInit ==
  /\ TicketsInit
  /\ status = [o \in Orders |-> "none"]
  /\ buyer = [o \in Orders |-> NoUser]
  /\ hold = [o \in Orders |-> 0]
  /\ stage = [o \in Orders |-> "new"]
  /\ payRow = [o \in Orders |-> "none"]
  /\ sweep = {}
  /\ revenue = 0
  /\ ledger = [o \in Orders |-> [sale |-> 0, refund |-> 0]]
  /\ firstSale = {}
  /\ crashes = 0
  /\ late = {}

----------------------------------------------------------------------------
(* Rules *)

LiveHold(o) == hold[o] > now
HeldSeats == UNION {SeatsOf(o) : o \in {p \in Orders : LiveHold(p)}}
LiveSeats == {s \in Seats : Live(s)}

\* ownedByUser: issued tickets of this holder, and the live holds of his orders.
OwnedByUser(u, t) ==
  Cardinality({s \in OfType(LiveSeats, t) : buyer[OrderOf(s)] = u})
    + Cardinality({s \in OfType(HeldSeats, t) : buyer[OrderOf(s)] = u})

\* Mutant of Available: pending reservations are not counted.
AvailableIgnoringHolds(t) == Quantity[t] - soldCount[t]

Available(t) == Quantity[t] - soldCount[t] - Cardinality(OfType(HeldSeats, t))

\* ensureBuyable, for one line: it sees committed holds only, so not those
\* of another line of the same cart.
EnsureBuyable(u, t, qty) ==
  /\ qty <= MaxPerOrder[t]
  /\ OwnedByUser(u, t) + qty <= MaxPerUser[t]
  /\ SalesStart[t] <= now
  /\ now <= SalesEnd[t]
  /\ now <= ValidTo[t]
  /\ qty <= Available(t)

CartBuyable(u, c) ==
  \A x \in c : EnsureBuyable(u, x.type, Cardinality({y \in c : y.line = x.line}))

EventOpenForSales(u) ==
  /\ now < EventEnds
  /\ (now < PresaleUntil => u \in Rsvped)

----------------------------------------------------------------------------
(* A checkout request *)

Admit(o, u) ==
  /\ stage[o] = "new"
  /\ EventOpenForSales(u)
  /\ stage' = [stage EXCEPT ![o] = "admitted"]
  /\ buyer' = [buyer EXCEPT ![o] = u]
  /\ UNCHANGED <<now, cart, ticketVars, status, hold, payRow, revenue, ledger,
                 firstSale, late, sweep, crashes>>

\* The checkout transaction; a cart that is not buyable leaves no row behind.
Reserve(o, c) ==
  /\ stage[o] = "admitted"
  /\ c # {}
  /\ CartBuyable(buyer[o], c)
  /\ cart' = [cart EXCEPT ![o] = c]
  /\ status' = [status EXCEPT ![o] = "pending"]
  /\ hold' = [hold EXCEPT ![o] = now + HoldTtl]
  /\ stage' = [stage EXCEPT ![o] = "reserved"]
  /\ UNCHANGED <<now, ticketVars, buyer, payRow, revenue, ledger, firstSale,
                 late, sweep, crashes>>

\* payments.start creates the payment row, then calls the provider.
StartPayment(o) ==
  /\ stage[o] = "reserved"
  /\ Subtotal(cart[o]) # 0
  /\ stage' = [stage EXCEPT ![o] = "paying"]
  /\ payRow' = [payRow EXCEPT ![o] = "created"]
  /\ UNCHANGED <<now, cart, ticketVars, status, buyer, hold, revenue, ledger,
                 firstSale, late, sweep, crashes>>

\* The provider refuses or times out: the request fails, the order stays.
StartFails(o) ==
  /\ stage[o] = "paying"
  /\ stage' = [stage EXCEPT ![o] = "closed"]
  /\ UNCHANGED <<now, cart, ticketVars, orderVars, sweep, crashes>>

LinkPayment(o) ==
  /\ stage[o] = "paying"
  /\ stage' = [stage EXCEPT ![o] = "closed"]
  /\ payRow' = [payRow EXCEPT ![o] = "linked"]
  /\ UNCHANGED <<now, cart, ticketVars, status, buyer, hold, revenue, ledger,
                 firstSale, late, sweep, crashes>>

----------------------------------------------------------------------------
(* Fulfilment *)

\* Mutant of RecordRefund: the call is forgotten.
RecordRefundForgotten(o) == UNCHANGED ledger

\* The organiser's ledger, one entry per call, and the event's revenue cache.
RecordSale(o) == ledger' = [ledger EXCEPT ![o].sale = @ + 1]
RecordRefund(o) == ledger' = [ledger EXCEPT ![o].refund = @ + 1]
ReverseEventRevenue(o) == revenue' = Decrement(revenue, Subtotal(cart[o]))

\* Mutant of Fulfill: the status is not looked at under the lock.
FulfillUnchecked(o) ==
  /\ status[o] # "none"
  /\ IssueForOrder(o)
  /\ hold' = [hold EXCEPT ![o] = 0]
  /\ status' = [status EXCEPT ![o] = "paid"]
  /\ revenue' = revenue + Subtotal(cart[o])
  /\ RecordSale(o)
  /\ firstSale' = IF firstSale = {} THEN {o} ELSE firstSale
  /\ late' = IF LiveHold(o) THEN late ELSE late \cup {o}
  /\ UNCHANGED <<now, cart, buyer, payRow>>

\* fulfill: under the order's row lock; anything but a pending order is left
\* alone.  Neither the stock nor the hold is looked at again.
Fulfill(o) ==
  /\ status[o] = "pending"
  /\ IssueForOrder(o)
  /\ hold' = [hold EXCEPT ![o] = 0]
  /\ status' = [status EXCEPT ![o] = "paid"]
  /\ revenue' = revenue + Subtotal(cart[o])
  /\ RecordSale(o)
  /\ firstSale' = IF firstSale = {} THEN {o} ELSE firstSale
  /\ late' = IF LiveHold(o) THEN late ELSE late \cup {o}
  /\ UNCHANGED <<now, cart, buyer, payRow>>

\* A free order is fulfilled by the checkout request itself.
FulfillFree(o) ==
  /\ stage[o] = "reserved"
  /\ Subtotal(cart[o]) = 0
  /\ Fulfill(o)
  /\ stage' = [stage EXCEPT ![o] = "closed"]
  /\ UNCHANGED <<sweep, crashes>>

\* The payment.succeeded listener.
PaymentSucceeded(o) ==
  /\ payRow[o] # "none"
  /\ Fulfill(o)
  /\ UNCHANGED requestVars

----------------------------------------------------------------------------
(* Cancellation and the cron jobs *)

\* Mutant of CancelOrder: any order is cancelled.
CancelUnchecked(o) ==
  /\ status[o] # "none"
  /\ hold' = [hold EXCEPT ![o] = 0]
  /\ status' = [status EXCEPT ![o] = "cancelled"]
  /\ UNCHANGED <<now, cart, ticketVars, buyer, payRow, revenue, ledger,
                 firstSale, late>>

\* cancel: under the order's row lock, and only a pending order.
CancelOrder(o) ==
  /\ status[o] = "pending"
  /\ hold' = [hold EXCEPT ![o] = 0]
  /\ status' = [status EXCEPT ![o] = "cancelled"]
  /\ UNCHANGED <<now, cart, ticketVars, buyer, payRow, revenue, ledger,
                 firstSale, late>>

\* The buyer (or an admin) cancels.
Cancel(o) ==
  /\ CancelOrder(o)
  /\ UNCHANGED requestVars

ExpireHolds ==
  /\ \E o \in Orders : hold[o] # 0 /\ hold[o] <= now
  /\ hold' = [o \in Orders |-> IF hold[o] <= now THEN 0 ELSE hold[o]]
  /\ UNCHANGED <<now, cart, ticketVars, status, buyer, payRow, revenue, ledger,
                 firstSale, late, requestVars>>

\* Mutants of Stale: every pending order; only one whose lapsed row still exists.
StaleAny(o) == status[o] = "pending"
StaleHoldRow(o) == /\ status[o] = "pending"
                   /\ EventEnds < now \/ (hold[o] # 0 /\ ~LiveHold(o))

Stale(o) == /\ status[o] = "pending"
            /\ EventEnds < now \/ ~LiveHold(o)

\* cancelStalePending reads the stale orders first ...
ReadStale ==
  /\ \E o \in Orders \ sweep : Stale(o)
  /\ sweep' = sweep \cup {o \in Orders : Stale(o)}
  /\ UNCHANGED <<now, cart, ticketVars, orderVars, stage, crashes>>

\* ... and then cancels them one by one; cancel looks at the status again.
CancelStale(o) ==
  /\ o \in sweep
  /\ sweep' = sweep \ {o}
  /\ \/ CancelOrder(o)
     \/ /\ status[o] # "pending"
        /\ UNCHANGED <<now, cart, ticketVars, orderVars>>
  /\ UNCHANGED <<stage, crashes>>

----------------------------------------------------------------------------
(* The clock and the process *)

Tick ==
  /\ now < Horizon
  /\ now' = now + 1
  /\ UNCHANGED <<cart, ticketVars, orderVars, requestVars>>

\* A crash loses the requests in flight and the cron job's list.
CrashRequests ==
  /\ crashes < MaxCrashes
  /\ crashes' = crashes + 1
  /\ stage' = [o \in Orders |->
                 CASE stage[o] = "admitted" -> "new"
                   [] stage[o] \in {"reserved", "paying"} -> "closed"
                   [] OTHER -> stage[o]]
  /\ sweep' = {}
  /\ UNCHANGED <<now, cart, ticketVars, orderVars>>

Scan(s) == /\ ScanByCode(s)
           /\ UNCHANGED <<now, cart, orderVars, requestVars>>

OrdersStep ==
  \/ \E o \in Orders :
       \/ \E u \in Users : Admit(o, u)
       \/ \E c \in Carts : Reserve(o, c)
       \/ StartPayment(o) \/ StartFails(o) \/ LinkPayment(o)
       \/ FulfillFree(o) \/ PaymentSucceeded(o)
       \/ Cancel(o) \/ CancelStale(o)
  \/ \E s \in Seats : Scan(s)
  \/ ExpireHolds \/ ReadStale \/ Tick

Next == OrdersStep \/ CrashRequests

\* The clock moves, the cron job runs every quarter of an hour and its loop
\* goes on; nothing obliges a buyer or the provider to act.
Fairness == /\ WF_vars(Tick)
            /\ WF_vars(ReadStale)
            /\ \A o \in Orders : WF_vars(CancelStale(o))

Spec == OrdersInit /\ [][Next]_vars /\ Fairness

----------------------------------------------------------------------------
(* Properties *)

Settled == {o \in Orders : status[o] \in {"paid", "refunded"}}
IssuedOrders == {o \in Orders : \E s \in SeatsOf(o) : ticket[s] # "none"}

\* Orders whose cart names one ticket type on two lines.
RepeatedType == {o \in Orders : \E x, y \in cart[o] : x.type = y.type /\ x.line # y.line}

\* The seats that nobody checked against the stock when it mattered: those of
\* an order paid after its hold had lapsed, or of a cart with repeated lines.
UncheckedSeats == UNION {SeatsOf(o) : o \in late \cup RepeatedType}

\* Stock is over-committed by no more than the unchecked seats: sold seats and
\* live holds of a type exceed its quantity only through a payment that lands
\* after the hold lapsed (fulfill does not look again) or through lines of one
\* cart that ensureBuyable compares with committed holds only.
OversellExplained ==
  \A t \in Types :
    soldCount[t] + Cardinality(OfType(HeldSeats, t))
      <= Quantity[t] + Cardinality(OfType(UncheckedSeats, t))

\* The same for the per-buyer cap: a buyer's issued tickets and live holds of
\* a type exceed max_per_user by no more than his unchecked seats.
UserCapExplained ==
  \A u \in Users, t \in Types :
    OwnedByUser(u, t) <=
      MaxPerUser[t] + Cardinality({s \in OfType(UncheckedSeats, t) : buyer[OrderOf(s)] = u})

\* Stock and cap are exceeded by the seats that were never checked and by
\* nothing else.  (TicketAvailabilityRules.ensureBuyable, OrdersService.fulfill)
StockExplained == OversellExplained /\ UserCapExplained

\* The cached counters are what a count of the issued tickets would give.
CountersExact ==
  /\ \A t \in Types : soldCount[t] = Cardinality(OfType(LiveSeats, t))
  /\ ticketsSold = Cardinality(LiveSeats)

\* Seats, the sale entry and the hold agree with the order's status however
\* many times its fulfilment is asked for: seats and exactly one sale entry
\* from payment on, hold rows while pending only, one first sale per event.
FulfilledOnce ==
  /\ IssuedOrders = Settled
  /\ \A o \in Orders : ledger[o].sale = IF o \in Settled THEN 1 ELSE 0
  /\ \A o \in Orders : hold[o] # 0 => status[o] = "pending"
  /\ firstSale \subseteq Settled
  /\ (firstSale = {}) = (Settled = {})

\* The event's revenue cache is the sum of its paid orders' subtotals.
RevenueExact ==
  revenue = MapThenSumSet(LAMBDA o : Subtotal(cart[o]),
                          {o \in Orders : status[o] = "paid"})

\* What the event row caches is what its tickets and orders add up to.
\* (issueForOrder, revokeUnscannedForOrder, reverseEventRevenue)
BooksExact == CountersExact /\ RevenueExact

\* The cron's cancellation never hits an order that still holds its seats for
\* a running event, although it acts on a list read earlier.
CronSparesLiveHolds ==
  [][\A o \in Orders :
       (o \in sweep \ sweep' /\ status[o] = "pending" /\ status'[o] = "cancelled")
         => (~LiveHold(o) \/ EventEnds < now)]_vars

\* Every pending order is eventually paid or cancelled, crashes included: no
\* order keeps stock or a buyer waiting for ever.
PendingSettles ==
  \A o \in Orders : (status[o] = "pending") ~> (status[o] # "pending")

Lifecycle == INSTANCE OrderLifecycle
               WITH phase <- status,
                    seated <- IssuedOrders,
                    net <- [o \in Orders |-> ledger[o].sale - ledger[o].refund]

\* Checkout, holds, cron jobs and crashes together implement the abstract
\* order life cycle.
ImplementsLifecycle == Lifecycle!Spec

============================================================================
