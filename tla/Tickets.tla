------------------------------ MODULE Tickets ------------------------------
(***************************************************************************)
(* The issued-tickets kernel: IssuedTicketsService.  It owns the issued    *)
(* tickets of an event and the two sale counters kept beside them, the     *)
(* soldCount of each ticket type and the ticketsSold of the event.  Every  *)
(* operation runs in one database transaction; the ones below are the      *)
(* sub-actions that the order and the moderation modules build on.         *)
(*                                                                         *)
(* A slot is one seat asked for on one line of a cart; a seat is a slot of *)
(* an order.  A seat is "none" until the order that asked for it is        *)
(* fulfilled.                                                              *)
(***************************************************************************)
EXTENDS Integers, FiniteSets

CONSTANTS Orders,     \* order ids a run may create
          Types,      \* ticket types (event_tickets rows) of the event
          Lines,      \* line positions of a cart
          MaxQty,     \* most seats one line may ask for
          Horizon,    \* the clock stops here
          ValidFrom,  \* [Types -> Int]: admission opens (below 0: no limit)
          ValidTo     \* [Types -> Int]: admission closes (above Horizon: no limit)

ASSUME TicketsAssumption ==
  /\ IsFiniteSet(Orders) /\ IsFiniteSet(Types) /\ IsFiniteSet(Lines)
  /\ MaxQty \in Nat /\ Horizon \in Nat
  /\ ValidFrom \in [Types -> Int] /\ ValidTo \in [Types -> Int]

VARIABLES now,         \* the wall clock every service reads
          cart,        \* [Orders -> SUBSET Slot]: the order items
          ticket,      \* [Seats -> status]: issued_tickets.status
          soldCount,   \* [Types -> Nat]: event_tickets.sold_count
          ticketsSold  \* events.tickets_sold

ticketVars == <<ticket, soldCount, ticketsSold>>

Slot == [line : Lines, type : Types, n : 1..MaxQty]
Seats == Orders \X Slot
OrderOf(s) == s[1]
TypeOf(s) == s[2].type

TicketStatus == {"valid", "scanned", "revoked"}
Live(s) == ticket[s] \in {"valid", "scanned"}

SeatsOf(o) == {o} \X cart[o]
OfType(S, t) == {s \in S : TypeOf(s) = t}

TicketsTypeOK ==
  /\ now \in 0..Horizon
  /\ cart \in [Orders -> SUBSET Slot]
  /\ ticket \in [Seats -> TicketStatus \cup {"none"}]
  /\ soldCount \in [Types -> Nat]
  /\ ticketsSold \in Nat

TicketsInit ==
  /\ now = 0
  /\ cart = [o \in Orders |-> {}]
  /\ ticket = [s \in Seats |-> "none"]
  /\ soldCount = [t \in Types |-> 0]
  /\ ticketsSold = 0

----------------------------------------------------------------------------
\* An updateMany guarded by "counter >= n": skipped, not clamped, when short.
Decrement(counter, n) == IF counter >= n THEN counter - n ELSE counter

SetSeats(S, st) == ticket' = [s \in Seats |-> IF s \in S THEN st ELSE ticket[s]]

\* One valid ticket per seat; both counters go up by what was ordered.
IssueForOrder(o) ==
  /\ SetSeats(SeatsOf(o), "valid")
  /\ soldCount' = [t \in Types |->
                     soldCount[t] + Cardinality(OfType(SeatsOf(o), t))]
  /\ ticketsSold' = ticketsSold + Cardinality(SeatsOf(o))

\* The gate: the row is locked by its code before it is read.
ScanByCode(s) ==
  /\ ticket[s] = "valid"
  /\ ValidFrom[TypeOf(s)] <= now
  /\ now <= ValidTo[TypeOf(s)]
  /\ SetSeats({s}, "scanned")
  /\ UNCHANGED <<soldCount, ticketsSold>>

\* What the findMany of revokeUnscannedForOrder returns: no row is locked.
Unscanned(o) == {s \in SeatsOf(o) : ticket[s] \in {"valid", "revoked"}}

\* Mutant of RevokeRead: tickets read as revoked leave the counters again.
RevokeCountingAll(ids, readValid) ==
  /\ SetSeats(ids, "revoked")
  /\ soldCount' = [t \in Types |->
                     Decrement(soldCount[t], Cardinality(OfType(ids, t)))]
  /\ ticketsSold' = Decrement(ticketsSold, Cardinality(ids))

\* The rest of revokeUnscannedForOrder, on the rows it read before: all of
\* ids become revoked, and the ones read as valid leave the counters.
RevokeRead(ids, readValid) ==
  /\ SetSeats(ids, "revoked")
  /\ soldCount' = [t \in Types |->
                     Decrement(soldCount[t], Cardinality(OfType(readValid, t)))]
  /\ ticketsSold' = Decrement(ticketsSold, Cardinality(readValid))

\* revoke: a valid or a scanned ticket frees its seat.
Revoke(s) ==
  /\ Live(s)
  /\ SetSeats({s}, "revoked")
  /\ soldCount' = [soldCount EXCEPT ![TypeOf(s)] = Decrement(@, 1)]
  /\ ticketsSold' = Decrement(ticketsSold, 1)

\* reissue: neither the stock nor the order's status is looked at.
Reissue(s) ==
  /\ ticket[s] = "revoked"
  /\ SetSeats({s}, "valid")
  /\ soldCount' = [soldCount EXCEPT ![TypeOf(s)] = @ + 1]
  /\ ticketsSold' = ticketsSold + 1

============================================================================
